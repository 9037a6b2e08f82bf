SPECIFICATION Spec
CONSTANTS
    Threads = {t1, t2}
    Model = "requested"
    OtherModel = "another"
    Diffs <- MCDiffs
    MaxStream = 4
    None = None
SYMMETRY MCSymmetry
INVARIANTS
    TypeOK
    ReleaseIndependent
    ReleaseTested
CHECK_DEADLOCK FALSE
