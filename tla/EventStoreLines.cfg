SPECIFICATION Spec
CONSTANTS
    Stores = {s1, s2}
    NoStore = NoStore
    NoHash = NoHash
    MaxAppends = 2
    MaxFaults = 0
    MaxCrashes = 1
    MaxOutages = 0
    MaxDamages = 0
INVARIANT AckedOnOwnLine
