SPECIFICATION Spec
CONSTANTS
    Stores = {s1, s2}
    NoStore = NoStore
    NoHash = NoHash
    MaxAppends = 2
    MaxFaults = 1
    MaxCrashes = 0
    MaxOutages = 0
    MaxDamages = 0
INVARIANT SequencesUnique
