SPECIFICATION FairSpec
CONSTANTS
    Stores = {s1, s2}
    NoStore = NoStore
    NoHash = NoHash
    MaxAppends = 3
    MaxFaults = 1
    MaxCrashes = 1
    MaxOutages = 1
    MaxDamages = 1
INVARIANTS TypeOK AckedDurable ReadsComplete HistoriesAgree ReadableUndisturbed
PROPERTIES HistoryNeverChanges AppendsEnd
