SPECIFICATION Spec
CONSTANTS
    Runs = {r1, r2}
    NoRun = NoRun
    NoAgent = NoAgent
    Engineers <- MCEngineers
    Genesis <- MCGenesis
    Bids <- MCBids
    CapableSets <- MCCapableSets
    Bounty = 40
    BidFee = 1
    Penalty = 3
    ReviewFee = 5
    VerifyFee = 5
    PromoteFee = 3
    AccountFee = 2
    MaxCrashes = 2
    MaxFaults = 1
    MaxRedeliveries = 1
INVARIANTS TypeOK LedgerSound EscrowBacked EscrowSettled
    GeneratedOnce PaidOnEvidence CompletedIsEarned OpenRunsAccounted ReleasesDistinct
PROPERTY ClosedRunsStayClosed
