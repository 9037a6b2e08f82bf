SPECIFICATION FairSpec
CONSTANTS
    Runs = {r1}
    NoRun = NoRun
    NoAgent = NoAgent
    Engineers <- LiveEngineers
    Genesis <- LiveGenesis
    Bids <- LiveBids
    CapableSets <- LiveCapableSets
    Bounty = 40
    BidFee = 1
    Penalty = 3
    ReviewFee = 5
    VerifyFee = 5
    PromoteFee = 3
    AccountFee = 2
    MaxCrashes = 1
    MaxFaults = 0
    MaxRedeliveries = 0
PROPERTY RestartLeavesNoOpenRun
