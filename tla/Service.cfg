SPECIFICATION ServiceFairSpec
CONSTANTS
    Runs = {r1, r2}
    SeedRun = r1
    NoRun = NoRun
    NoAgent = NoAgent
    Engineers <- MCEngineers
    Genesis <- MCGenesis
    Bids <- MCBids
    CapableSets <- MCCapableSets
    Bounty = 40
    BidFee = 1
    Penalty = 3
    ReviewFee = 5
    VerifyFee = 5
    PromoteFee = 3
    AccountFee = 2
    MaxCrashes = 2
    MaxFaults = 1
    MaxRedeliveries = 1
    Profiles <- MCProfiles
    Seeds = 2
    SeedDemo = TRUE
    MaxBootCrashes = 2
INVARIANT ServesWhole
PROPERTIES RunsClose KeepsContract BootsIntoDelivery
