SPECIFICATION Spec
CONSTANTS
    Roster <- MCRoster
    Engineers <- MCEngineers
    Capabilities <- MCCapabilities
    Mean <- MCMean
    Seed <- MCSeed
    Reviewer = "aegis"
    Rules <- MCRules
    Escape <- MCEscape
    Tasks <- MCTasks
    Books <- MCBooks
    Evidence <- MCEvidence
    Learners = {"aegis"}
    MaxEvents = 5
    MaxSkips = 1
INVARIANTS
    TypeOK
    ReplayAgrees
    AwardIsBest
    FreeMeansFinished
CHECK_DEADLOCK FALSE
