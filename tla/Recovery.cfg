SPECIFICATION Spec
CONSTANTS
    Runs = {r1, r2}
    NoRun = NoRun
    NoPolicy = NoPolicy
    Liabilities <- MCLiabilities
    Balances <- MCBalances
    QueryLimit = 500
    MaxIncidents = 2
    MaxCrashes = 1
SYMMETRY Symmetry
CHECK_DEADLOCK FALSE
INVARIANTS TypeOK StatusMatchesVersion PulseTellsIncidents OneDecision ProposalsDistinct
    ActivationIsApproved
