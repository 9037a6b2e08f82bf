SPECIFICATION FairSpec
CONSTANTS
    Runs = {r1, r2}
    NoRun = NoRun
    NoPolicy = NoPolicy
    Liabilities <- MCLiabilities
    Balances <- MCBalances
    QueryLimit = 500
    MaxIncidents = 1
    MaxCrashes = 0
CHECK_DEADLOCK FALSE
PROPERTY ApprovalBeatsActive
