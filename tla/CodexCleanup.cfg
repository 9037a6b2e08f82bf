SPECIFICATION FairSpec
CONSTANTS
    Paths = {new}
    Tracked = {}
    MaxInvocations = 1
    MaxMishaps = 1
PROPERTIES RestoredOrLoud
