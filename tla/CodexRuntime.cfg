SPECIFICATION FairSpec
CONSTANTS
    Paths = {kept, new}
    Tracked = {kept}
    MaxInvocations = 2
    MaxMishaps = 2
INVARIANTS TypeOK LoudOnlyIfNeeded EvidenceFresh
PROPERTIES HumanWorkKept EvidenceComplete InvocationsEnd
