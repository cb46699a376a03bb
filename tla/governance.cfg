SPECIFICATION Spec
CONSTANTS
    Assets = {1}
    Kind <- MCKind
    Text <- MCText
    Requests = {r1, r2}
    Profiles <- MCProfiles
    Metadata <- MCMetadata
    MaxEditions = 1
    MaxFaults = 2
SYMMETRY MCSymmetry
INVARIANTS
    TypeOK
    ApprovedWasCleared
    OutputsWereCleared
    TrailIsComplete
