SPECIFICATION Spec
CONSTANTS
    Assets = {1, 2}
    Kind <- MCKind
    Text <- MCText
    Requests = {r1}
    Profiles <- MCProfiles
    Metadata <- MCMetadata
    MaxEditions = 2
    MaxFaults = 1
INVARIANTS
    TrailFollowsDecisions
PROPERTIES
    AtomicReview
