SPECIFICATION Spec
CONSTANTS
    Assets = {1}
    Kind <- MCKind
    Text <- MCText
    Requests = {r1, r2}
    Profiles <- MCProfiles
    Metadata <- MCComplete
    MaxEditions = 1
    MaxFaults = 0
PROPERTIES
    BlockedIsNotApproved
