SPECIFICATION Spec
CONSTANTS
    r1 = r1
    r2 = r2
    boot = boot
    worker = worker
    request = request
    Resets <- MCResets
    Startup = boot
    Worker = worker
    Users <- MCUsers
    MaxDeletes = 3
    MaxFaults = 1
    MaxRestarts = 1
SYMMETRY MCSymmetry
INVARIANTS
    TypeOK
    OkMeansRestored
    MissingHasACause
    StaleAssetsHaveACause
CHECK_DEADLOCK FALSE
