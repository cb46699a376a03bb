SPECIFICATION Spec
CONSTANTS
    r1 = r1
    r2 = r2
    boot = boot
    worker = worker
    request = request
    Resets <- MCOneReset
    Startup = boot
    Worker = worker
    Users <- MCOneUser
    MaxDeletes = 1
    MaxFaults = 0
    MaxRestarts = 1
INVARIANT
    SeedIsIdempotent
CHECK_DEADLOCK FALSE
