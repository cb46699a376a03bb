SPECIFICATION FairSpec
CONSTANTS
    Jobs = {1, 2, 3}
    MaxRetries <- MCMaxRetries
    Retriers = {r1}
    MaxFaults = 1
    MaxRestarts = 1
    MaxResets = 2
INVARIANTS
    TypeOK
    RetryBudget
    OrphansAccounted
PROPERTIES
    Lifecycle
    PendingServed
    PendingSettles
