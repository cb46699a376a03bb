SPECIFICATION Spec
CONSTANTS
    Jobs = {1}
    MaxRetries <- OneStart
    Retriers = {r1, r2}
    MaxFaults = 0
    MaxRestarts = 0
    MaxResets = 2
PROPERTIES
    CompletedIsFinal
