SPECIFICATION Spec
CONSTANTS
    Clients = {runtime, command}
    Sessions = {s1}
    NoSession = NoSession
    Rotates = TRUE
    MaxTries = 2
    MaxTokens = 3
    MaxOps = 4
    MaxFaults = 1
CHECK_DEADLOCK FALSE
INVARIANT LoginRepairs
