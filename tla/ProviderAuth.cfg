SPECIFICATION Spec
CONSTANTS
    Clients = {runtime, thread, command}
    Sessions = {s1}
    NoSession = NoSession
    Rotates = TRUE
    MaxTries = 2
    MaxTokens = 4
    MaxOps = 4
    MaxFaults = 1
CHECK_DEADLOCK FALSE
INVARIANTS
    StaysSignedIn
    LogoutSticks
