SPECIFICATION Spec
CONSTANTS
    chat = chat
    loop = loop
    Threads = {chat, loop}
    FocusLimit = 2
    MaxMessages = 6
    MaxTurns = 2
    Answers <- MCAnswers
    MaxCalls = 1
    MaxEvents = 2
    MaxDeaths = 1
CHECK_DEADLOCK FALSE
INVARIANTS
    TypeOK
    WorkRemembered
    ReplyRemembered
    PlanAnswered
    FocusKept
SYMMETRY MCSymmetry
