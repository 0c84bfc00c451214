SPECIFICATION FairSpec
CONSTANTS
    telegram = telegram
    group = group
    Chats = {group}
    Senders = {alice}
    Nobody = Nobody
    Threads = {telegram}
    ChatsOf <- MCChatsOf
    Waker = waker
    Operators = {operator}
    NamedIds = {}
    NoId = NoId
    Claims = {}
    MaxRequests = 1
    MaxEvents = 4
    MaxCrashes = 1
CHECK_DEADLOCK FALSE
PROPERTIES
    EventEnds
    AnswerLands
    KeepsLedger
