SPECIFICATION Spec
CONSTANTS
    telegram = telegram
    group = group
    Chats = {group}
    Senders = {alice, bob}
    Nobody = Nobody
    Threads = {telegram}
    ChatsOf <- MCChatsOf
    Waker = waker
    Operators = {operator}
    NamedIds = {named}
    NoId = NoId
    Claims = {}
    MaxRequests = 2
    MaxEvents = 3
    MaxCrashes = 1
CHECK_DEADLOCK FALSE
INVARIANT ApprovedMeansDone
