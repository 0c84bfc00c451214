SPECIFICATION FairSpec
CONSTANTS
    console = console
    chat = chat
    codex = codex
    hosted = hosted
    Transports = {console, chat}
    Console = console
    Providers = {codex, hosted}
    NoProvider = NoProvider
    shell = shell
    Tools = {shell}
    well = well
    signedout = signedout
    Configs = {well, signedout}
    Settings <- MCSettings
    First = well
    Unreadable = Unreadable
    NoConfig = NoConfig
    Polled = {chat}
    MaxEdits = 1
    MaxUpdates = 2
    MaxStarts = 2
    MaxFaults = 1
CHECK_DEADLOCK FALSE
INVARIANTS
    TypeOK
    StatusTold
    AllowedAnswers
    ConfirmedWasHandled
PROPERTIES
    SignalEnds
    UpdatesHandled
    KeepsDelivery
