\* Two clients.
SPECIFICATION FairSpec
CONSTANTS
    Clients = {c1, c2}
    NoClient = NoClient
    Updates <- SomeUpdates
    InFlight = 1
    Window = 1
INVARIANTS
    UnarmedBetweenSessions
    WatchdogOnlyInSession
    AppliesLastMessage
PROPERTIES
    GoneClientIsLeft
    ShutdownEnds
\* The process may have been killed, or be over.
CHECK_DEADLOCK FALSE
