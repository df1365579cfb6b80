SPECIFICATION Spec
CONSTANTS
    Capacity = 2
    Keys = {";", "d", "h", "q"}
    Modes = {"VELOCITY", "POSITION"}
    Window = 1
    MaxTyped = 2
INVARIANTS NoSendAfterClose OrderKept
PROPERTIES ClosedAfterAll CloseReturns
