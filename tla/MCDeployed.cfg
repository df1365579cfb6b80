\* The flight controller as do_recv uses it, on a reliable line.
SPECIFICATION FairSpec
CONSTANTS
    Commands <- Deployed
    Channels = 1
    MaxReplies = 2
    MaxCalibrations = 0
    Lossy = FALSE
INVARIANTS
    ModeMatchesSwitch
    OneRCFrame
    AtMostOneStaleFrame
PROPERTIES
    DisarmReachesBoard
    ImplementsArmSwitch
