\* disarm() against the updater's TakeOff branch.
SPECIFICATION Spec
CONSTANTS
    Commands <- Deployed
    Channels = 1
    MaxReplies = 1
    MaxCalibrations = 0
    Lossy = FALSE
INVARIANT
    DisarmSticks
