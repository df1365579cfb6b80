\* Calibration, on a line that loses frames and replies.
SPECIFICATION FairSpec
CONSTANTS
    Commands <- SomeCommands
    Channels = 2
    MaxReplies = 1
    MaxCalibrations = 1
    Lossy = TRUE
PROPERTIES
    CalibrationEnds
