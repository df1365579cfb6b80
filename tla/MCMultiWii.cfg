\* Frames of 4 to 6 bytes; one sendCalibrate, which may overlap.
SPECIFICATION LineFairSpec
CONSTANTS
    Preamble <- SomePreamble
    Code <- SomeCode
    Data <- SomeData
    Answers <- SomeAnswers
    LineSize = 7
    ReadSize = 16
    ResponsesPerUpdate = 2
    MaxAnalog = 1
    MaxCalibrations = 1
INVARIANTS
    SentWhole
    ReceivedWhole
PROPERTIES
    RCFlows
