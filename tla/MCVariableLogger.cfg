\* Records of two and three bytes in buffers of five.
SPECIFICATION LogsSpec
CONSTANTS
    Static = {"rc", "position"}
    Dynamic = {"vrpn"}
    Size <- SomeSize
    TimeSize = 1
    BufferSize = 5
    MaxRecords = 3
INVARIANTS
    NothingLost
    ReadBack
