\* Three buffers in each pool: any may be with MMAL, in a callback, or lost.
SPECIFICATION FairSpec
CONSTANTS
    Size = 3
    Axes <- BothAxes
INVARIANTS
    Supported
    BuffersHome
    PositionFromReference
PROPERTIES
    DestructorEnds
