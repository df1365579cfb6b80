\* Bytes are bits, and a length is two of them.
SPECIFICATION FairSpec
CONSTANTS
    Base = 2
    HeaderLen = 2
    Messages <- SomeMessages
    SocketSize = 6
    MaxSent = 4
INVARIANTS
    StreamConserved
PROPERTIES
    ImplementsMailbox
\* The receive thread may have thrown.
CHECK_DEADLOCK FALSE
