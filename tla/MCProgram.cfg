SPECIFICATION SpecPrograms
CONSTANTS
    MaxInt = 15
    LargestUInt = 63
    PortMax = 7
    DefaultPort = 6
    Lexemes <- MCLexemes
    Spelling <- MCSpelling
    Meaning <- MCMeaning
    Name <- MCName
    Unended = {"open"}
    AfterError = {"}", "]"}
    MaxLexemes = 6
    StackLimit = 3
    Conversions <- MCConversions
    PowerOn = 34179
    K = 2300000
    B <- MCB
    Tenths = 1
    MaxRuns = 2
INVARIANTS
    TextDecodes
    ReadsAsSpecified
    NobodyUsesTheDead
    OnlyAnEarlierLimitKills
    RestoresWhatItFound
PROPERTIES
    Interruptible
CHECK_DEADLOCK FALSE
