\* Three requests of six kinds under three configurations.
SPECIFICATION FairSpec
CONSTANTS
    Configs <- MCConfigs
    Requests <- MCRequests
    MaxRequests = 3
    DefaultHeaderLimit = 1
    DefaultBodyLimit = 2
INVARIANTS
    TypeOK
    SlowHandlerAnswered
    FramingKept
    AnsweredInOrder
    CloseAnnounced
    LargeRefused
PROPERTIES
    WaitsEnd
CHECK_DEADLOCK FALSE
