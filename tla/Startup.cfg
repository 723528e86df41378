\* Small widths: 16 values of uint32_t, floats with 3 bits, 8-bit nanoseconds.
SPECIFICATION Spec
CONSTANTS
    INT_MAX = 7
    UINT32 = 16
    PORT_MAX = 10
    http_port_default = 8
    REP_MAX = 127
    NanoPerSecond = 5
    FloatUnit = 2
    FloatRange = 8
    Ulps = {1, 2, 4, 8, 16, 32, 64}
    max_retry_wait = 20
    hardware_concurrency = 0
    NaN = NaN
    None = None
    Configurations <- MCConfigurations
    Databases = {"d1", "d2"}
    Writers = {"p1", "p2"}
    Levels = {4, 7}
    MaxMessages = 2
    MaxPieces = 1
INVARIANTS
    AcceptedUsable
    SettingsHonoured
    DatabasesReady
    FailureReported
    LogFaithful
CHECK_DEADLOCK FALSE
