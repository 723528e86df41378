\* What the configuration file promises of max_request_body = 0.
SPECIFICATION Spec
CONSTANTS
    Configs <- MCConfigs
    Requests <- MCRequests
    MaxRequests = 3
    DefaultHeaderLimit = 1
    DefaultBodyLimit = 2
INVARIANTS
    UnlimitedBody
CHECK_DEADLOCK FALSE
