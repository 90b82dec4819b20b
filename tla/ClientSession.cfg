SPECIFICATION Spec
CONSTANTS
    Configs <- MCConfigs
    MaxRetries = 2
    Version = 1
    MaxConnections = 1
    MaxCrashes = 1
    MaxAttempts = 1
    MaxUnhealthy = 2
    MaxTunnels = 3
INVARIANTS TermsAgree LedgersHonest
PROPERTIES ResumesLatest RequestsEnd
CHECK_DEADLOCK FALSE
