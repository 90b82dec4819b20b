SPECIFICATION Spec
CONSTANTS
    MaxFrame = 68
    MaxField = 100
    MaxCount = 3
    MinPixels = 8
    MaxRequest = 48
    MaxSetup = 20
    MaxSide = 4
    PcmFrame = 3
    MaxHeader = 90
    Ids = {1, 2}
    Room = 1
    Reads = {5, 16, 64}
    Configs <- MCConfigs
INVARIANTS  AllArrives
CHECK_DEADLOCK FALSE
