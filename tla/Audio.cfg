SPECIFICATION Spec
CONSTANTS
    Parent <- MCParent
    Leaders <- MCLeaders
    Program <- MCProgram
    Truth <- MCTruth
    Configs <- MCConfigs
    Clients = {"c1", "c2"}
    Conns = {"x1", "x2", "x3"}
    LaneCap = 2
    MaxChannels = 2
    MaxRecorders = 2
    MaxSounds = 1
    MaxBreaks = 1
INVARIANTS SoundInOrder 
PROPERTIES SoundSettles
CHECK_DEADLOCK FALSE
