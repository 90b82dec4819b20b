SPECIFICATION Spec
CONSTANTS
    U32Max = 100000
    I64Max = 200000
    Fields <- MCFields
    Edits <- MCEdits
    Docs <- MCDocs
    Envs <- MCEnvs
    MaxTouches = 2
    MaxOutside = 1
 
PROPERTIES  SaveEnds
CHECK_DEADLOCK FALSE
