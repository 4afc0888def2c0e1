SPECIFICATION TsSpec
CONSTANTS
    Loads <- AllLoads
    MaxGen = 2
    MaxLines = 3
    FileChanCap = 1
    MaxFiles = 4
    MaxErrs = 2
INVARIANTS OkEarned NothingLeft RefusedUntouched KeysKept HandshakeFresh
PROPERTIES HandlersEnd
CHECK_DEADLOCK FALSE
