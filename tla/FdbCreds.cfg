SPECIFICATION TsSpec
CONSTANTS
    Loads <- TwoFDBCLI
    MaxGen = 0
    MaxLines = 1
    FileChanCap = 1
    MaxFiles = 0
    MaxErrs = 0
INVARIANTS RunsAsConfigured
CHECK_DEADLOCK FALSE
