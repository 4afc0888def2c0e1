SPECIFICATION CmdsSpec
CONSTANTS
    Cmds <- AllCommands
    MaxTargets = 2
    MaxReplies = 2
INVARIANTS ExitTellsFailure FailureNamed OutputOwn
PROPERTY CommandEnds
