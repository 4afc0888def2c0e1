SPECIFICATION FairSpec
CONSTANTS
    s1 = s1
    s2 = s2
    s3 = s3
    Ids = {s1, s2}
    MaxTargets = 2
    Modes = {"unary", "stream", "message"}
    MaxReplies = 2
    MaxSends = 1
INVARIANTS SetupAccounts UnaryAnswers InvokeTruthful StreamAnswers
PROPERTIES CallEnds
