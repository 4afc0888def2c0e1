SPECIFICATION FairSpec
CONSTANTS
    id1 = id1
    id2 = id2
    p1 = p1
    p2 = p2
    m1 = m1
    NoMethod = NoMethod
    NoId = NoId
    Ids = {id1}
    Pairs = {p1, p2}
    Methods <- UnaryAndBidi
    ClientStreams <- Bidi
    ServerStreams <- Bidi
    Msgs = {m1}
    Permitted <- OnePermitted
    DryRuns = {FALSE}
    ClientOps = {"start", "data", "close", "cancel", "half", "refused"}
    ReqBufferSize = 1
    MaxReqs = 3
    MaxReplies = 1
PROPERTIES CancelCloses UnaryCloses EndsAfterHalfClose ErrorEnds
