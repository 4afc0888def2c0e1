SPECIFICATION FairSpec
CONSTANTS
    id1 = id1
    id2 = id2
    p1 = p1
    p2 = p2
    m1 = m1
    NoMethod = NoMethod
    NoId = NoId
    Ids = {id1}
    Pairs = {p1, p2}
    Methods <- Bidi
    ClientStreams <- Bidi
    ServerStreams <- Bidi
    Msgs = {m1}
    Permitted <- OnePermitted
    DryRuns = {FALSE}
    ClientOps = {"start", "break"}
    ReqBufferSize = 1
    MaxReqs = 1
    MaxReplies = 0
PROPERTIES EndsAfterBreak
CHECK_DEADLOCK FALSE
