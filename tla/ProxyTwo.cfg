SPECIFICATION Spec
CONSTANTS
    id1 = id1
    id2 = id2
    p1 = p1
    p2 = p2
    m1 = m1
    NoMethod = NoMethod
    NoId = NoId
    Ids = {id1, id2}
    Pairs = {p1, p2}
    Methods <- UnaryMethod
    ClientStreams <- None
    ServerStreams <- None
    Msgs = {m1}
    Permitted <- AllPermitted
    DryRuns = {FALSE}
    ClientOps = {"start", "data", "close", "half", "break"}
    ReqBufferSize = 1
    MaxReqs = 3
    MaxReplies = 1
INVARIANTS NoSendOnClosedChannel ReplyOrder NoStrandedStream NonceUnambiguous
SYMMETRY TwoSymmetry
