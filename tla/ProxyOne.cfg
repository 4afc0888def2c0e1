SPECIFICATION Spec
CONSTANTS
    id1 = id1
    id2 = id2
    p1 = p1
    p2 = p2
    m1 = m1
    NoMethod = NoMethod
    NoId = NoId
    Ids = {id1}
    Pairs = {p1, p2}
    Methods <- AllMethods
    ClientStreams <- Uploads
    ServerStreams <- Downloads
    Msgs = {m1}
    Permitted <- OnePermitted
    DryRuns = {TRUE, FALSE}
    ClientOps = {"start", "data", "close", "cancel", "half", "stray", "nomethod", "badtype", "unknown", "refused"}
    ReqBufferSize = 1
    MaxReqs = 3
    MaxReplies = 1
INVARIANTS TypeOK DeliveryFaithful OkMeansTargetOk ReplyMeansOk
PROPERTIES ImplementsSession
