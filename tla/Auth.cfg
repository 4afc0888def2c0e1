SPECIFICATION Spec
CONSTANTS
    Targets = {"t1", "t2"}
    Direct = "t1"
    Calls <- AllCalls
    MaxMsgs = 2
INVARIANTS PermittedOnly
PROPERTIES FlowEnds
CHECK_DEADLOCK FALSE
