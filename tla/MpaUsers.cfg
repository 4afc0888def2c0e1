SPECIFICATION FairSpec
CONSTANTS
    Actions <- ThreeActions
    Requestor <- MCRequestor
    Method <- MCMethod
    Size <- MCSize
    Principals <- TwoCallers
    UserOf <- MCUserOf
    Waiters = {w1}
    Calls = {c1}
    maxMPAApprovals = 1
    MaxMessageBytes = 4
    MaxTotalBytes = 0
    maxMPAApprovedAge = 0
    MaxStores = 2
    MaxTime = 1
    Nobody = Nobody
INVARIANTS WaitMeansApproved HookApproversGenuine
PROPERTIES WaiterWakes
