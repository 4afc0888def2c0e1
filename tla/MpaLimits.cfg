SPECIFICATION Spec
CONSTANTS
    Actions <- ThreeActions
    Requestor <- MCRequestor
    Method <- MCMethod
    Size <- MCSize
    Principals <- Callers
    UserOf <- MCUserOf
    Waiters = {}
    Calls = {}
    maxMPAApprovals = 2
    MaxMessageBytes = 4
    MaxTotalBytes = 3
    maxMPAApprovedAge = 1
    MaxStores = 4
    MaxTime = 2
    Nobody = Nobody
INVARIANTS TypeOK Accounting Bounded
PROPERTIES ApprovalsKept
