SPECIFICATION FairScanSpec
CONSTANTS
    a1 = a1
    a2 = a2
    a3 = a3
    e1 = e1
    e2 = e2
    s1 = s1
    s2 = s2
    Setups <- MCSetups
    Endpoints = {e1, e2}
    Weight <- MCWeight
    FailThreshold = 2
    Scanners = {s1, s2}
    Steady = s1
    Addresses = {a1, a2}
    Deposits = {1, 2, 3}
    PaidAt <- MCPaidAt
    FirstWatch = a1
    MaxPages = 2
    MaxEmptyPages = 1
    CursorStallGuard = 1
    WatchLimit = 2
    CursorLookback = 2
INVARIANTS
    ScanTypeOK
    
PROPERTIES
    MinedIsSeen
CHECK_DEADLOCK FALSE
