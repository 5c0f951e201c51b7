SPECIFICATION GateSpec
CONSTANTS
    k1 = k1
    o1 = o1
    tBody = tBody
    uBody = uBody
    wBody = wBody
    NoMessage = NoMessage
    NoHeader = NoHeader
    NoOrder = NoOrder
    Requests = {r1, r2, r3}
    Messages <- MCMessages
    OrderIn <- MCOrderIn
    OrderNames <- MCOrderNames
    FaultKinds = {"timeout", "crash", "db", "upstream"}
    MaxFaults = 2
INVARIANTS
    OnePayloadPerKey
    
    TransferPaidOnce
    StoredAnswersAreEarned
    SuccessIsRemembered

    
SYMMETRY RequestSymmetry
CHECK_DEADLOCK FALSE
