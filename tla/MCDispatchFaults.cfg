SPECIFICATION DispatchSpec
CONSTANTS
    o1 = o1
    o2 = o2
    s1 = s1
    t1 = t1
    t2 = t2
    t3 = t3
    w1 = w1
    w2 = w2
    NoTx = NoTx
    NoOrder = NoOrder
    Orders = {o1, o2}
    Txs = {t1, t2, t3}
    Workers = {w1, w2}
    Amount <- MCAmount
    Sender <- MCSender
    TxOrder <- MCTxOrder
    RequiredConfs = 2
    MaxConfs = 2
    MaxClaims = 2
    MaxReplacements = 1
    MaxAttempts = 2
    FinalDepth = 2
    Setups <- MCRoughSetups
INVARIANTS
    ConfirmedMeansPaid
    
CHECK_DEADLOCK FALSE
