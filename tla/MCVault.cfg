SPECIFICATION FairVaultDispatchSpec
CONSTANTS
    hot = hot
    cold = cold
    x1 = x1
    x2 = x2
    s1 = s1
    t1 = t1
    t2 = t2
    t3 = t3
    t4 = t4
    c1 = c1
    c2 = c2
    NoTx = NoTx
    NoOrder = NoOrder
    Accounts = {hot, cold}
    Hot = hot
    Cold = cold
    HotCap = 1
    Opening <- MCOpening
    Transfers = {x1, x2}
    From <- MCFrom
    To <- MCTo
    TransferAmount <- MCTransferAmount
    Sweeps = {s1}
    SweepAmount <- MCSweepAmount
    Txs = {t1, t2, t3, t4}
    TxOrder <- MCTxOrder
    Callers = {c1, c2}
    RequiredConfs = 2
    MaxConfs = 2
    MaxVault = 10
    FinalDepth = 2
    Setups <- MCSetups
INVARIANTS
    DoneMeansPaid
    
    
PROPERTIES
    VaultMovesWithOrders
    ReservedSettles
CHECK_DEADLOCK FALSE
