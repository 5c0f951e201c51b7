SPECIFICATION FairRowsSpec
CONSTANTS
    Clients = {c1, c2}
    Nobody = Nobody
    Account = Account
    hot = hot
    cold = cold
    Vaults = {hot, cold}
    o1 = o1
    o2 = o2
    Orders = {o1, o2}
    Amount <- OneAndTwo
    Deposits = {d1, d2}
    DepositAmount <- TwoEach
    t1 = t1
    t2 = t2
    Transfers = {t1, t2, t3}
    From <- MCFrom
    To <- MCTo
    TransferAmount <- MCTransferAmount
    Sweeps = {s1}
    SweptTo <- ToHot
    SweepAmount <- OneSwept
    Opening <- MCOpening
    Opened = {Account, hot, cold}
    Workloads <- MCWorkloads
    Duplicates = FALSE
INVARIANTS
    RowsTypeOK
    AccountAddsUp
    VaultsAddUp
    OnlyOppositeTransfersDeadlock
PROPERTIES
    TransfersSettle
