SPECIFICATION Spec
CONSTANTS
    o1 = o1
    o2 = o2
    d1 = d1
    d2 = d2
    s1 = s1
    t1 = t1
    NoTx = NoTx
    Orders = {o1, o2}
    Deposits = {d1}
    Txs = {t1}
    Amount <- MCAmount
    Sender <- MCSender
    DepositAmount <- MCDepositAmount
    Notices <- MCNotices
    RequiredConfs = 1
    MaxConfs = 1
    MaxClaims = 1
    MaxReplacements = 1
    CreditConfs = 1
    UnlockConfs = 2
INVARIANTS
    TypeOK
    TotalsAreTheirRows
    JournalTellsTheRows
PROPERTIES
    DepositMovesForward
    ImplementsBook
CHECK_DEADLOCK FALSE
