SPECIFICATION FairPipelineSpec
CONSTANTS
    d1 = d1
    x1 = x1
    s1 = s1
    s2 = s2
    Deposits = {d1}
    DepositAmount <- UnitAmount
    CreditConfs = 2
    UnlockConfs = 3
    FinalDepth = 3
    Scanners = {s1, s2}
    Transactions = {x1}
    TxOf <- OneTransaction
    NoDeposit = NoDeposit
    ReorgWindow = 1
    NotFoundThreshold = 2
    MaxTries = 2
    MaxDepth = 4
    Setups <- MCSetups
INVARIANTS
    CreditFollowsDepth
    AnnouncedIffCredited

    
CHECK_DEADLOCK FALSE
