SPECIFICATION RegistrySpec
CONSTANTS
    t1 = t1
    NoSeed = NoSeed
    Accounts = {a1, a2}
    TenantOf <- MCTenantOf
    Places <- MCPlaces
    CoinType <- MCCoinType
    Format <- MCFormat
    Coins = {eth, usdt}
    Callers = {c1, c2}
    Seeds = {s1, s2}
    AutoCreate = TRUE
    MaxDerives = 1
    MaxCalls = 5
INVARIANTS
    AddressHasOneOwner
    OneAddressPerPlace
    RegisteredIsSpendable
    GivenStaysWatched
SYMMETRY RegistrySymmetry
CHECK_DEADLOCK FALSE
