------------------------ MODULE MCAddressRegistry ------------------------
(* Instances of AddressRegistry for TLC. *)
EXTENDS AddressRegistry, TLC

CONSTANTS t1

MCTenantOf == [a \in Accounts |-> t1]
MCPlaces == {<<"eth", "main">>, <<"eth", "test">>}
MCCoinType == [c \in {"eth"} |-> 60]
MCFormat == [p \in MCPlaces |-> "hex"]

\* Callers, seeds, coins and accounts of the tenant are interchangeable.
RegistrySymmetry ==
    Permutations(Callers) \cup Permutations(Seeds) \cup Permutations(Coins) \cup Permutations(Accounts)
=============================================================================
