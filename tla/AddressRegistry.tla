-------------------------- MODULE AddressRegistry --------------------------
(***************************************************************************)
(* Accounts, keys and deposit addresses: the handlers AccountUpsert and    *)
(* CreateAddress of wallet-core, the registry tables they share with the   *)
(* scanners (adapters/registry/postgres.go), the keys bound to a tenant    *)
(* (adapters/auth) and the seeds of sign-service (keystore, policy).       *)
(*                                                                         *)
(* A caller serves one request.  Every SQL statement outside a transaction *)
(* and every call to another service is a step of its own.                 *)
(***************************************************************************)
EXTENDS Naturals, FiniteSets

CONSTANTS
    Accounts,
    TenantOf,       \* the tenant of each account
    Places,         \* pairs of chain and network
    CoinType,       \* the HD coin type of each chain
    Format,         \* how the addresses of a place are written
    Coins,
    Callers,
    Seeds,          \* fresh 64-byte seeds, each handed out once (their number is a bound)
    NoSeed,
    AutoCreate,     \* sign-service creates a missing seed
    MaxDerives,     \* rate limit: derivations of a tenant per window
    MaxCalls        \* bound: requests sent

Tenants == {TenantOf[a] : a \in Accounts}
Chains == {p[1] : p \in Places}

ASSUME RegistryAssumption ==
    /\ CoinType \in [Chains -> Nat]
    /\ DOMAIN Format = Places
    /\ NoSeed \notin Seeds
    /\ AutoCreate \in BOOLEAN
    /\ MaxDerives \in Nat \ {0}
    /\ MaxCalls \in Nat

VARIABLES
    accounts,   \* table wallet_accounts: id, hd_account_index and status
    nextId,     \* its sequence
    rows,       \* table wallet_addresses
    watches,    \* table scan_watch_addresses
    tenantKeys, \* table tenant_keys
    seeds,      \* the seed in each tenant's slot
    unused,     \* the seeds nobody has drawn
    bucket,     \* derivations counted in the current window
    calls,      \* requests so far
    hands,      \* what each caller is at and holds
    given,      \* history: the addresses that were created
    rotated,    \* history: tenants whose seed an operator replaced
    crossed     \* history: account and place asked for while a request for them was under way

registryVars ==
    <<accounts, nextId, rows, watches, tenantKeys, seeds, unused, bucket, calls, hands, given, rotated,
      crossed>>

NoIndex == 0
Ids == Nat \ {0}
KeyIds == Chains \X Nat \X Nat
PublicKeys == Seeds \X Nat \X Nat \X Nat

\* buildHDKeyID: sign type and chain, account index and address index.
\* Fault: the account is left out.
BuildHDKeyIDShared(chain, index, n) == <<chain, 1, n>>

BuildHDKeyID(chain, index, n) == <<chain, index, n>>

\* What the HD path of a key yields from a seed (external: one-way, so
\* distinct paths and seeds give distinct keys).
Derived(seed, key) == <<seed, CoinType[key[1]], key[2], key[3]>>

\* ConvertAddress of chain-gateway: public key and network decide.
ConvertAddress(pub, place) == <<pub, Format[place]>>

NoHand == [pc |-> "idle"]

RegistryTypeOK ==
    /\ \A a \in Accounts :
         /\ accounts[a].id \in {NoIndex} \cup Ids
         /\ accounts[a].index \in {NoIndex} \cup Ids
         /\ accounts[a].status \in {"NONE", "ACTIVE", "DISABLED"}
         /\ accounts[a].index # NoIndex => accounts[a].index = accounts[a].id
    /\ \A r \in rows :
         r.account \in Accounts /\ r.place \in Places /\ r.coin \in Coins
         /\ r.key \in KeyIds /\ r.pub \in PublicKeys /\ r.addr = ConvertAddress(r.pub, r.place)
    /\ seeds \in [Tenants -> Seeds \cup {NoSeed}]
    /\ \A t \in Tenants : bucket[t] \in 0..MaxDerives

RegistryInit ==
    /\ accounts = [a \in Accounts |-> [id |-> NoIndex, index |-> NoIndex, status |-> "NONE"]]
    /\ nextId = 1
    /\ rows = {}
    /\ watches = {}
    /\ tenantKeys = {}
    /\ seeds = [t \in Tenants |-> NoSeed]
    /\ unused = Seeds
    /\ bucket = [t \in Tenants |-> 0]
    /\ calls = 0
    /\ hands = [c \in Callers |-> NoHand]
    /\ given = {}
    /\ rotated = {}
    /\ crossed = {}

At(c, pc) == hands[c].pc = pc

\* A caller that is free takes up another request.
Arrives(c) ==
    /\ At(c, "idle")
    /\ calls < MaxCalls
    /\ calls' = calls + 1

Idle(c) == hands' = [hands EXCEPT ![c] = NoHand]
Goto(c, pc) == hands' = [hands EXCEPT ![c].pc = pc]

registryTables == <<accounts, nextId, rows, watches, tenantKeys>>
history == <<calls, given, crossed>>
signer == <<seeds, unused, bucket, rotated>>

-----------------------------------------------------------------------------
(* Accounts: AccountUpsert, UpsertAccount. *)

\* INSERT ... ON CONFLICT DO UPDATE.  The new row has no HD index yet.
UpsertAccountInsert(c) ==
    /\ Arrives(c)
    /\ \E a \in Accounts, st \in {"ACTIVE", "DISABLED"} :
         /\ IF accounts[a].id = NoIndex
            THEN /\ accounts' = [accounts EXCEPT ![a].id = nextId, ![a].status = st]
                 /\ nextId' = nextId + 1
            ELSE /\ accounts' = [accounts EXCEPT ![a].status = st]
                 /\ UNCHANGED nextId
         /\ hands' = [hands EXCEPT ![c] = [pc |-> "index", account |-> a]]
    /\ UNCHANGED <<rows, watches, tenantKeys, signer, given, crossed>>

\* The row of an account after the index statement.
Indexed(a) ==
    IF accounts[a].index = NoIndex THEN [accounts EXCEPT ![a].index = accounts[a].id] ELSE accounts

UpsertAccountIndex(c) ==
    /\ At(c, "index")
    /\ accounts' = Indexed(hands[c].account)
    /\ Idle(c)
    /\ UNCHANGED <<nextId, rows, watches, tenantKeys, signer, history>>

-----------------------------------------------------------------------------
(* Addresses: CreateAddress. *)

AsksFor(c, w) ==
    hands[c].pc \notin {"idle", "index"} /\ <<hands[c].account, hands[c].place>> = w

\* The checks before PrepareAddress: the account exists and is ACTIVE.
Begin(c) ==
    /\ Arrives(c)
    /\ \E a \in Accounts, p \in Places, coin \in Coins :
         /\ accounts[a].status = "ACTIVE"
         /\ hands' = [hands EXCEPT ![c] = [pc |-> "look", account |-> a, place |-> p, coin |-> coin]]
         /\ crossed' = crossed \cup {w \in {<<a, p>>} : \E d \in Callers : AsksFor(d, w)}
    /\ UNCHANGED <<registryTables, signer, given>>

RowsAt(a, p) == {r \in rows : r.account = a /\ r.place = p}

\* A caller that knows the key it will use.
Keyed(h, key, existing, pub, addr) ==
    [pc |-> "derive", account |-> h.account, place |-> h.place, coin |-> h.coin,
     key |-> key, existing |-> existing, pub |-> pub, addr |-> addr]

\* Fault: an address that exists is not looked for.
LookSkipped(c) ==
    /\ At(c, "look")
    /\ Goto(c, "allocate")
    /\ UNCHANGED <<registryTables, signer, history>>

\* PrepareAddress, first statement: an ACTIVE row with a key is used again.
Look(c) ==
    LET found == RowsAt(hands[c].account, hands[c].place) IN
    /\ At(c, "look")
    /\ \/ /\ found = {}
          /\ Goto(c, "allocate")
       \/ \E r \in found :
            /\ \A s \in found : r.key[3] <= s.key[3]
            /\ hands' = [hands EXCEPT ![c] = Keyed(hands[c], r.key, TRUE, r.pub, r.addr)]
    /\ UNCHANGED <<registryTables, signer, history>>

\* COALESCE(MAX(address_index), -1) + 1, as a set of one.
NextAddressIndex(a, p) ==
    {n \in {0} \cup {r.key[3] + 1 : r \in RowsAt(a, p)} : \A r \in RowsAt(a, p) : r.key[3] < n}

\* The other two statements: hd_account_index, which may be NULL still (an
\* error), and the highest address index in use.
Allocate(c) ==
    LET h == hands[c]
        index == accounts[h.account].index IN
    /\ At(c, "allocate")
    /\ \/ /\ index = NoIndex
          /\ Idle(c)
       \/ /\ index # NoIndex
          /\ \E n \in NextAddressIndex(h.account, h.place) :
               hands' = [hands EXCEPT ![c] =
                   Keyed(h, BuildHDKeyID(h.place[1], index, n), FALSE, NoSeed, NoSeed)]
    /\ UNCHANGED <<registryTables, signer, history>>

Tenant(c) == TenantOf[hands[c].account]

\* The caller has its public key: a new address is converted from it.
WithKey(c, seed) ==
    IF hands[c].existing THEN [hands[c] EXCEPT !.pc = "bind"]
    ELSE LET pub == Derived(seed, hands[c].key) IN
         [hands[c] EXCEPT !.pc = "bind", !.pub = pub, !.addr = ConvertAddress(pub, hands[c].place)]

\* A failed derivation ends the request, unless the address exists.
WithoutKey(c) == IF hands[c].existing THEN [hands[c] EXCEPT !.pc = "bind"] ELSE NoHand

\* DeriveKey: the rate limit, then LoadSeed; a missing seed is made next.
Derive(c) ==
    LET t == Tenant(c) IN
    /\ At(c, "derive")
    /\ \/ /\ bucket[t] >= MaxDerives
          /\ hands' = [hands EXCEPT ![c] = WithoutKey(c)]
          /\ UNCHANGED bucket
       \/ /\ bucket[t] < MaxDerives
          /\ bucket' = [bucket EXCEPT ![t] = @ + 1]
          /\ hands' = [hands EXCEPT ![c] =
               CASE seeds[t] # NoSeed -> WithKey(c, seeds[t])
                 [] seeds[t] = NoSeed /\ AutoCreate -> [hands[c] EXCEPT !.pc = "provision"]
                 [] OTHER -> WithoutKey(c)]
    /\ UNCHANGED <<registryTables, seeds, unused, history, rotated>>

\* Fault: a seed that is there by now is overwritten.
ProvisionSeedOver(t, s) == seeds' = [seeds EXCEPT ![t] = s]

\* ProvisionSeed under the keystore's mutex: an existing seed stays.
ProvisionSeed(t, s) ==
    seeds' = [seeds EXCEPT ![t] = IF @ = NoSeed THEN s ELSE @]

\* LoadOrCreateSeed, second half: draw a seed and store it.  Whoever comes
\* second gets ErrSeedAlreadyExists, and its request fails.
Provision(c) ==
    LET t == Tenant(c) IN
    /\ At(c, "provision")
    /\ \E s \in unused :
         /\ unused' = unused \ {s}
         /\ ProvisionSeed(t, s)
         /\ hands' = [hands EXCEPT ![c] = IF seeds'[t] = s THEN WithKey(c, s) ELSE WithoutKey(c)]
    /\ UNCHANGED <<registryTables, bucket, history, rotated>>

\* The window of the rate limit is over.
WindowOver ==
    /\ \E t \in Tenants : bucket[t] > 0 /\ bucket' = [bucket EXCEPT ![t] = 0]
    /\ UNCHANGED <<registryTables, seeds, unused, hands, history, rotated>>

\* "vault import" and "vault rotate": the store is locked by one process, so
\* the service is down and no derivation is under way.
Operator ==
    /\ \A c \in Callers : ~ At(c, "provision")
    /\ \E t \in Tenants, s \in unused :
         /\ unused' = unused \ {s}
         /\ \/ seeds[t] = NoSeed /\ UNCHANGED rotated
            \/ seeds[t] # NoSeed /\ rotated' = rotated \cup {t}
         /\ seeds' = [seeds EXCEPT ![t] = s]
    /\ UNCHANGED <<registryTables, bucket, hands, history>>

\* BindTenantKey: the upsert makes the key ACTIVE for the tenant.
BindTenantKey(c) ==
    /\ At(c, "bind")
    /\ tenantKeys' = tenantKeys \cup {<<Tenant(c), hands[c].key>>}
    /\ Goto(c, "update")
    /\ UNCHANGED <<accounts, nextId, rows, watches, signer, history>>

\* The rest of UpsertWatchAddress once the address row is written: the watch
\* is made or refreshed and the transaction commits.
Watch(c) ==
    LET h == hands[c] IN
    /\ watches' = watches \cup {[account |-> h.account, place |-> h.place, coin |-> h.coin, addr |-> h.addr]}
    /\ given' = given \cup {[account |-> h.account, place |-> h.place, coin |-> h.coin, addr |-> h.addr]}
    /\ accounts' = Indexed(h.account)
    /\ Idle(c)

Rewritten(r, h) ==
    [r EXCEPT !.account = h.account, !.place = h.place, !.addr = h.addr, !.pub = h.pub]

SameKeyRows(c) ==
    {r \in rows : TenantOf[r.account] = Tenant(c) /\ r.key = hands[c].key}
SameAddressRows(c) ==
    {r \in RowsAt(hands[c].account, hands[c].place) : r.addr = hands[c].addr}

\* Fault: every row of the tenant is rewritten.
UpdatedRowsAll(c) == {r \in rows : TenantOf[r.account] = Tenant(c)}

\* The rows the first UPDATE that matches any rewrites: by tenant and key,
\* wherever they point, else by account, place and address.
UpdatedRows(c) ==
    IF SameKeyRows(c) # {} THEN SameKeyRows(c) ELSE SameAddressRows(c)

\* upsertWalletAddressTx, the UPDATEs.
UpdateAddress(c) ==
    /\ At(c, "update")
    /\ \/ /\ UpdatedRows(c) = {}
          /\ Goto(c, "insert")
          /\ UNCHANGED <<accounts, rows, watches, given>>
       \/ /\ UpdatedRows(c) # {}
          /\ rows' = (rows \ UpdatedRows(c)) \cup {Rewritten(r, hands[c]) : r \in UpdatedRows(c)}
          /\ Watch(c)
    /\ UNCHANGED <<nextId, tenantKeys, signer, calls, crossed>>

Taken(c) == \E r \in SameAddressRows(c) : r.coin = hands[c].coin

\* The INSERT.  A request that committed in between has the same row: the
\* unique index of account, place, coin and address makes this one fail.
InsertAddress(c) ==
    LET h == hands[c] IN
    /\ At(c, "insert")
    /\ \/ /\ Taken(c)
          /\ Idle(c)
          /\ UNCHANGED <<accounts, rows, watches, given>>
       \/ /\ ~ Taken(c)
          /\ rows' = rows \cup {[account |-> h.account, place |-> h.place, coin |-> h.coin,
                                 key |-> h.key, pub |-> h.pub, addr |-> h.addr]}
          /\ Watch(c)
    /\ UNCHANGED <<nextId, tenantKeys, signer, calls, crossed>>

\* A request ends between two steps: a failed call, a client gone, a crash.
Abort(c) ==
    /\ ~ At(c, "idle")
    /\ Idle(c)
    /\ UNCHANGED <<registryTables, signer, history>>

-----------------------------------------------------------------------------
RegistryNext ==
    \/ \E c \in Callers :
         \/ UpsertAccountInsert(c) \/ UpsertAccountIndex(c)
         \/ Begin(c) \/ Look(c) \/ Allocate(c) \/ Derive(c) \/ Provision(c)
         \/ BindTenantKey(c) \/ UpdateAddress(c) \/ InsertAddress(c)
         \/ Abort(c)
    \/ WindowOver
    \/ Operator

RegistrySpec == RegistryInit /\ [][RegistryNext]_registryVars

-----------------------------------------------------------------------------
(* Properties. *)

\* ListWatchAddresses: a watch counts while the address is in the registry at
\* the same place.
Watched(g) ==
    /\ g \in watches
    /\ \E r \in rows : r.account = g.account /\ r.place = g.place /\ r.addr = g.addr

\* No two accounts are ever given the same key or the same address, however
\* their requests interleave: a deposit names its account.
AddressHasOneOwner ==
    \A g, h \in given : g.addr = h.addr => g.account = h.account

\* An account is given one address per chain and network, whatever the coin,
\* the aborted and repeated requests, the requests of others and the switches
\* to another network, as long as the seed stays.  Two requests for the place
\* at once can get two: PrepareAddress looks for a row and for the highest
\* index in two statements.
OneAddressPerPlace ==
    \A g, h \in given :
        g.account = h.account /\ g.place = h.place
        /\ <<g.account, g.place>> \notin crossed /\ TenantOf[g.account] \notin rotated
        => g.addr = h.addr

\* What is registered can be signed for: deriving the row's key again from
\* the seed in the slot yields its public key, and the key is bound to the
\* tenant.  Two requests that both found no seed do not end up with two.
RegisteredIsSpendable ==
    \A r \in rows :
        LET t == TenantOf[r.account] IN
        /\ <<t, r.key>> \in tenantKeys
        /\ t \notin rotated => seeds[t] # NoSeed /\ r.pub = Derived(seeds[t], r.key)

\* An address that was given out stays watched and stays resolvable, unless
\* its account got an address on another network of the chain: the key id
\* does not name the network, so that request rewrites the row.
GivenStaysWatched ==
    \A g \in given :
        (\A h \in given : h.account = g.account /\ h.place[1] = g.place[1] => h.place = g.place)
        /\ TenantOf[g.account] \notin rotated
        => Watched(g)
=============================================================================
