--------------------------- MODULE CoinsTheorems ---------------------------
(* What the proofs use of Worth: it is a natural number, and a set grows or *)
(* shrinks in worth by the amount of the element it gains or loses.         *)
EXTENDS Coins, FiniteSetTheorems, FunctionTheorems, TLAPS

\* An order has as many coins as its amount.
LEMMA CoinsOfCount ==
    ASSUME NEW x, NEW amt, amt[x] \in Nat
    PROVE  IsFiniteSet(CoinsOf(x, amt)) /\ Cardinality(CoinsOf(x, amt)) = amt[x]
<1> DEFINE N == 1..amt[x]
           f == [i \in N |-> <<x, i>>]
<1>1. f \in [N -> CoinsOf(x, amt)]
  BY Zenon DEF CoinsOf
<1>2. \A i, j \in N : f[i] = f[j] => i = j
  BY Zenon
<1>3. \A c \in CoinsOf(x, amt) : \E i \in N : f[i] = c
  BY Zenon DEF CoinsOf
<1> HIDE DEF f
<1>4. f \in Bijection(N, CoinsOf(x, amt))
  BY <1>1, <1>2, <1>3, Fun_IsBij, Zenon
<1>5. ExistsBijection(N, CoinsOf(x, amt))
  BY <1>4, Zenon DEF ExistsBijection
<1>6. IsFiniteSet(N)
  BY FS_Interval
<1>7. Cardinality(N) = amt[x]
  BY FS_Interval
<1> QED
  BY <1>5, <1>6, <1>7, FS_Bijection, Zenon

\* The coins of a finite set of orders are finitely many.
LEMMA CoinsFinite ==
    ASSUME NEW S, IsFiniteSet(S), NEW amt, \A x \in S : amt[x] \in Nat
    PROVE  IsFiniteSet(UNION {CoinsOf(x, amt) : x \in S})
<1> DEFINE C == {CoinsOf(x, amt) : x \in S}
           f == [x \in S |-> CoinsOf(x, amt)]
<1>1. f \in [S -> C] /\ \A c \in C : \E x \in S : f[x] = c
  BY Zenon
<1>2. \A c \in C : IsFiniteSet(c)
  BY CoinsOfCount, Zenon
<1> HIDE DEF f, C
<1>3. f \in Surjection(S, C)
  BY <1>1, Fun_IsSurj, Zenon
<1>4. IsFiniteSet(C)
  BY <1>3, FS_Surjection, Zenon
<1>5. IsFiniteSet(UNION C)
  BY <1>2, <1>4, FS_UNION, Zenon
<1> QED
  BY <1>5, Zenon DEF C

\* Worth is a natural number.
LEMMA WorthNat ==
    ASSUME NEW S, IsFiniteSet(S), NEW amt, \A x \in S : amt[x] \in Nat
    PROVE  Worth(S, amt) \in Nat
BY CoinsFinite, FS_CardinalityType, Zenon DEF Worth

\* Nothing is worth nothing.
LEMMA WorthEmpty ==
    ASSUME NEW amt
    PROVE  Worth({}, amt) = 0
<1>1. UNION {CoinsOf(x, amt) : x \in {}} = {}
  BY Zenon
<1> QED
  BY <1>1, FS_EmptySet, Zenon DEF Worth

\* A new element adds its amount.
LEMMA WorthAdd ==
    ASSUME NEW S, IsFiniteSet(S), NEW y, y \notin S,
           NEW amt, \A x \in S \cup {y} : amt[x] \in Nat
    PROVE  Worth(S \cup {y}, amt) = Worth(S, amt) + amt[y]
<1> DEFINE U == UNION {CoinsOf(x, amt) : x \in S}
           V == CoinsOf(y, amt)
<1>1. UNION {CoinsOf(x, amt) : x \in S \cup {y}} = U \cup V
  BY Zenon
<1>2. U \cap V = {}
  BY Zenon DEF CoinsOf
<1>3. IsFiniteSet(U)
  BY CoinsFinite, Zenon
<1>4. IsFiniteSet(V) /\ Cardinality(V) = amt[y]
  BY CoinsOfCount, Zenon
<1> HIDE DEF U, V
<1>5. Cardinality(U \cup V) = Cardinality(U) + Cardinality(V) - Cardinality(U \cap V)
  BY <1>3, <1>4, FS_Union, Zenon
<1>6. Cardinality(U \cap V) = 0
  BY <1>2, FS_EmptySet, Zenon
<1>7. Cardinality(U) \in Nat
  BY <1>3, FS_CardinalityType, Zenon
<1>8. Cardinality(U \cup V) = Cardinality(U) + amt[y]
  BY <1>4, <1>5, <1>6, <1>7
<1> QED
  BY <1>1, <1>8, Zenon DEF Worth, U

\* An element taken out takes its amount with it.
LEMMA WorthRemove ==
    ASSUME NEW S, IsFiniteSet(S), NEW y \in S,
           NEW amt, \A x \in S : amt[x] \in Nat
    PROVE  /\ amt[y] <= Worth(S, amt)
           /\ Worth(S \ {y}, amt) = Worth(S, amt) - amt[y]
<1> DEFINE T == S \ {y}
<1>1. S = T \cup {y} /\ y \notin T
  BY Zenon
<1>2. IsFiniteSet(T)
  BY FS_RemoveElement, Zenon
<1>3. Worth(T \cup {y}, amt) = Worth(T, amt) + amt[y]
  BY <1>1, <1>2, WorthAdd, Zenon
<1>4. Worth(T, amt) \in Nat
  BY <1>2, WorthNat, Zenon
<1>5. Worth(S, amt) = Worth(T, amt) + amt[y]
  BY <1>1, <1>3, Zenon
<1> HIDE DEF T
<1>6. /\ amt[y] <= Worth(S, amt)
      /\ Worth(T, amt) = Worth(S, amt) - amt[y]
  BY <1>4, <1>5
<1> QED
  BY <1>6, Zenon DEF T
=============================================================================
