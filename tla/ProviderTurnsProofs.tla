------------------------- MODULE ProviderTurnsProofs -------------------------
(***************************************************************************)
(* Whatever the turn reached and whatever the candidates, one cycle of     *)
(* turns gives each candidate its share.  The shares of the candidates lie *)
(* side by side on 0..n-1, where n is the length of the cycle; a turn      *)
(* falls to the candidate whose share it hits modulo n, and n successive   *)
(* turns hit every place once.                                             *)
(***************************************************************************)
EXTENDS ProviderPoolProofs

(* Lengths: the turns of disjoint sets of candidates add up *)

Slots(p) == {p} \X (1..Weight[p])

LEMMA SlotsFinite ==
  ASSUME NEW p \in Providers
  PROVE  IsFiniteSet(Slots(p)) /\ Cardinality(Slots(p)) = Weight[p]
<1>1. Weight[p] \in Nat \ {0}
  BY PoolAssumption
<1>2. IsFiniteSet(1..Weight[p]) /\ Cardinality(1..Weight[p]) = Weight[p]
  BY <1>1, FS_Interval
<1>3. IsFiniteSet({p}) /\ Cardinality({p}) = 1
  BY FS_Singleton
<1>4. /\ IsFiniteSet({p} \X (1..Weight[p]))
      /\ Cardinality({p} \X (1..Weight[p])) = Cardinality({p}) * Cardinality(1..Weight[p])
  BY <1>2, <1>3, FS_Product
<1>. QED
  BY <1>1, <1>2, <1>3, <1>4 DEF Slots

LEMMA CycleFinite ==
  ASSUME NEW S \in SUBSET Providers
  PROVE  IsFiniteSet(Cycle(S))
<1>. DEFINE f == [p \in S |-> Slots(p)]
<1>. DEFINE T == {Slots(p) : p \in S}
<1>1. f \in Surjection(S, T)
  BY DEF Surjection
<1>2. IsFiniteSet(T)
  BY <1>1, ProvidersFinite, FS_Surjection
<1>3. \A t \in T : IsFiniteSet(t)
  BY SlotsFinite
<1>4. IsFiniteSet(UNION T)
  <2>. HIDE DEF T
  <2>. QED
    BY <1>2, <1>3, FS_UNION
<1>. QED
  BY <1>4 DEF Cycle, Slots

LEMMA ShareType ==
  ASSUME NEW S \in SUBSET Providers
  PROVE  Share(S) \in Nat
BY CycleFinite, ProvidersFinite, FS_CardinalityType DEF Share

LEMMA ShareAdds ==
  ASSUME NEW S \in SUBSET Providers, NEW T \in SUBSET Providers, S \cap T = {}
  PROVE  Share(S \cup T) = Share(S) + Share(T)
<1>1. Cardinality(S \cup T) = Cardinality(S) + Cardinality(T)
  <2>1. Cardinality(S \cup T) = Cardinality(S) + Cardinality(T) - Cardinality({})
    BY FS_Union, ProvidersFinite
  <2>. QED
    BY <2>1, FS_EmptySet, ProvidersFinite
<1>2. Cardinality(Cycle(S \cup T)) = Cardinality(Cycle(S)) + Cardinality(Cycle(T))
  <2>1. Cycle(S \cup T) = Cycle(S) \cup Cycle(T)
    BY DEF Cycle
  <2>2. Cycle(S) \cap Cycle(T) = {}
    BY DEF Cycle
  <2>3. IsFiniteSet(Cycle(S)) /\ IsFiniteSet(Cycle(T))
    BY CycleFinite
  <2>4. Cardinality(Cycle(S) \cup Cycle(T)) = Cardinality(Cycle(S)) + Cardinality(Cycle(T)) - Cardinality({})
    BY <2>2, <2>3, FS_Union
  <2>5. Cardinality(Cycle(S)) \in Nat /\ Cardinality(Cycle(T)) \in Nat
    BY <2>3, FS_CardinalityType
  <2>6. Cardinality({}) = 0
    BY FS_EmptySet
  <2>. QED
    BY <2>1, <2>4, <2>5, <2>6
<1>. QED
  BY <1>1, <1>2 DEF Share

LEMMA ShareOne ==
  ASSUME NEW p \in Providers
  PROVE  Share({p}) \in Nat \ {0}
<1>1. Cycle({p}) = Slots(p)
  BY DEF Cycle, Slots
<1>2. Cardinality({p}) = 1
  BY FS_Singleton
<1>3. Weight[p] \in Nat \ {0}
  BY PoolAssumption
<1>. QED
  BY <1>1, <1>2, <1>3, SlotsFinite DEF Share

LEMMA ShareEmpty == Share({}) = 0
<1>1. Cycle({}) = {}
  BY DEF Cycle
<1>. QED
  BY <1>1, FS_EmptySet DEF Share

LEMMA ShareGrows ==
  ASSUME NEW S \in SUBSET Providers, NEW T \in SUBSET S
  PROVE  Share(T) <= Share(S)
<1>1. T \cup (S \ T) = S
  OBVIOUS
<1>2. Share(T \cup (S \ T)) = Share(T) + Share(S \ T)
  BY ShareAdds
<1>. QED
  BY <1>1, <1>2, ShareType

LEMMA SharePositive ==
  ASSUME NEW S \in SUBSET Providers, S # {}
  PROVE  Share(S) \in Nat \ {0}
<1>1. PICK p : p \in S
  OBVIOUS
<1>2. Share({p}) <= Share(S)
  BY <1>1, ShareGrows
<1>. QED
  BY <1>1, <1>2, ShareOne, ShareType

-----------------------------------------------------------------------------
(* The turn that falls to a candidate *)

Before(S, p) == {q \in S : q < p}
UpTo(S, p) == {q \in S : q <= p}

LEMMA UpToIsBeforeAnd ==
  ASSUME NEW S \in SUBSET Providers, NEW p \in S
  PROVE  /\ Share(UpTo(S, p)) = Share(Before(S, p)) + Share({p})
         /\ Share(Before(S, p)) \in Nat /\ Share({p}) \in Nat \ {0}
         /\ Share(UpTo(S, p)) <= Share(S)
<1>0. S \subseteq Int /\ p \in Int
  BY DEF Providers
<1>1. UpTo(S, p) = Before(S, p) \cup {p}
  <2>1. \A q \in S : q <= p <=> q < p \/ q = p
    BY <1>0
  <2>. QED
    BY <2>1 DEF UpTo, Before
<1>2. Before(S, p) \cap {p} = {}
  BY <1>0 DEF Before
<1>3. Before(S, p) \in SUBSET Providers /\ {p} \in SUBSET Providers /\ UpTo(S, p) \in SUBSET S
  BY DEF Before, UpTo
<1>4. Share(Before(S, p) \cup {p}) = Share(Before(S, p)) + Share({p})
  BY <1>2, <1>3, ShareAdds
<1>. QED
  BY <1>1, <1>3, <1>4, ShareType, ShareOne, ShareGrows

LEMMA MaxOfProviders ==
  ASSUME NEW S \in SUBSET Providers, S # {}
  PROVE  \E m \in S : \A q \in S : q <= m
<1>. DEFINE T == {x \in Nat : \E q \in S : x = NumProviders - q}
<1>0. \A q \in S : NumProviders - q \in Nat
  BY PoolAssumption DEF Providers
<1>1. T \in SUBSET Nat /\ T # {}
  BY <1>0
<1>2. PICK x \in T : \A y \in T : x =< y
  <2>. HIDE DEF T
  <2>. QED
    BY <1>1, LeastExists
<1>3. PICK m \in S : x = NumProviders - m
  BY <1>2
<1>4. \A q \in S : NumProviders - m =< NumProviders - q
  BY <1>0, <1>2, <1>3
<1>. QED
  BY <1>4, PoolAssumption DEF Providers

LEMMA MinIsLeast ==
  ASSUME NEW S \in SUBSET Providers, NEW p \in S, \A q \in S : p <= q
  PROVE  Min(S) = p
<1>1. \A x \in S : (\A y \in S : x =< y) => x = p
  BY DEF Providers
<1>. QED
  BY <1>1, Zenon DEF Min

LEMMA MinLeast ==
  ASSUME NEW S \in SUBSET Providers, S # {}
  PROVE  Min(S) \in S /\ \A q \in S : Min(S) <= q
<1>1. \E x \in S : \A y \in S : x =< y
  BY LeastExists, PoolAssumption DEF Providers
<1>. QED
  BY <1>1, Zenon DEF Min

(* A turn falls to the candidate whose share it hits. *)
LEMMA PickMeans ==
  ASSUME NEW S \in SUBSET Providers, NEW p \in S, NEW i \in Nat, strategy # "failover"
  PROVE  Pick(S, i) = p <=> Share(Before(S, p)) <= i % Share(S) /\ i % Share(S) < Share(UpTo(S, p))
<1>. DEFINE r == i % Share(S)
            due == {q \in S : r < Share(UpTo(S, q))}
<1>0. S \subseteq Int /\ Share(S) \in Nat \ {0}
  BY SharePositive DEF Providers
<1>1. r \in 0..(Share(S) - 1)
  BY <1>0
<1>2. due # {}
  <2>1. PICK m \in S : \A q \in S : q <= m
    BY MaxOfProviders
  <2>2. UpTo(S, m) = S
    BY <2>1 DEF UpTo
  <2>. QED
    BY <1>0, <1>1, <2>2
<1>3. Pick(S, i) = Min(due)
  BY <1>2 DEF Pick, UpTo
<1>4. due \in SUBSET Providers
  OBVIOUS
<1>5. \A q \in S : Share(Before(S, q)) \in Nat /\ Share(UpTo(S, q)) \in Nat
  <2>1. \A q \in S : Before(S, q) \in SUBSET Providers /\ UpTo(S, q) \in SUBSET Providers
    BY DEF Before, UpTo
  <2>. QED
    BY <2>1, ShareType
<1>. HIDE DEF r
<1>6. ASSUME Share(Before(S, p)) <= r, r < Share(UpTo(S, p))
      PROVE  Min(due) = p
  <2>1. p \in due
    BY <1>6
  <2>2. ASSUME NEW q \in due, q < p PROVE FALSE
    <3>1. UpTo(S, q) \subseteq Before(S, p)
      <4>1. \A x \in S : x <= q => x < p
        BY <1>0, <2>2
      <4>. QED
        BY <4>1 DEF UpTo, Before
    <3>2. Before(S, p) \in SUBSET Providers /\ UpTo(S, q) \in SUBSET Before(S, p)
      BY <3>1 DEF Before
    <3>3. Share(UpTo(S, q)) <= Share(Before(S, p))
      BY <3>2, ShareGrows
    <3>. QED
      BY <1>1, <1>5, <1>6, <3>3
  <2>3. \A q \in due : p <= q
    BY <1>0, <2>2
  <2>. QED
    BY <1>4, <2>1, <2>3, MinIsLeast
<1>7. ASSUME Min(due) = p
      PROVE  Share(Before(S, p)) <= r /\ r < Share(UpTo(S, p))
  <2>1. p \in due /\ \A q \in due : p <= q
    BY <1>2, <1>4, <1>7, MinLeast
  <2>2. Share(Before(S, p)) <= r
    <3>1. CASE Before(S, p) = {}
      BY <1>1, <3>1, ShareEmpty
    <3>2. CASE Before(S, p) # {}
      <4>1. Before(S, p) \in SUBSET Providers
        BY DEF Before
      <4>2. PICK m \in Before(S, p) : \A q \in Before(S, p) : q <= m
        BY <3>2, <4>1, MaxOfProviders
      <4>3. m \in S /\ m < p
        BY <4>2 DEF Before
      <4>4. UpTo(S, m) = Before(S, p)
        <5>1. \A q \in S : q <= m => q < p
          BY <1>0, <4>3
        <5>. QED
          BY <4>2, <5>1 DEF UpTo, Before
      <4>5. m \notin due
        BY <1>0, <2>1, <4>3
      <4>. QED
        BY <1>1, <1>5, <4>3, <4>4, <4>5
    <3>. QED
      BY <3>1, <3>2
  <2>. QED
    BY <2>1, <2>2
<1>. QED
  BY <1>3, <1>6, <1>7 DEF r

-----------------------------------------------------------------------------
(* The turns of a cycle *)

LEMMA Remainder ==
  ASSUME NEW x \in Nat, NEW n \in Nat, n > 0
  PROVE  x % n \in 0..(n - 1) /\ \E q \in Nat : x = n * q + (x % n)
<1>1. x % n \in 0..(n - 1)
  OBVIOUS
<1>2. x = n * (x \div n) + (x % n) /\ x \div n \in Nat
  OBVIOUS
<1>. QED
  BY <1>1, <1>2

LEMMA RemainderOf ==
  ASSUME NEW n \in Nat, n > 0, NEW q \in Nat, NEW r \in 0..(n - 1)
  PROVE  (n * q + r) % n = r
OBVIOUS

LEMMA RemainderPlus ==
  ASSUME NEW x \in Nat, NEW n \in Nat, n > 0, NEW k \in 0..(n - 1)
  PROVE  (x + k) % n = IF (x % n) + k < n THEN (x % n) + k ELSE (x % n) + k - n
<1>1. x % n \in 0..(n - 1)
  BY Remainder
<1>2. PICK q \in Nat : x = n * q + (x % n)
  BY Remainder
<1>. DEFINE r == x % n
<1>. HIDE DEF r
<1>3. r \in 0..(n - 1) /\ x = n * q + r
  BY <1>1, <1>2 DEF r
<1>4. CASE r + k < n
  <2>1. r + k \in 0..(n - 1) /\ x + k = n * q + (r + k)
    BY <1>3, <1>4
  <2>2. (n * q + (r + k)) % n = r + k
    BY <2>1, RemainderOf
  <2>. QED
    BY <1>4, <2>1, <2>2 DEF r
<1>5. CASE ~(r + k < n)
  <2>1. r + k - n \in 0..(n - 1) /\ q + 1 \in Nat
    BY <1>3, <1>5
  <2>2. n * (q + 1) = n * q + n
    OBVIOUS
  <2>3. x + k = n * (q + 1) + (r + k - n)
    BY <1>3, <2>2
  <2>4. (n * (q + 1) + (r + k - n)) % n = r + k - n
    BY <2>1, RemainderOf
  <2>. QED
    BY <1>5, <2>3, <2>4 DEF r
<1>. QED
  BY <1>4, <1>5

LEMMA RemainderSucc ==
  ASSUME NEW x \in Nat, NEW n \in Nat, n > 0
  PROVE  ((x % n) + 1) % n = (x + 1) % n
<1>1. x % n \in 0..(n - 1)
  BY Remainder
<1>2. CASE n = 1
  BY <1>2
<1>3. CASE n # 1
  <2>. DEFINE r == x % n
  <2>1. r \in Nat /\ 1 \in 0..(n - 1) /\ r \in 0..(n - 1)
    BY <1>1, <1>3
  <2>2. (x + 1) % n = IF r + 1 < n THEN r + 1 ELSE r + 1 - n
    BY <2>1, RemainderPlus
  <2>. HIDE DEF r
  <2>3. r % n = r
    BY <2>1
  <2>4. (r + 1) % n = IF (r % n) + 1 < n THEN (r % n) + 1 ELSE (r % n) + 1 - n
    BY <2>1, RemainderPlus
  <2>5. (r + 1) % n = (x + 1) % n
    BY <2>2, <2>3, <2>4
  <2>. QED
    BY <2>5 DEF r
<1>. QED
  BY <1>2, <1>3

(* The k-th turn from now on, were S the candidates all along *)
TurnAt(S, k) ==
  IF strategy = "weighted-round-robin" THEN turn + k
  ELSE IF k = 0 THEN turn ELSE ((turn + (k - 1)) % Cardinality(S)) + 1

LEMMA Candidates ==
  ASSUME NEW S \in SUBSET Providers, S # {}
  PROVE  Cardinality(S) \in Nat /\ Cardinality(S) > 0
<1>1. Cardinality(S) # 0
  BY ProvidersFinite, FS_EmptySet
<1>. QED
  BY <1>1, ProvidersFinite

LEMMA TurnAtType ==
  ASSUME NEW S \in SUBSET Providers, S # {}, turn \in Nat, NEW k \in Nat
  PROVE  TurnAt(S, k) \in Nat
<1>1. k # 0 => (turn + (k - 1)) % Cardinality(S) \in 0..(Cardinality(S) - 1)
  BY Candidates, Remainder
<1>. QED
  BY <1>1, Candidates DEF TurnAt

LEMMA TurnAtModulo ==
  ASSUME NEW S \in SUBSET Providers, S # {}, turn \in Nat, NEW k \in Nat,
         strategy \in Strategies, strategy # "failover"
  PROVE  TurnAt(S, k) % Share(S) = (turn + k) % Share(S)
<1>1. CASE strategy = "weighted-round-robin" \/ k = 0
  BY <1>1 DEF TurnAt
<1>2. CASE strategy # "weighted-round-robin" /\ k # 0
  <2>1. TurnAt(S, k) = ((turn + (k - 1)) % Cardinality(S)) + 1 /\ Share(S) = Cardinality(S)
    BY <1>2 DEF TurnAt, Share
  <2>2. turn + (k - 1) \in Nat
    BY <1>2
  <2>3. (((turn + (k - 1)) % Cardinality(S)) + 1) % Cardinality(S) = ((turn + (k - 1)) + 1) % Cardinality(S)
    BY <2>2, Candidates, RemainderSucc
  <2>4. (turn + (k - 1)) + 1 = turn + k
    OBVIOUS
  <2>. QED
    BY <2>1, <2>3, <2>4
<1>. QED
  BY <1>1, <1>2

LEMMA TurnAtNext ==
  ASSUME NEW S \in SUBSET Providers, S # {}, turn \in Nat, NEW k \in Nat, k # 0,
         strategy \in Strategies, strategy # "failover"
  PROVE  NextTurn(S, TurnAt(S, k - 1)) = TurnAt(S, k)
<1>1. k - 1 \in Nat
  OBVIOUS
<1>2. CASE strategy = "weighted-round-robin"
  BY <1>1, <1>2 DEF TurnAt, NextTurn
<1>3. CASE strategy # "weighted-round-robin"
  <2>1. strategy = "round-robin"
    BY <1>3 DEF Strategies
  <2>2. TurnAt(S, k - 1) % Cardinality(S) = (turn + (k - 1)) % Cardinality(S)
    <3>1. Share(S) = Cardinality(S)
      BY <2>1 DEF Share
    <3>. QED
      BY <1>1, <3>1, TurnAtModulo
  <2>. QED
    BY <2>1, <2>2 DEF TurnAt, NextTurn
<1>. QED
  BY <1>2, <1>3

(* The turns are determined, place by place. *)
LEMMA TurnsAre ==
  ASSUME NEW S \in SUBSET Providers, S # {}, turn \in Nat,
         strategy \in Strategies, strategy # "failover",
         NEW f, f = [k \in Nat |-> IF k = 0 THEN turn ELSE NextTurn(S, f[k - 1])],
         NEW k \in Nat
  PROVE  f[k] = TurnAt(S, k)
<1>. DEFINE Wrong == {j \in Nat : f[j] # TurnAt(S, j)}
<1>1. ASSUME NEW j \in Wrong, \A i \in Wrong : j =< i PROVE FALSE
  <2>1. CASE j = 0
    BY <1>1, <2>1 DEF TurnAt
  <2>2. CASE j # 0
    <3>1. j - 1 \in Nat /\ j - 1 \notin Wrong
      BY <1>1, <2>2
    <3>2. f[j - 1] = TurnAt(S, j - 1)
      BY <3>1
    <3>3. f[j] = NextTurn(S, f[j - 1])
      BY <2>2
    <3>4. NextTurn(S, TurnAt(S, j - 1)) = TurnAt(S, j)
      BY <2>2, TurnAtNext
    <3>. QED
      BY <3>2, <3>3, <3>4
  <2>. QED
    BY <2>1, <2>2
<1>. HIDE DEF Wrong
<1>2. Wrong \in SUBSET Nat
  BY DEF Wrong
<1>3. Wrong = {}
  BY <1>1, <1>2, LeastExists
<1>. QED
  BY <1>3 DEF Wrong

LEMMA TurnsExist ==
  ASSUME NEW S \in SUBSET Providers, S # {}, turn \in Nat,
         strategy \in Strategies, strategy # "failover"
  PROVE  \E f : f = [k \in Nat |-> IF k = 0 THEN turn ELSE NextTurn(S, f[k - 1])]
<1>. DEFINE f == [k \in Nat |-> TurnAt(S, k)]
<1>1. ASSUME NEW k \in Nat
      PROVE  TurnAt(S, k) = IF k = 0 THEN turn ELSE NextTurn(S, f[k - 1])
  <2>1. CASE k = 0
    BY <2>1 DEF TurnAt
  <2>2. CASE k # 0
    <3>1. k - 1 \in Nat
      BY <2>2
    <3>2. f[k - 1] = TurnAt(S, k - 1)
      BY <3>1
    <3>. QED
      BY <2>2, <3>2, TurnAtNext
  <2>. QED
    BY <2>1, <2>2
<1>2. f = [k \in Nat |-> IF k = 0 THEN turn ELSE NextTurn(S, f[k - 1])]
  BY <1>1, Zenon
<1>. QED
  BY <1>2

(* Of the n turns from t on, those that hit the interval from lo to hi modulo n. *)
Hits(n, t, lo, hi) == {k \in 0..(n - 1) : lo <= (t + k) % n /\ (t + k) % n < hi}

(* There are as many of them as the interval has places. *)
LEMMA PlacesHit ==
  ASSUME NEW n \in Nat, n > 0, NEW t \in Nat, NEW lo \in Nat, NEW hi \in Nat, lo <= hi, hi <= n
  PROVE  Cardinality(Hits(n, t, lo, hi)) = hi - lo
<1>. DEFINE K == Hits(n, t, lo, hi)
            s == t % n
            I == lo..(hi - 1)
            at(k) == IF s + k < n THEN s + k ELSE s + k - n
            back(r) == IF r >= s THEN r - s ELSE r - s + n
            f == [r \in I |-> back(r)]
<1>1. s \in 0..(n - 1)
  BY Remainder
<1>2. \A k \in 0..(n - 1) : (t + k) % n = at(k)
  BY RemainderPlus
<1>. HIDE DEF s
<1>3. K = {k \in 0..(n - 1) : lo <= at(k) /\ at(k) < hi}
  BY <1>2 DEF Hits
<1>. HIDE DEF K
<1>4. \A r \in I : back(r) \in 0..(n - 1) /\ at(back(r)) = r
  BY <1>1
<1>5. \A k \in K : at(k) \in I /\ back(at(k)) = k
  BY <1>1, <1>3
<1>6. f \in [I -> K]
  BY <1>3, <1>4
<1>7. \A a, b \in I : f[a] = f[b] => a = b
  <2>. SUFFICES ASSUME NEW a \in I, NEW b \in I, f[a] = f[b] PROVE a = b
    OBVIOUS
  <2>1. back(a) = back(b)
    OBVIOUS
  <2>. HIDE DEF at, back
  <2>. QED
    BY <1>4, <2>1
<1>8. \A k \in K : \E r \in I : f[r] = k
  <2>. HIDE DEF at, back
  <2>. QED
    BY <1>5
<1>9. f \in Bijection(I, K)
  <2>. HIDE DEF f
  <2>. QED
    BY <1>6, <1>7, <1>8 DEF Bijection, Injection, Surjection, IsInjective
<1>10. ExistsBijection(I, K)
  BY <1>9 DEF ExistsBijection
<1>11. IsFiniteSet(I) /\ Cardinality(I) = hi - lo
  <2>1. hi - 1 \in Int
    OBVIOUS
  <2>2. IsFiniteSet(I) /\ Cardinality(I) = IF lo > hi - 1 THEN 0 ELSE (hi - 1) - lo + 1
    BY <2>1, FS_Interval
  <2>. HIDE DEF I
  <2>. QED
    BY <2>2
<1>. HIDE DEF I
<1>12. Cardinality(K) = hi - lo
  BY <1>10, <1>11, FS_Bijection
<1>. QED
  BY <1>12 DEF K

LEMMA TypesAreFair ==
  ASSUME TypeOK
  PROVE  FairTurns
<1>. SUFFICES ASSUME strategy # "failover", NEW S \in (SUBSET enabled) \ {{}}
              PROVE  LET index[k \in Nat] == IF k = 0 THEN turn ELSE NextTurn(S, index[k - 1])
                     IN \A p \in S :
                          Cardinality({k \in 0..(Share(S) - 1) : Pick(S, index[k]) = p}) = Share({p})
  BY DEF FairTurns
<1>. DEFINE index[k \in Nat] == IF k = 0 THEN turn ELSE NextTurn(S, index[k - 1])
<1>0. S \in SUBSET Providers /\ S # {} /\ turn \in Nat /\ strategy \in Strategies
  BY DEF TypeOK
<1>1. index = [k \in Nat |-> IF k = 0 THEN turn ELSE NextTurn(S, index[k - 1])]
  <2>1. \E f : f = [k \in Nat |-> IF k = 0 THEN turn ELSE NextTurn(S, f[k - 1])]
    BY <1>0, TurnsExist
  <2>2. index = CHOOSE f : f = [k \in Nat |-> IF k = 0 THEN turn ELSE NextTurn(S, f[k - 1])]
    BY DEF index
  <2>. QED
    BY <2>1, <2>2, Zenon
<1>. HIDE DEF index
<1>2. \A k \in Nat : index[k] = TurnAt(S, k)
  BY <1>0, <1>1, TurnsAre
<1>3. Share(S) \in Nat /\ Share(S) > 0
  BY <1>0, SharePositive
<1>4. ASSUME NEW p \in S
      PROVE  Cardinality({k \in 0..(Share(S) - 1) : Pick(S, index[k]) = p}) = Share({p})
  <2>. DEFINE n == Share(S)  lo == Share(Before(S, p))  hi == Share(UpTo(S, p))
              K == {k \in 0..(Share(S) - 1) : Pick(S, index[k]) = p}
  <2>1. /\ hi = lo + Share({p}) /\ lo \in Nat /\ Share({p}) \in Nat
        /\ hi \in Nat /\ lo <= hi /\ hi <= n /\ n \in Nat /\ n > 0
    BY <1>0, <1>3, UpToIsBeforeAnd
  <2>2. ASSUME NEW k \in 0..(n - 1)
        PROVE  k \in K <=> lo <= (turn + k) % n /\ (turn + k) % n < hi
    <3>1. k \in Nat
      BY <1>3
    <3>2. index[k] = TurnAt(S, k) /\ TurnAt(S, k) \in Nat
      BY <1>0, <1>2, <3>1, TurnAtType
    <3>3. TurnAt(S, k) % n = (turn + k) % n
      BY <1>0, <3>1, TurnAtModulo
    <3>4. Pick(S, TurnAt(S, k)) = p <=> lo <= TurnAt(S, k) % n /\ TurnAt(S, k) % n < hi
      BY <1>0, <3>2, PickMeans
    <3>. QED
      BY <3>2, <3>3, <3>4
  <2>3. K = Hits(n, turn, lo, hi)
    BY <2>2 DEF Hits
  <2>4. Cardinality(K) = hi - lo
    <3>. HIDE DEF n, lo, hi, K
    <3>. QED
      BY <1>0, <2>1, <2>3, PlacesHit
  <2>5. hi - lo = Share({p})
    <3>. HIDE DEF n, lo, hi
    <3>. QED
      BY <2>1
  <2>. QED
    BY <2>4, <2>5
<1>. QED
  BY <1>4 DEF index

(* From the turn reached, one cycle gives every candidate its share of the runs,
   whatever the providers, their weights and the candidates. *)
THEOREM FairTurnsHolds == Spec => []FairTurns
<1>1. TypeOK => FairTurns
  BY TypesAreFair
<1>. QED
  BY <1>1, TypesHold, PTL
=============================================================================
