------------------------- MODULE ProviderPoolProofs -------------------------
(***************************************************************************)
(* What ProviderPool keeps for all numbers of providers, weights, sets of  *)
(* conversations and bounds.  The invariant is a conjunction of parts, one *)
(* per group of variables; each part is kept by a lemma of its own, which  *)
(* splits the steps by what they do to that group.                         *)
(***************************************************************************)
EXTENDS ProviderPool, FiniteSetTheorems, NaturalsInduction, WellFoundedInduction, TLAPS

ConfigOK ==
  /\ configured \in SUBSET Providers
  /\ enabled \in SUBSET configured /\ enabled # {}
  /\ edited \in SUBSET Providers /\ dropping \in SUBSET edited
  /\ strategy \in Strategies

HealthOK ==
  /\ unhealthy \in SUBSET Providers
  /\ errors \in [Providers -> 0..Threshold]
  /\ UnhealthyByErrors

RowsOK ==
  /\ bound \in [Conversations -> Known]
  /\ saved \in [Conversations -> Known]
  /\ cached \in [Chats -> Known]

(* A running conversation has a provider, and only a running one. *)
RunsOK ==
  /\ stage \in [Conversations -> {"idle", "prepared", "running"}]
  /\ provider \in [Conversations -> Known]
  /\ input \in [Conversations -> Known]
  /\ history \in [Conversations -> BOOLEAN]
  /\ failed \in [Conversations -> BOOLEAN]
  /\ \A c \in Running : provider[c] \in Providers

RestOK ==
  /\ turn \in Nat /\ changes \in Nat
  /\ override \in [Chats -> Known]

CountsOK ==
  /\ activeSessions \in [Providers -> Nat]
  /\ SessionsNotOvercounted

TypesOK == ConfigOK /\ HealthOK /\ RowsOK /\ RunsOK /\ RestOK

LEMMA TypeParts == TypesOK /\ CountsOK => TypeOK
BY DEF TypeOK, TypesOK, ConfigOK, HealthOK, RowsOK, RunsOK, RestOK, CountsOK

-----------------------------------------------------------------------------
(* The helpers of the model *)

LEMMA LeastExists ==
  ASSUME NEW S \in SUBSET Nat, S # {}
  PROVE  \E x \in S : \A y \in S : x =< y
<1>1. \E x \in S : \A y \in S : ~(<<y, x>> \in OpToRel(<, Nat))
  BY NatLessThanWellFounded, WFMin, Zenon
<1>2. PICK x \in S : \A y \in S : ~(<<y, x>> \in OpToRel(<, Nat))
  BY <1>1
<1>3. \A y \in S : ~(y < x)
  BY <1>2 DEF OpToRel
<1>. QED
  BY <1>3

LEMMA MinOfProviders ==
  ASSUME NEW S \in SUBSET Providers, S # {}
  PROVE  Min(S) \in S
<1>1. \E x \in S : \A y \in S : x =< y
  BY LeastExists, PoolAssumption DEF Providers
<1>. QED
  BY <1>1, Zenon DEF Min

(* selectProvider chooses a candidate. *)
LEMMA PickIsCandidate ==
  ASSUME NEW S \in SUBSET Providers, S # {}, NEW i
  PROVE  Pick(S, i) \in S
<1>. DEFINE due == {p \in S : i % Share(S) < Share({q \in S : q <= p})}
<1>1. Min(S) \in S
  BY MinOfProviders
<1>2. due # {} => Min(due) \in due
  BY MinOfProviders
<1>. QED
  BY <1>1, <1>2 DEF Pick

LEMMA ProvidersFinite ==
  ASSUME NEW S \in SUBSET Providers
  PROVE  IsFiniteSet(S) /\ Cardinality(S) \in Nat
<1>1. IsFiniteSet(Providers)
  BY FS_Interval, PoolAssumption DEF Providers
<1>. QED
  BY <1>1, FS_Subset, FS_CardinalityType

LEMMA NextTurnType ==
  ASSUME NEW S \in SUBSET Providers, S # {}, NEW i \in Nat, strategy \in Strategies
  PROVE  NextTurn(S, i) \in Nat
<1>1. Cardinality(S) \in Nat \ {0}
  BY ProvidersFinite, FS_EmptySet
<1>2. i % Cardinality(S) \in Nat
  BY <1>1
<1>. QED
  BY <1>2 DEF NextTurn, Strategies

LEMMA FolderType ==
  ASSUME NEW c \in Conversations
  PROVE  FolderOf(c) \in Chats
BY PoolAssumption DEF FolderOf, Conversations

LEMMA OfferedType ==
  ASSUME RowsOK, RunsOK, NEW c \in Conversations
  PROVE  Offered(c) \in Known
BY DEF Offered, RowsOK, RunsOK, Conversations

-----------------------------------------------------------------------------
(* Health: the flag and the count of errors *)

LEMMA RefreshHealth ==
  ASSUME ConfigOK, HealthOK, RefreshFromConfig
  PROVE  HealthOK'
BY PoolAssumption DEF ConfigOK, HealthOK, UnhealthyByErrors, RefreshFromConfig, Refreshed

LEMMA RecoverHealth ==
  ASSUME ConfigOK, HealthOK, NEW R, Recover(R)
  PROVE  HealthOK'
BY PoolAssumption DEF ConfigOK, HealthOK, UnhealthyByErrors, Recover

LEMMA SuccessHealth ==
  ASSUME HealthOK, NEW p \in Providers, ReportSuccess(p)
  PROVE  HealthOK'
BY PoolAssumption DEF HealthOK, UnhealthyByErrors, ReportSuccess

LEMMA FailureHealth ==
  ASSUME HealthOK, NEW p \in Providers, NEW now, ReportFailure(p, now)
  PROVE  HealthOK'
BY PoolAssumption DEF HealthOK, UnhealthyByErrors, ReportFailure

LEMMA SameHealth ==
  ASSUME HealthOK, UNCHANGED <<unhealthy, errors>>
  PROVE  HealthOK'
BY DEF HealthOK, UnhealthyByErrors

(* Every step is a stutter, a step of a run, or one of administration. *)
LEMMA HealthStep ==
  ASSUME TypesOK, [Next]_vars
  PROVE  HealthOK'
<1>. USE DEF TypesOK
<1>1. ASSUME NEW c \in Conversations, RunStep(c) PROVE HealthOK'
  <2>1. CASE Prepare(c)
    BY <2>1, RefreshHealth, SameHealth DEF Prepare, health
  <2>2. CASE UseOverride(c)
    BY <2>2, SameHealth DEF UseOverride
  <2>3. CASE UseBound(c) \/ UseOnly(c)
    BY <2>3, RefreshHealth DEF UseBound, UseOnly
  <2>4. CASE UsePool(c)
    BY <2>4, RecoverHealth DEF UsePool
  <2>5. CASE Output(c)
    BY <2>5, SameHealth DEF Output, health
  <2>6. CASE NoticeFailure(c)
    <3>1. provider[c] \in Providers
      BY <2>6 DEF NoticeFailure, RunsOK, Running
    <3>. QED
      BY <2>6, <3>1, FailureHealth, SameHealth DEF NoticeFailure
  <2>7. CASE FailureEnds(c) \/ SuccessEnds(c) \/ ErrorEnds(c)
    <3>1. provider[c] \in Providers
      BY <2>7 DEF FailureEnds, SuccessEnds, ErrorEnds, End, RunsOK, Running
    <3>. QED
      BY <2>7, <3>1, FailureHealth, SuccessHealth, SameHealth DEF FailureEnds, SuccessEnds, ErrorEnds
  <2>. QED
    BY <1>1, <2>1, <2>2, <2>3, <2>4, <2>5, <2>6, <2>7 DEF RunStep, Starts
<1>2. CASE Poll
  BY <1>2, RefreshHealth DEF Poll
<1>3. CASE Restart
  BY <1>3, PoolAssumption DEF Restart, HealthOK, UnhealthyByErrors
<1>4. ASSUME NEW p \in Providers, ResetHealth(p) PROVE HealthOK'
  BY <1>4, SuccessHealth DEF ResetHealth
<1>5. ASSUME NEW p \in Providers,
             \/ ToggleProvider(p) \/ DeleteProvider(p) \/ UpdateProtocol(p)
             \/ DeleteSessionsByProviderId(p) \/ \E f \in Chats : SwitchProvider(f, p)
      PROVE  HealthOK'
  BY <1>5, SameHealth DEF ToggleProvider, DeleteProvider, UpdateProtocol, DeleteSessionsByProviderId,
     SwitchProvider, health
<1>6. CASE UNCHANGED vars
  BY <1>6, SameHealth DEF vars, health
<1>. QED
  BY <1>1, <1>2, <1>3, <1>4, <1>5, <1>6 DEF Next, Administer

-----------------------------------------------------------------------------
(* The configuration *)

LEMMA RunKeepsConfig ==
  ASSUME NEW c \in Conversations, RunStep(c)
  PROVE  UNCHANGED <<configured, enabled, edited, dropping, strategy, changes>>
BY DEF RunStep, Prepare, Starts, UseOverride, UseBound, UseOnly, UsePool, Start, Output, NoticeFailure,
   FailureEnds, SuccessEnds, ErrorEnds, End, config

LEMMA ConfigStep ==
  ASSUME TypesOK, [Next]_vars
  PROVE  ConfigOK'
<1>. USE DEF TypesOK, ConfigOK
<1>1. ASSUME NEW c \in Conversations, RunStep(c) PROVE ConfigOK'
  BY <1>1, RunKeepsConfig
<1>2. CASE Poll \/ Restart \/ UNCHANGED vars
  BY <1>2 DEF Poll, Restart, vars, config
<1>3. ASSUME NEW p \in Providers, ToggleProvider(p) PROVE ConfigOK'
  BY <1>3 DEF ToggleProvider
<1>4. ASSUME NEW p \in Providers, DeleteProvider(p) PROVE ConfigOK'
  <2>1. configured \ {p} # {}
    BY <1>4 DEF DeleteProvider
  <2>2. Min(configured \ {p}) \in configured \ {p}
    BY <2>1, MinOfProviders
  <2>. QED
    BY <1>4, <2>2 DEF DeleteProvider
<1>5. ASSUME NEW p \in Providers, UpdateProtocol(p) PROVE ConfigOK'
  BY <1>5 DEF UpdateProtocol
<1>6. ASSUME NEW p \in Providers, DeleteSessionsByProviderId(p) PROVE ConfigOK'
  BY <1>6 DEF DeleteSessionsByProviderId
<1>7. ASSUME NEW p \in Providers, ResetHealth(p) \/ \E f \in Chats : SwitchProvider(f, p) PROVE ConfigOK'
  BY <1>7 DEF ResetHealth, SwitchProvider, config
<1>. QED
  BY <1>1, <1>2, <1>3, <1>4, <1>5, <1>6, <1>7 DEF Next, Administer

-----------------------------------------------------------------------------
(* Turns, overrides and the rows of sessions *)

LEMMA CandidatesOK ==
  ASSUME ConfigOK, NEW R
  PROVE  enabled \ (unhealthy \ R) \in SUBSET Providers
BY DEF ConfigOK

LEMMA RestStep ==
  ASSUME TypesOK, [Next]_vars
  PROVE  RestOK'
<1>. USE DEF TypesOK, RestOK
<1>1. ASSUME NEW c \in Conversations, RunStep(c) PROVE RestOK'
  <2>0. changes' = changes /\ FolderOf(c) \in Chats
    BY <1>1, RunKeepsConfig, FolderType
  <2>1. CASE UsePool(c)
    <3>1. override' = override
      BY <2>1 DEF UsePool
    <3>2. turn' \in Nat
      BY <2>1, NextTurnType, CandidatesOK DEF UsePool, ConfigOK
    <3>. QED
      BY <2>0, <3>1, <3>2
  <2>2. CASE UseOverride(c)
    BY <2>0, <2>2 DEF UseOverride, Known
  <2>3. CASE UseBound(c) \/ UseOnly(c)
    BY <2>0, <2>3 DEF UseBound, UseOnly
  <2>4. CASE Prepare(c) \/ Output(c) \/ NoticeFailure(c)
    BY <2>0, <2>4 DEF Prepare, Output, NoticeFailure
  <2>5. CASE FailureEnds(c) \/ SuccessEnds(c) \/ ErrorEnds(c)
    BY <2>0, <2>5 DEF FailureEnds, SuccessEnds, ErrorEnds, End
  <2>. QED
    BY <1>1, <2>1, <2>2, <2>3, <2>4, <2>5 DEF RunStep, Starts
<1>2. CASE Poll \/ Restart \/ UNCHANGED vars
  BY <1>2 DEF Poll, Restart, Change, Known, vars
<1>3. ASSUME NEW p \in Providers,
             \/ ToggleProvider(p) \/ DeleteProvider(p) \/ UpdateProtocol(p)
             \/ DeleteSessionsByProviderId(p) \/ ResetHealth(p)
      PROVE  RestOK'
  BY <1>3 DEF ToggleProvider, DeleteProvider, UpdateProtocol, DeleteSessionsByProviderId, ResetHealth, Change
<1>4. ASSUME NEW p \in Providers, NEW f \in Chats, SwitchProvider(f, p) PROVE RestOK'
  BY <1>4 DEF SwitchProvider, Change, Known
<1>. QED
  BY <1>1, <1>2, <1>3, <1>4 DEF Next, Administer

LEMMA StartedWith ==
  ASSUME TypesOK, NEW c \in Conversations, Starts(c)
  PROVE  \E p \in Providers : \E counts \in {activeSessions, Refreshed(activeSessions)} :
           Start(c, p, counts) /\ stage[c] = "prepared"
<1>. USE DEF TypesOK
<1>1. CASE UseOverride(c)
  <2>1. override[FolderOf(c)] \in Providers
    BY <1>1, FolderType DEF UseOverride, RestOK, Known
  <2>. QED
    BY <1>1, <2>1 DEF UseOverride
<1>2. CASE UseBound(c)
  <2>1. bound[c] \in Providers
    BY <1>2 DEF UseBound, Sticky, ConfigOK
  <2>. QED
    BY <1>2, <2>1 DEF UseBound
<1>3. CASE UseOnly(c)
  BY <1>3 DEF UseOnly, ConfigOK
<1>4. CASE UsePool(c)
  <2>1. PICK R \in SUBSET (unhealthy \cap enabled) :
          LET candidates == enabled \ (unhealthy \ R) IN
            \/ candidates = {} /\ Start(c, Min(enabled), Refreshed(activeSessions))
            \/ candidates # {} /\ Start(c, Pick(candidates, turn), Refreshed(activeSessions))
    BY <1>4 DEF UsePool
  <2>2. Min(enabled) \in Providers
    BY MinOfProviders DEF ConfigOK
  <2>3. enabled \ (unhealthy \ R) # {} => Pick(enabled \ (unhealthy \ R), turn) \in Providers
    BY PickIsCandidate, CandidatesOK
  <2>4. stage[c] = "prepared"
    BY <1>4 DEF UsePool
  <2>. QED
    BY <2>1, <2>2, <2>3, <2>4
<1>. QED
  BY <1>1, <1>2, <1>3, <1>4 DEF Starts

LEMMA DeleteRowsType ==
  ASSUME RowsOK, NEW C, DeleteRows(C)
  PROVE  bound' \in [Conversations -> Known] /\ saved' \in [Conversations -> Known]
BY DEF RowsOK, DeleteRows, Known

LEMMA SaveType ==
  ASSUME RowsOK, RunsOK, NEW c \in Conversations, Save(c)
  PROVE  saved' \in [Conversations -> Known] /\ cached' \in [Chats -> Known]
BY DEF RowsOK, RunsOK, Save

LEMMA RowsStep ==
  ASSUME TypesOK, [Next]_vars
  PROVE  RowsOK'
<1>. USE DEF TypesOK
<1>1. ASSUME NEW c \in Conversations, RunStep(c) PROVE RowsOK'
  <2>1. CASE Starts(c)
    <3>1. PICK p \in Providers : \E counts : Start(c, p, counts)
      BY <2>1, StartedWith
    <3>. QED
      BY <3>1 DEF Start, RowsOK, Known
  <2>2. CASE Prepare(c)
    BY <2>2 DEF Prepare, rows, RowsOK
  <2>3. CASE Output(c)
    BY <2>3, SaveType DEF Output, RowsOK
  <2>4. CASE NoticeFailure(c)
    BY <2>4 DEF NoticeFailure, RowsOK, Known
  <2>5. CASE FailureEnds(c)
    BY <2>5 DEF FailureEnds, rows, RowsOK
  <2>6. CASE SuccessEnds(c)
    BY <2>6, SaveType DEF SuccessEnds, RowsOK
  <2>7. CASE ErrorEnds(c)
    BY <2>7, DeleteRowsType DEF ErrorEnds, rows, RowsOK, Known
  <2>. QED
    BY <1>1, <2>1, <2>2, <2>3, <2>4, <2>5, <2>6, <2>7 DEF RunStep
<1>2. CASE Poll \/ UNCHANGED vars
  BY <1>2 DEF Poll, vars, rows, RowsOK
<1>3. CASE Restart
  <2>1. PICK ghosts \in SUBSET {f \in Chats : saved[f] # None} :
          /\ DeleteRows(ghosts)
          /\ cached' = [f \in Chats |-> IF f \in ghosts THEN None ELSE saved[f]]
    BY <1>3 DEF Restart
  <2>. QED
    BY <2>1, DeleteRowsType DEF RowsOK, Known, Conversations
<1>4. ASSUME NEW p \in Providers, DeleteSessionsByProviderId(p) PROVE RowsOK'
  BY <1>4, DeleteRowsType DEF DeleteSessionsByProviderId, RowsOK, Known
<1>5. ASSUME NEW p \in Providers,
             \/ ToggleProvider(p) \/ DeleteProvider(p) \/ UpdateProtocol(p) \/ ResetHealth(p)
             \/ \E f \in Chats : SwitchProvider(f, p)
      PROVE  RowsOK'
  BY <1>5 DEF ToggleProvider, DeleteProvider, UpdateProtocol, ResetHealth, SwitchProvider, rows, RowsOK
<1>. QED
  BY <1>1, <1>2, <1>3, <1>4, <1>5 DEF Next, Administer

-----------------------------------------------------------------------------
(* Runs and the sessions they hold *)

LEMMA AdministerKeepsRuns ==
  ASSUME Administer \/ UNCHANGED vars, ~Restart
  PROVE  UNCHANGED runs
BY DEF Administer, Poll, ToggleProvider, DeleteProvider, UpdateProtocol, DeleteSessionsByProviderId,
   ResetHealth, SwitchProvider, vars

LEMMA RunsStep ==
  ASSUME TypesOK, [Next]_vars
  PROVE  RunsOK'
<1>. USE DEF TypesOK
<1>1. ASSUME NEW c \in Conversations, RunStep(c) PROVE RunsOK'
  <2>1. CASE Starts(c)
    <3>1. PICK p \in Providers : \E counts : Start(c, p, counts)
      BY <2>1, StartedWith
    <3>. QED
      BY <3>1, OfferedType DEF Start, RunsOK, Running, Known
  <2>2. CASE Prepare(c)
    <3>1. history' \in [Conversations -> BOOLEAN]
      <4>. DEFINE h == (c \in Agents /\ saved[c] = None) \/ WillClear(c)
      <4>1. h \in BOOLEAN
        BY DEF WillClear
      <4>2. history' = [history EXCEPT ![c] = h]
        BY <2>2 DEF Prepare
      <4>. HIDE DEF h
      <4>. QED
        BY <4>1, <4>2, Zenon DEF RunsOK
    <3>. QED
      BY <2>2, <3>1 DEF Prepare, RunsOK, RowsOK, Running, Known
  <2>3. CASE Output(c)
    BY <2>3 DEF Output, RunsOK, Running, Known
  <2>4. CASE NoticeFailure(c)
    BY <2>4 DEF NoticeFailure, RunsOK, Running, Known
  <2>5. CASE FailureEnds(c) \/ SuccessEnds(c) \/ ErrorEnds(c)
    BY <2>5 DEF FailureEnds, SuccessEnds, ErrorEnds, End, RunsOK, Running, Known
  <2>. QED
    BY <1>1, <2>1, <2>2, <2>3, <2>4, <2>5 DEF RunStep
<1>2. CASE Restart
  BY <1>2 DEF Restart, RunsOK, Running, Known
<1>3. CASE UNCHANGED runs
  BY <1>3 DEF runs, RunsOK, Running
<1>. QED
  BY <1>1, <1>2, <1>3, AdministerKeepsRuns DEF Next

(* The conversations a provider works for *)
Of(p) == {c \in Running : provider[c] = p}

LEMMA OfFinite ==
  ASSUME NEW p
  PROVE  IsFiniteSet(Of(p)) /\ Cardinality(Of(p)) \in Nat
<1>1. IsFiniteSet(Conversations)
  BY FS_Union, PoolAssumption DEF Conversations
<1>2. Of(p) \subseteq Conversations
  BY DEF Of, Running
<1>. QED
  BY <1>1, <1>2, FS_Subset, FS_CardinalityType

LEMMA OvercountMeans ==
  SessionsNotOvercounted <=> \A p \in Providers : activeSessions[p] <= Cardinality(Of(p))
BY DEF SessionsNotOvercounted, Of

LEMMA OvercountMeansNext ==
  SessionsNotOvercounted' <=> \A p \in Providers : activeSessions'[p] <= Cardinality(Of(p)')
BY DEF SessionsNotOvercounted, Of

(* Counts that only fall, and the same runs *)
LEMMA CountsFall ==
  ASSUME CountsOK, UNCHANGED <<stage, provider>>,
         activeSessions' \in [Providers -> Nat],
         \A p \in Providers : activeSessions'[p] <= activeSessions[p]
  PROVE  CountsOK'
<1>1. \A p : Of(p)' = Of(p)
  BY DEF Of, Running
<1>. QED
  BY <1>1, OfFinite, OvercountMeans, OvercountMeansNext DEF CountsOK

LEMMA RefreshedFall ==
  ASSUME CountsOK
  PROVE  /\ Refreshed(activeSessions) \in [Providers -> Nat]
         /\ \A p \in Providers : Refreshed(activeSessions)[p] <= activeSessions[p]
BY DEF CountsOK, Refreshed

LEMMA StartCounts ==
  ASSUME CountsOK, RunsOK, NEW c \in Conversations, NEW p \in Providers, stage[c] = "prepared",
         NEW counts \in [Providers -> Nat], \A q \in Providers : counts[q] <= activeSessions[q],
         Start(c, p, counts)
  PROVE  CountsOK'
<1>1. stage' = [stage EXCEPT ![c] = "running"] /\ provider' = [provider EXCEPT ![c] = p]
  BY DEF Start
<1>2. activeSessions' = [counts EXCEPT ![p] = @ + 1]
  BY DEF Start
<1>3. Of(p)' = Of(p) \cup {c} /\ c \notin Of(p)
  BY <1>1 DEF Of, Running, RunsOK
<1>4. Cardinality(Of(p)') = Cardinality(Of(p)) + 1
  BY <1>3, OfFinite, FS_AddElement
<1>5. \A q \in Providers \ {p} : Of(q)' = Of(q)
  BY <1>1 DEF Of, Running, RunsOK
<1>6. \A q \in Providers : counts[q] <= Cardinality(Of(q))
  BY OvercountMeans, OfFinite DEF CountsOK
<1>7. \A q \in Providers : activeSessions'[q] <= Cardinality(Of(q)')
  BY <1>2, <1>4, <1>5, <1>6, OfFinite
<1>. QED
  BY <1>2, <1>7, OvercountMeansNext DEF CountsOK

LEMMA EndCounts ==
  ASSUME CountsOK, RunsOK, NEW c \in Conversations, End(c)
  PROVE  CountsOK'
<1>0. PICK p \in Providers : p = provider[c]
  BY DEF End, RunsOK, Running
<1>1. stage' = [stage EXCEPT ![c] = "idle"] /\ provider' = [provider EXCEPT ![c] = None]
  BY DEF End
<1>2. c \in Running
  BY DEF End, RunsOK, Running
<1>3. activeSessions' = [activeSessions EXCEPT ![p] = IF @ = 0 THEN 0 ELSE @ - 1]
  BY <1>0 DEF End, ReleaseSession
<1>4. Of(p)' = Of(p) \ {c} /\ c \in Of(p)
  BY <1>0, <1>1, <1>2 DEF Of, Running, RunsOK
<1>5. Cardinality(Of(p)') = Cardinality(Of(p)) - 1
  BY <1>4, OfFinite, FS_RemoveElement
<1>6. \A q \in Providers \ {p} : Of(q)' = Of(q)
  BY <1>0, <1>1 DEF Of, Running, RunsOK
<1>7. Cardinality(Of(p)) # 0
  BY <1>4, OfFinite, FS_EmptySet
<1>8. \A q \in Providers : activeSessions[q] <= Cardinality(Of(q)) /\ activeSessions[q] \in Nat
  BY OvercountMeans DEF CountsOK
<1>9. \A q \in Providers : activeSessions'[q] <= Cardinality(Of(q)')
  BY <1>2, <1>3, <1>5, <1>6, <1>7, <1>8, OfFinite DEF CountsOK
<1>10. activeSessions' \in [Providers -> Nat]
  BY <1>2, <1>3 DEF CountsOK
<1>. QED
  BY <1>9, <1>10, OvercountMeansNext DEF CountsOK

LEMMA CountsStep ==
  ASSUME TypesOK, CountsOK, [Next]_vars
  PROVE  CountsOK'
<1>. USE DEF TypesOK
<1>1. ASSUME NEW c \in Conversations, RunStep(c) PROVE CountsOK'
  <2>1. CASE Prepare(c)
    <3>1. activeSessions' = activeSessions \/ activeSessions' = Refreshed(activeSessions)
      BY <2>1 DEF Prepare, health
    <3>2. stage[c] = "idle" /\ stage' = [stage EXCEPT ![c] = "prepared"] /\ provider' = provider
      BY <2>1 DEF Prepare
    <3>3. \A p : Of(p)' = Of(p)
      BY <3>2 DEF Of, Running, RunsOK
    <3>4. /\ activeSessions' \in [Providers -> Nat]
          /\ \A p \in Providers : activeSessions'[p] <= activeSessions[p]
      BY <3>1, RefreshedFall DEF CountsOK
    <3>. QED
      BY <3>3, <3>4, OfFinite, OvercountMeans, OvercountMeansNext DEF CountsOK
  <2>2. CASE Starts(c)
    <3>1. \E p \in Providers : \E counts \in {activeSessions, Refreshed(activeSessions)} :
             Start(c, p, counts) /\ stage[c] = "prepared"
      BY <2>2, StartedWith
    <3>. QED
      BY <3>1, StartCounts, RefreshedFall DEF CountsOK
  <2>3. CASE Output(c) \/ NoticeFailure(c)
    <3>1. UNCHANGED <<stage, provider, activeSessions>>
      BY <2>3 DEF Output, NoticeFailure, health
    <3>. QED
      BY <3>1, CountsFall DEF CountsOK
  <2>4. CASE FailureEnds(c) \/ SuccessEnds(c) \/ ErrorEnds(c)
    BY <2>4, EndCounts DEF FailureEnds, SuccessEnds, ErrorEnds
  <2>. QED
    BY <1>1, <2>1, <2>2, <2>3, <2>4 DEF RunStep
<1>2. CASE Poll
  BY <1>2, RefreshedFall, CountsFall DEF Poll, runs
<1>3. CASE Restart
  <2>1. activeSessions' = [p \in Providers |-> 0]
    BY <1>3 DEF Restart
  <2>2. \A p : Cardinality(Of(p)') \in Nat
    <3>1. \A p : Of(p)' = {}
      BY <1>3 DEF Restart, Of, Running
    <3>. QED
      BY <3>1, FS_EmptySet
  <2>. QED
    BY <2>1, <2>2, OvercountMeansNext DEF CountsOK
<1>4. ASSUME NEW p \in Providers, ResetHealth(p) PROVE CountsOK'
  <2>1. activeSessions' = [activeSessions EXCEPT ![p] = 0] /\ UNCHANGED <<stage, provider>>
    BY <1>4 DEF ResetHealth, runs
  <2>. QED
    BY <2>1, CountsFall DEF CountsOK
<1>5. ASSUME NEW p \in Providers,
             \/ ToggleProvider(p) \/ DeleteProvider(p) \/ UpdateProtocol(p)
             \/ DeleteSessionsByProviderId(p) \/ \E f \in Chats : SwitchProvider(f, p)
      PROVE  CountsOK'
  <2>1. UNCHANGED <<stage, provider, activeSessions>>
    BY <1>5 DEF ToggleProvider, DeleteProvider, UpdateProtocol, DeleteSessionsByProviderId,
       SwitchProvider, health, runs
  <2>. QED
    BY <2>1, CountsFall DEF CountsOK
<1>6. CASE UNCHANGED vars
  BY <1>6, CountsFall DEF vars, health, runs, CountsOK
<1>. QED
  BY <1>1, <1>2, <1>3, <1>4, <1>5, <1>6 DEF Next, Administer

-----------------------------------------------------------------------------
(* An agent's row, and what its run read from it *)

(* The row's session belongs to the provider the row is bound to, unless that one
   was edited.  A prepared run has read the row's session, which can only have been
   cleared since.  A running one is bound to its provider. *)
Consistent(a) ==
  /\ saved[a] \notin edited \cup {None} => bound[a] = saved[a]
  /\ stage[a] = "prepared" =>
       /\ saved[a] \in {None, input[a]}
       /\ input[a] \notin edited \cup {None} => bound[a] = input[a]
  /\ stage[a] = "running" =>
       /\ provider[a] \notin edited => bound[a] = provider[a]
       /\ input[a] \notin edited \cup {None} => input[a] = provider[a]

AgentsOK == \A a \in Agents : Consistent(a)

LEMMA AgentsAre ==
  ASSUME NEW a \in Agents
  PROVE  a \in Conversations /\ a \notin Chats
BY PoolAssumption DEF Conversations

LEMMA OtherConsistent ==
  ASSUME NEW a, Consistent(a), edited' = edited, bound'[a] = bound[a], saved'[a] = saved[a],
         stage'[a] = stage[a], provider'[a] = provider[a], input'[a] = input[a]
  PROVE  Consistent(a)'
BY DEF Consistent

(* A step of a run changes nothing that belongs to another conversation. *)
LEMMA RunChangesItsOwn ==
  ASSUME TypesOK, NEW c \in Conversations, RunStep(c), NEW a \in Conversations, a # c
  PROVE  /\ bound'[a] = bound[a] /\ saved'[a] = saved[a] /\ stage'[a] = stage[a]
         /\ provider'[a] = provider[a] /\ input'[a] = input[a]
<1>. USE DEF TypesOK, RowsOK, RunsOK
<1>1. CASE Starts(c)
  BY <1>1, StartedWith DEF Start
<1>2. CASE Prepare(c)
  BY <1>2 DEF Prepare, rows
<1>3. CASE Output(c)
  BY <1>3 DEF Output, Save
<1>4. CASE NoticeFailure(c)
  BY <1>4 DEF NoticeFailure
<1>5. CASE FailureEnds(c)
  BY <1>5 DEF FailureEnds, End, rows
<1>6. CASE SuccessEnds(c)
  BY <1>6 DEF SuccessEnds, End, Save
<1>7. CASE ErrorEnds(c)
  BY <1>7 DEF ErrorEnds, End, rows, DeleteRows
<1>. QED
  BY <1>1, <1>2, <1>3, <1>4, <1>5, <1>6, <1>7 DEF RunStep

LEMMA OwnRunConsistent ==
  ASSUME TypesOK, NEW a \in Agents, Consistent(a), RunStep(a)
  PROVE  Consistent(a)'
<1>. USE DEF TypesOK, RowsOK, RunsOK
<1>0. a \in Conversations /\ a \notin Chats /\ edited' = edited
  BY AgentsAre, RunKeepsConfig
<1>1. CASE Starts(a)
  <2>1. PICK p \in Providers : (\E counts : Start(a, p, counts)) /\ stage[a] = "prepared"
    BY <1>0, <1>1, StartedWith
  <2>2. /\ bound'[a] = p /\ provider'[a] = p /\ stage'[a] = "running"
        /\ saved'[a] = (IF Clears(a, p) THEN None ELSE saved[a])
        /\ input'[a] = (IF Clears(a, p) THEN None ELSE input[a])
    BY <1>0, <2>1 DEF Start, Offered
  <2>. QED
    BY <1>0, <2>1, <2>2 DEF Consistent, Clears, Offered
<1>2. CASE Prepare(a)
  BY <1>0, <1>2 DEF Prepare, rows, Consistent
<1>3. CASE Output(a)
  BY <1>0, <1>3 DEF Output, Save, Consistent
<1>4. CASE NoticeFailure(a)
  BY <1>0, <1>4 DEF NoticeFailure, Consistent
<1>5. CASE FailureEnds(a)
  BY <1>0, <1>5 DEF FailureEnds, End, rows, Consistent
<1>6. CASE SuccessEnds(a)
  BY <1>0, <1>6 DEF SuccessEnds, End, Save, Consistent
<1>7. CASE ErrorEnds(a)
  BY <1>0, <1>7 DEF ErrorEnds, End, rows, DeleteRows, Consistent
<1>. QED
  BY <1>1, <1>2, <1>3, <1>4, <1>5, <1>6, <1>7 DEF RunStep

LEMMA AgentsStep ==
  ASSUME TypesOK, AgentsOK, [Next]_vars
  PROVE  AgentsOK'
<1>. SUFFICES ASSUME NEW a \in Agents PROVE Consistent(a)'
  BY DEF AgentsOK
<1>0. Consistent(a) /\ a \in Conversations /\ a \notin Chats
  BY AgentsAre DEF AgentsOK
<1>1. ASSUME NEW c \in Conversations, RunStep(c) PROVE Consistent(a)'
  BY <1>0, <1>1, OwnRunConsistent, RunChangesItsOwn, OtherConsistent, RunKeepsConfig
<1>2. CASE Restart
  BY <1>0, <1>2 DEF TypesOK, RowsOK, Restart, DeleteRows, Consistent
<1>3. ASSUME NEW p \in Providers, UpdateProtocol(p) PROVE Consistent(a)'
  BY <1>0, <1>3 DEF UpdateProtocol, rows, runs, Consistent
<1>4. ASSUME NEW p \in Providers, DeleteSessionsByProviderId(p) PROVE Consistent(a)'
  <2>1. p \in edited /\ edited' = edited
    BY <1>4 DEF DeleteSessionsByProviderId, TypesOK, ConfigOK
  <2>2. IF bound[a] = p THEN bound'[a] = None /\ saved'[a] = None
        ELSE bound'[a] = bound[a] /\ saved'[a] = saved[a]
    BY <1>0, <1>4 DEF DeleteSessionsByProviderId, DeleteRows
  <2>3. UNCHANGED <<stage, provider, input>>
    BY <1>4 DEF DeleteSessionsByProviderId, runs
  <2>. QED
    BY <1>0, <2>1, <2>2, <2>3 DEF Consistent
<1>5. ASSUME NEW p \in Providers,
             \/ ToggleProvider(p) \/ DeleteProvider(p) \/ ResetHealth(p)
             \/ \E f \in Chats : SwitchProvider(f, p)
      PROVE  Consistent(a)'
  BY <1>0, <1>5, OtherConsistent DEF ToggleProvider, DeleteProvider, ResetHealth, SwitchProvider, config,
     rows, runs
<1>6. CASE Poll \/ UNCHANGED vars
  BY <1>0, <1>6, OtherConsistent DEF Poll, vars, config, rows, runs
<1>. QED
  BY <1>1, <1>2, <1>3, <1>4, <1>5, <1>6 DEF Next, Administer

-----------------------------------------------------------------------------
(* The choice of a provider *)

(* No step but a start makes a prepared run a running one. *)
LEMMA OnlyStartsBegin ==
  ASSUME TypesOK, Next, NEW c \in Conversations, Begins(c)
  PROVE  Starts(c)
<1>. USE DEF Begins
<1>1. ASSUME NEW d \in Conversations, RunStep(d) PROVE Starts(c)
  <2>1. d = c
    BY <1>1, RunChangesItsOwn
  <2>2. ~Prepare(c)
    BY DEF Prepare
  <2>3. ~Output(c) /\ ~NoticeFailure(c) /\ ~End(c)
    BY DEF Output, NoticeFailure, End
  <2>. QED
    BY <1>1, <2>1, <2>2, <2>3 DEF RunStep, FailureEnds, SuccessEnds, ErrorEnds
<1>2. ASSUME Administer PROVE FALSE
  <2>1. CASE Restart
    BY <2>1 DEF Restart
  <2>. QED
    BY <1>2, <2>1, AdministerKeepsRuns DEF runs
<1>. QED
  BY <1>1, <1>2 DEF Next

LEMMA PredictionStep ==
  ASSUME TypesOK, Next, NEW c \in Conversations, ClearedAtStart(c)
  PROVE  WillClear(c)
<1>. USE DEF TypesOK
<1>1. Starts(c)
  BY OnlyStartsBegin DEF ClearedAtStart
<1>2. ASSUME NEW p, NEW counts, Start(c, p, counts) PROVE bound[c] \notin {None, p}
  BY <1>2 DEF Start, Clears, ClearedAtStart, RunsOK
<1>3. CASE UseOverride(c)
  BY <1>2, <1>3 DEF UseOverride, WillClear
<1>4. CASE UseBound(c)
  BY <1>2, <1>4 DEF UseBound
<1>5. CASE UseOnly(c)
  BY <1>2, <1>5 DEF UseOnly, WillClear
<1>6. CASE UsePool(c)
  <2>1. bound[c] # None
    BY <1>2, <1>6 DEF UsePool
  <2>. QED
    BY <1>6, <2>1 DEF UsePool, Sticky, WillClear
<1>. QED
  BY <1>1, <1>3, <1>4, <1>5, <1>6 DEF Starts

LEMMA ChoiceStep ==
  ASSUME TypesOK, Next, NEW c \in Conversations, Begins(c), override[FolderOf(c)] = None
  PROVE  /\ provider'[c] \in enabled
         /\ provider'[c] \in unhealthy' => enabled \subseteq unhealthy'
<1>. USE DEF TypesOK
<1>1. Starts(c)
  BY OnlyStartsBegin
<1>2. ASSUME NEW p, NEW counts, Start(c, p, counts) PROVE provider'[c] = p
  BY <1>2 DEF Start, RunsOK
<1>3. CASE UseBound(c)
  BY <1>2, <1>3 DEF UseBound, Sticky, RefreshFromConfig
<1>4. CASE UseOnly(c)
  BY <1>2, <1>4 DEF UseOnly
<1>5. CASE UsePool(c)
  <2>1. PICK R \in SUBSET (unhealthy \cap enabled) :
          LET candidates == enabled \ (unhealthy \ R) IN
            /\ Recover(R)
            /\ \/ candidates = {} /\ Start(c, Min(enabled), Refreshed(activeSessions))
               \/ candidates # {} /\ Start(c, Pick(candidates, turn), Refreshed(activeSessions))
    BY <1>5 DEF UsePool
  <2>2. unhealthy' = (unhealthy \cap enabled) \ R
    BY <2>1 DEF Recover
  <2>3. CASE enabled \ (unhealthy \ R) = {}
    <3>1. provider'[c] = Min(enabled)
      BY <1>2, <2>1, <2>3
    <3>2. Min(enabled) \in enabled
      BY MinOfProviders DEF ConfigOK
    <3>. QED
      BY <2>2, <2>3, <3>1, <3>2
  <2>4. CASE enabled \ (unhealthy \ R) # {}
    <3>1. provider'[c] = Pick(enabled \ (unhealthy \ R), turn)
      BY <1>2, <2>1, <2>4
    <3>2. provider'[c] \in enabled \ (unhealthy \ R)
      BY <2>4, <3>1, PickIsCandidate, CandidatesOK
    <3>. QED
      BY <2>2, <3>2
  <2>. QED
    BY <2>3, <2>4
<1>. QED
  BY <1>1, <1>3, <1>4, <1>5 DEF Starts, UseOverride

-----------------------------------------------------------------------------
(* The theorems *)

PoolInv == TypesOK /\ CountsOK /\ AgentsOK

LEMMA PoolInit == Init => PoolInv
<1>. SUFFICES ASSUME Init PROVE PoolInv
  OBVIOUS
<1>1. ConfigOK
  BY DEF Init, ConfigOK
<1>2. HealthOK
  BY PoolAssumption DEF Init, HealthOK, UnhealthyByErrors
<1>3. RowsOK /\ RestOK
  BY DEF Init, RowsOK, RestOK, Known
<1>4. RunsOK
  BY DEF Init, RunsOK, Running, Known
<1>5. CountsOK
  BY OfFinite, OvercountMeans DEF Init, CountsOK
<1>6. AgentsOK
  BY AgentsAre DEF Init, AgentsOK, Consistent
<1>. QED
  BY <1>1, <1>2, <1>3, <1>4, <1>5, <1>6 DEF PoolInv, TypesOK

LEMMA PoolStep == PoolInv /\ [Next]_vars => PoolInv'
<1>. SUFFICES ASSUME PoolInv, [Next]_vars PROVE PoolInv'
  OBVIOUS
<1>. USE DEF PoolInv
<1>1. TypesOK'
  BY HealthStep, ConfigStep, RestStep, RowsStep, RunsStep DEF TypesOK
<1>2. CountsOK' /\ AgentsOK'
  BY CountsStep, AgentsStep
<1>. QED
  BY <1>1, <1>2

LEMMA PoolHolds == Spec => []PoolInv
BY PoolInit, PoolStep, PTL DEF Spec

(* The types hold: counts are never negative, and the choice and the deletion of
   providers always leave an enabled one. *)
THEOREM TypesHold == Spec => []TypeOK
<1>1. PoolInv => TypeOK
  BY TypeParts DEF PoolInv
<1>. QED
  BY <1>1, PoolHolds, PTL

(* The pool never counts more sessions of a provider than run under it. *)
THEOREM SessionsNotOvercountedHolds == Spec => []SessionsNotOvercounted
<1>1. PoolInv => SessionsNotOvercounted
  BY DEF PoolInv, CountsOK
<1>. QED
  BY <1>1, PoolHolds, PTL

(* A provider is unhealthy exactly when its errors reached the threshold. *)
THEOREM UnhealthyByErrorsHolds == Spec => []UnhealthyByErrors
<1>1. PoolInv => UnhealthyByErrors
  BY DEF PoolInv, TypesOK, HealthOK
<1>. QED
  BY <1>1, PoolHolds, PTL

(* An agent resumes a session only under the provider that made it. *)
THEOREM OwnSessionResumedHolds == Spec => []OwnSessionResumed
<1>1. PoolInv => OwnSessionResumed
  BY DEF PoolInv, AgentsOK, Consistent, OwnSessionResumed, Running
<1>. QED
  BY <1>1, PoolHolds, PTL

(* A session that a start clears is one that the prediction would announce then. *)
THEOREM PredictionSoundHolds == Spec => PredictionSound
<1>1. PoolInv /\ [Next]_vars
        => [\A c \in Conversations : ClearedAtStart(c) => WillClear(c)]_vars
  BY PredictionStep DEF PoolInv
<1>. QED
  BY <1>1, PoolHolds, PTL DEF Spec, PredictionSound

(* The pool gives a run an enabled provider, and a healthy one if there is one. *)
THEOREM AvoidsUnhealthyHolds == Spec => AvoidsUnhealthy
<1>1. PoolInv /\ [Next]_vars
        => [\A c \in Conversations :
              Begins(c) /\ override[FolderOf(c)] = None
                => provider'[c] \in enabled
                   /\ (provider'[c] \in unhealthy' => enabled \subseteq unhealthy')]_vars
  BY ChoiceStep DEF PoolInv
<1>. QED
  BY <1>1, PoolHolds, PTL DEF Spec, AvoidsUnhealthy
=============================================================================
