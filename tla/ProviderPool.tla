---------------------------- MODULE ProviderPool ----------------------------
(***************************************************************************)
(* The pool of model providers (src/src/provider-pool.ts) and the use that *)
(* runs make of it: the prediction that a switch of provider will clear    *)
(* the conversation's session, the choice of a provider                    *)
(* (src/src/container-runner.ts), and the session ids that runs leave in   *)
(* the table sessions (src/src/db.ts) and in the map sessions              *)
(* (src/src/index.ts).                                                     *)
(*                                                                         *)
(* A conversation is a chat or an agent of a chat's folder.  A session is  *)
(* known by the provider it was made under, which is all that matters when *)
(* it is resumed: another provider rejects its thinking blocks.            *)
(***************************************************************************)
EXTENDS Integers, FiniteSets, FiniteSetsExt, Functions

CONSTANTS
  NumProviders,  \* providers 1..NumProviders, in the order of the configuration
  Weight,        \* weight of each provider
  Threshold,     \* unhealthyThreshold
  Chats, Agents,
  Owner,         \* per agent: the chat whose folder it works in
  None,
  MaxChanges,    \* bound on changes by an administrator and restarts
  MaxTurns       \* bound on roundRobinIndex under weighted-round-robin

Providers == 1..NumProviders

ASSUME PoolAssumption ==
  /\ NumProviders \in Nat \ {0} /\ Threshold \in Nat \ {0}
  /\ Weight \in [Providers -> Nat \ {0}]
  /\ Chats \cap Agents = {} /\ Owner \in [Agents -> Chats]
  /\ IsFiniteSet(Chats) /\ IsFiniteSet(Agents)
  /\ None \notin Providers
  /\ MaxChanges \in Nat /\ MaxTurns \in Nat

Conversations == Chats \cup Agents
FolderOf(c) == IF c \in Agents THEN Owner[c] ELSE c
Strategies == {"round-robin", "weighted-round-robin", "failover"}

VARIABLES
  configured, enabled,  \* providers of the configuration, and those enabled
  edited,      \* providers whose protocol fields were changed
  dropping,    \* edited providers whose sessions are yet to be deleted
  strategy,
  unhealthy, errors, activeSessions, \* health, consecutiveErrors, activeSessionCount
  turn,        \* roundRobinIndex
  override,    \* per folder: one-time provider override
  bound,       \* per conversation: provider_id of its row in sessions
  saved,       \* per conversation: the session of its row
  cached,      \* per chat: the session in the map sessions
  stage,       \* per conversation: "idle", "prepared" or "running"
  provider,    \* per running conversation: its provider
  input,       \* per conversation: the session its run resumes, until it has an output
  history,     \* per prepared conversation: its prompt carries recent history
  failed,      \* per running conversation: a provider failure was noticed
  changes      \* changes made so far

config == <<configured, enabled, edited, dropping, strategy>>
health == <<unhealthy, errors, activeSessions>>
rows == <<bound, saved, cached>>
runs == <<stage, provider, input, history, failed>>
vars == <<config, health, turn, override, rows, runs, changes>>

Known == Providers \cup {None}

TypeOK ==
  /\ configured \in SUBSET Providers
  /\ enabled \in SUBSET configured /\ enabled # {}
  /\ edited \in SUBSET Providers /\ dropping \in SUBSET edited
  /\ strategy \in Strategies
  /\ unhealthy \in SUBSET Providers
  /\ errors \in [Providers -> 0..Threshold]
  /\ activeSessions \in [Providers -> Nat]
  /\ turn \in Nat
  /\ override \in [Chats -> Known]
  /\ bound \in [Conversations -> Known]
  /\ saved \in [Conversations -> Known]
  /\ cached \in [Chats -> Known]
  /\ stage \in [Conversations -> {"idle", "prepared", "running"}]
  /\ provider \in [Conversations -> Known]
  /\ input \in [Conversations -> Known]
  /\ history \in [Conversations -> BOOLEAN]
  /\ failed \in [Conversations -> BOOLEAN]
  /\ changes \in Nat

Init ==
  /\ configured = Providers
  /\ enabled \in (SUBSET Providers) \ {{}}
  /\ edited = {} /\ dropping = {}
  /\ strategy \in Strategies
  /\ unhealthy = {} /\ errors = [p \in Providers |-> 0]
  /\ activeSessions = [p \in Providers |-> 0]
  /\ turn = 0
  /\ override = [f \in Chats |-> None]
  /\ bound = [c \in Conversations |-> None]
  /\ saved = [c \in Conversations |-> None]
  /\ cached = [f \in Chats |-> None]
  /\ stage = [c \in Conversations |-> "idle"]
  /\ provider = [c \in Conversations |-> None]
  /\ input = [c \in Conversations |-> None]
  /\ history = [c \in Conversations |-> FALSE]
  /\ failed = [c \in Conversations |-> FALSE]
  /\ changes = 0

-----------------------------------------------------------------------------
(* The pool *)

(* refreshFromConfig: the enabled providers become the members, the health of all
   others is forgotten. *)
Refreshed(f) == [p \in Providers |-> IF p \in enabled THEN f[p] ELSE 0]

RefreshFromConfig ==
  /\ unhealthy' = unhealthy \cap enabled
  /\ errors' = Refreshed(errors)

(* The turns of a cycle over the candidates S: one for each, or as many as its weight. *)
Cycle(S) == UNION {{p} \X (1..Weight[p]) : p \in S}

Share(S) ==
  IF strategy = "weighted-round-robin" THEN Cardinality(Cycle(S)) ELSE Cardinality(S)

(* Mutant: a candidate also gets the turn that follows its share. *)
PickLate(S, i) ==
  LET due == {p \in S : i % Share(S) <= Share({q \in S : q <= p})}
  IN IF strategy = "failover" \/ due = {} THEN Min(S) ELSE Min(due)

(* selectProvider's choice among the candidates at index i. *)
Pick(S, i) ==
  LET due == {p \in S : i % Share(S) < Share({q \in S : q <= p})}
  IN IF strategy = "failover" \/ due = {} THEN Min(S) ELSE Min(due)

NextTurn(S, i) ==
  CASE strategy = "round-robin" -> (i % Cardinality(S)) + 1
    [] strategy = "weighted-round-robin" -> i + 1
    [] strategy = "failover" -> i

ReportSuccess(p) ==
  /\ unhealthy' = unhealthy \ {p}
  /\ errors' = [errors EXCEPT ![p] = 0]

(* reportFailure; consecutiveErrors is counted up to the threshold. *)
ReportFailure(p, immediate) ==
  LET n == IF immediate \/ errors[p] = Threshold THEN Threshold ELSE errors[p] + 1
  IN /\ errors' = [errors EXCEPT ![p] = n]
     /\ unhealthy' = IF n = Threshold THEN unhealthy \cup {p} ELSE unhealthy

(* Mutant: the count of sessions may become negative. *)
ReleaseSessionRaw(p) == activeSessions' = [activeSessions EXCEPT ![p] = @ - 1]

ReleaseSession(p) ==
  activeSessions' = [activeSessions EXCEPT ![p] = IF @ = 0 THEN 0 ELSE @ - 1]

-----------------------------------------------------------------------------
(* A run is prepared: its prompt is built before its provider is chosen *)

(* Mutant: a single enabled provider is taken for the bound one. *)
WillClearUnlessSingle(c) ==
  LET chosen == override[FolderOf(c)]
  IN /\ bound[c] # None
     /\ IF chosen # None THEN chosen # bound[c]
        ELSE Cardinality(enabled) > 1 /\ (bound[c] \notin enabled \/ bound[c] \in unhealthy)

(* willClearSessionOnProviderSwitch *)
WillClear(c) ==
  LET chosen == override[FolderOf(c)]
  IN /\ bound[c] # None
     /\ IF chosen # None THEN chosen # bound[c]
        ELSE \/ bound[c] \notin enabled
             \/ Cardinality(enabled) > 1 /\ bound[c] \in unhealthy

(* The prediction refreshes the pool when it comes to ask for the provider's health.
   An agent reads its session now, and without one needs no prediction; a chat's is
   read when its run starts. *)
Prepare(c) ==
  /\ stage[c] = "idle"
  /\ stage' = [stage EXCEPT ![c] = "prepared"]
  /\ LET fresh == c \in Agents /\ saved[c] = None IN
     /\ history' = [history EXCEPT ![c] = fresh \/ WillClear(c)]
     /\ IF ~fresh /\ override[FolderOf(c)] = None /\ bound[c] \in enabled /\ Cardinality(enabled) > 1
        THEN RefreshFromConfig /\ activeSessions' = Refreshed(activeSessions)
        ELSE UNCHANGED health
  /\ input' = [input EXCEPT ![c] = IF c \in Agents THEN saved[c] ELSE None]
  /\ UNCHANGED <<config, turn, override, rows, provider, failed, changes>>

-----------------------------------------------------------------------------
(* trySelectPoolProvider: a run starts *)

(* The session a run is to resume. *)
Offered(c) == IF c \in Agents THEN input[c] ELSE cached[c]

(* Mutant: an override does not reset the session. *)
ClearsUnlessOverride(c, p) ==
  override[FolderOf(c)] = None /\ bound[c] \notin {None, p} /\ Offered(c) # None

(* resetSession, for a run with a session to resume *)
Clears(c, p) == bound[c] \notin {None, p} /\ Offered(c) # None

(* Run c starts under provider p: acquireSession on the counts given, the binding,
   and in runContainerAgent the reset of a session of another provider.  The reset
   clears the row, not the cached id. *)
Start(c, p, counts) ==
  /\ activeSessions' = [counts EXCEPT ![p] = @ + 1]
  /\ bound' = [bound EXCEPT ![c] = p]
  /\ saved' = [saved EXCEPT ![c] = IF Clears(c, p) THEN None ELSE @]
  /\ input' = [input EXCEPT ![c] = IF Clears(c, p) THEN None ELSE Offered(c)]
  /\ stage' = [stage EXCEPT ![c] = "running"]
  /\ provider' = [provider EXCEPT ![c] = p]
  /\ history' = [history EXCEPT ![c] = FALSE]
  /\ UNCHANGED <<config, cached, failed, changes>>

(* The one-time override of the folder is consumed by its first run. *)
UseOverride(c) ==
  /\ stage[c] = "prepared" /\ override[FolderOf(c)] # None
  /\ override' = [override EXCEPT ![FolderOf(c)] = None]
  /\ Start(c, override[FolderOf(c)], activeSessions)
  /\ UNCHANGED <<unhealthy, errors, turn>>

(* Mutant: the binding is kept though its provider is unhealthy. *)
StickyAnyway(c) == Cardinality(enabled) > 1 /\ bound[c] \in enabled

(* A bound provider that is enabled and healthy is used again. *)
Sticky(c) == Cardinality(enabled) > 1 /\ bound[c] \in enabled \ unhealthy

UseBound(c) ==
  /\ stage[c] = "prepared" /\ override[FolderOf(c)] = None /\ Sticky(c)
  /\ RefreshFromConfig
  /\ Start(c, bound[c], Refreshed(activeSessions))
  /\ UNCHANGED <<turn, override>>

UseOnly(c) ==
  /\ stage[c] = "prepared" /\ override[FolderOf(c)] = None
  /\ \E p \in enabled : enabled = {p} /\ Start(c, p, Refreshed(activeSessions))
  /\ RefreshFromConfig
  /\ UNCHANGED <<turn, override>>

(* Mutant: recovery leaves consecutiveErrors as it is. *)
RecoverHealthOnly(recovered) ==
  /\ unhealthy' = (unhealthy \cap enabled) \ recovered
  /\ errors' = Refreshed(errors)

(* Providers unhealthy for recoveryIntervalMs become healthy again. *)
Recover(recovered) ==
  /\ unhealthy' = (unhealthy \cap enabled) \ recovered
  /\ errors' = [p \in Providers |-> IF p \in enabled \ recovered THEN errors[p] ELSE 0]

(* selectProvider: the next of the healthy providers; the first one, out of turn,
   when none is. *)
UsePool(c) ==
  /\ stage[c] = "prepared" /\ override[FolderOf(c)] = None
  /\ Cardinality(enabled) > 1 /\ ~Sticky(c)
  /\ \E recovered \in SUBSET (unhealthy \cap enabled) :
       LET candidates == enabled \ (unhealthy \ recovered) IN
       /\ Recover(recovered)
       /\ \/ /\ candidates = {}
             /\ Start(c, Min(enabled), Refreshed(activeSessions))
             /\ turn' = turn
          \/ /\ candidates # {}
             /\ strategy = "weighted-round-robin" => turn < MaxTurns
             /\ Start(c, Pick(candidates, turn), Refreshed(activeSessions))
             /\ turn' = NextTurn(candidates, turn)
  /\ UNCHANGED override

-----------------------------------------------------------------------------
(* A run *)

(* An output names the run's session, which is saved: also the last one, which the
   agent writes when it is stopped. *)
Save(c) ==
  /\ saved' = [saved EXCEPT ![c] = provider[c]]
  /\ cached' = IF c \in Chats THEN [cached EXCEPT ![c] = provider[c]] ELSE cached

Output(c) ==
  /\ stage[c] = "running"
  /\ Save(c)
  /\ input' = [input EXCEPT ![c] = None]
  /\ UNCHANGED <<config, health, turn, override, bound, stage, provider, history, failed, changes>>

(* A streamed result is a provider's quota notice: an agent's session is cleared, the
   provider reported once per run, and the run told to stop. *)
NoticeFailure(c) ==
  /\ stage[c] = "running"
  /\ saved' = IF c \in Agents THEN [saved EXCEPT ![c] = None] ELSE saved
  /\ IF failed[c] THEN UNCHANGED <<unhealthy, errors>> ELSE ReportFailure(provider[c], TRUE)
  /\ failed' = [failed EXCEPT ![c] = TRUE]
  /\ input' = [input EXCEPT ![c] = None]
  /\ UNCHANGED <<config, activeSessions, turn, override, bound, cached, stage, provider, history,
                 changes>>

(* The finally of runContainerAgent *)
End(c) ==
  /\ stage[c] = "running"
  /\ ReleaseSession(provider[c])
  /\ stage' = [stage EXCEPT ![c] = "idle"]
  /\ provider' = [provider EXCEPT ![c] = None]
  /\ input' = [input EXCEPT ![c] = None]
  /\ failed' = [failed EXCEPT ![c] = FALSE]
  /\ UNCHANGED <<config, turn, override, history, changes>>

(* The run exits normally after its provider's failure. *)
FailureEnds(c) == failed[c] /\ End(c) /\ UNCHANGED <<unhealthy, errors, rows>>

(* A run that is interrupted, or killed once it has answered, is a success as well:
   even when it was killed for its provider's failure. *)
SuccessEnds(c) ==
  /\ End(c)
  /\ ReportSuccess(provider[c])
  /\ Save(c) \/ UNCHANGED <<saved, cached>>
  /\ UNCHANGED bound

(* The row of a conversation is deleted, with a chat's cached session. *)
DeleteRows(C) ==
  /\ bound' = [c \in Conversations |-> IF c \in C THEN None ELSE bound[c]]
  /\ saved' = [c \in Conversations |-> IF c \in C THEN None ELSE saved[c]]

(* Mutant: a run that ends with an error keeps its session in the count. *)
ErrorEndsHolding(c) ==
  /\ stage[c] = "running"
  /\ stage' = [stage EXCEPT ![c] = "idle"]
  /\ provider' = [provider EXCEPT ![c] = None]
  /\ UNCHANGED <<config, health, turn, override, rows, input, history, failed, changes>>

(* The run ends with an error: of the API, or not, and of a transcript that cannot
   be resumed, or not. *)
ErrorEnds(c) ==
  /\ End(c)
  /\ ReportFailure(provider[c], FALSE) \/ UNCHANGED <<unhealthy, errors>>
  /\ \/ UNCHANGED rows
     \/ DeleteRows({c}) /\ cached' = [f \in Chats |-> IF f = c THEN None ELSE cached[f]]

-----------------------------------------------------------------------------
(* Administration (src/src/routes/config.ts, monitor.ts, runtime-config.ts) *)

Change == changes < MaxChanges /\ changes' = changes + 1

(* The settings page polls the health of the providers. *)
Poll ==
  /\ RefreshFromConfig /\ activeSessions' = Refreshed(activeSessions)
  /\ UNCHANGED <<config, turn, override, rows, runs, changes>>

(* At least one provider stays enabled. *)
ToggleProvider(p) ==
  /\ Change /\ p \in configured /\ enabled # {p}
  /\ enabled' = IF p \in enabled THEN enabled \ {p} ELSE enabled \cup {p}
  /\ UNCHANGED <<configured, edited, dropping, strategy, health, turn, override, rows, runs>>

DeleteProvider(p) ==
  /\ Change /\ p \in configured /\ configured # {p}
  /\ configured' = configured \ {p}
  /\ enabled' = IF enabled = {p} THEN {Min(configured \ {p})} ELSE enabled \ {p}
  /\ UNCHANGED <<edited, dropping, strategy, health, turn, override, rows, runs>>

(* Sessions of a provider whose protocol fields change are deleted when all groups
   have stopped, if the provider is enabled. *)
UpdateProtocol(p) ==
  /\ Change /\ p \in configured
  /\ edited' = edited \cup {p}
  /\ dropping' = IF p \in enabled THEN dropping \cup {p} ELSE dropping
  /\ UNCHANGED <<configured, enabled, strategy, health, turn, override, rows, runs>>

DeleteSessionsByProviderId(p) ==
  /\ p \in dropping
  /\ dropping' = dropping \ {p}
  /\ LET gone == {c \in Conversations : bound[c] = p} IN
     /\ DeleteRows(gone)
     /\ cached' = [f \in Chats |-> IF \E c \in gone : FolderOf(c) = f THEN None ELSE cached[f]]
  /\ UNCHANGED <<configured, enabled, edited, strategy, health, turn, override, runs, changes>>

ResetHealth(p) ==
  /\ Change
  /\ ReportSuccess(p)
  /\ activeSessions' = [activeSessions EXCEPT ![p] = 0]
  /\ UNCHANGED <<config, turn, override, rows, runs>>

SwitchProvider(f, p) ==
  /\ Change /\ p \in enabled
  /\ override' = [override EXCEPT ![f] = p]
  /\ UNCHANGED <<config, health, turn, rows, runs>>

(* The server starts again: its memory is lost, the chats' sessions are read from
   their rows, and a chat with messages unanswered loses its row. *)
Restart ==
  /\ Change
  /\ unhealthy' = {} /\ turn' = 0
  /\ errors' = [p \in Providers |-> 0] /\ activeSessions' = [p \in Providers |-> 0]
  /\ dropping' = {}
  /\ override' = [f \in Chats |-> None]
  /\ \E ghosts \in SUBSET {f \in Chats : saved[f] # None} :
       /\ DeleteRows(ghosts)
       /\ cached' = [f \in Chats |-> IF f \in ghosts THEN None ELSE saved[f]]
  /\ stage' = [c \in Conversations |-> "idle"]
  /\ provider' = [c \in Conversations |-> None]
  /\ input' = [c \in Conversations |-> None]
  /\ history' = [c \in Conversations |-> FALSE]
  /\ failed' = [c \in Conversations |-> FALSE]
  /\ UNCHANGED <<configured, enabled, edited, strategy>>

-----------------------------------------------------------------------------
Starts(c) == UseOverride(c) \/ UseBound(c) \/ UseOnly(c) \/ UsePool(c)

RunStep(c) ==
  \/ Prepare(c) \/ Starts(c) \/ Output(c) \/ NoticeFailure(c)
  \/ FailureEnds(c) \/ SuccessEnds(c) \/ ErrorEnds(c)

Administer ==
  \/ Poll \/ Restart
  \/ \E p \in Providers :
       \/ ToggleProvider(p) \/ DeleteProvider(p) \/ UpdateProtocol(p)
       \/ DeleteSessionsByProviderId(p) \/ ResetHealth(p)
       \/ \E f \in Chats : SwitchProvider(f, p)

Next == (\E c \in Conversations : RunStep(c)) \/ Administer

Spec == Init /\ [][Next]_vars

-----------------------------------------------------------------------------
(* Safety *)

Running == {c \in Conversations : stage[c] = "running"}

(* The pool never believes a provider to have more sessions than it has: every
   acquired session is released whatever became of the run, and the counts that a
   refresh or a reset forgot are not released below zero. *)
SessionsNotOvercounted ==
  \A p \in Providers : activeSessions[p] <= Cardinality({c \in Running : provider[c] = p})

(* A provider is out of the rotation exactly when its consecutive errors reached the
   threshold, whichever of reports, recoveries, resets and refreshes came last. *)
UnhealthyByErrors == \A p \in Providers : p \in unhealthy <=> errors[p] = Threshold

(* An agent's run resumes only a session that was made under the provider the run
   got, unless that session's provider was edited meanwhile: bindings, clears and the
   outputs of stopped runs never leave a row that pairs a session with another
   provider. *)
OwnSessionResumed ==
  \A c \in Agents \cap Running : input[c] \notin edited \cup {None} => input[c] = provider[c]

(* From the turn reached, whatever set of candidates is next, one cycle gives each
   candidate as many runs as its weight, or one. *)
FairTurns ==
  strategy # "failover" =>
    \A S \in (SUBSET enabled) \ {{}} :
      LET index[k \in Nat] == IF k = 0 THEN turn ELSE NextTurn(S, index[k - 1])
      IN \A p \in S : Cardinality({k \in 0..(Share(S) - 1) : Pick(S, index[k]) = p}) = Share({p})

Begins(c) == stage[c] = "prepared" /\ stage'[c] = "running"

ClearedAtStart(c) == Begins(c) /\ Offered(c) # None /\ input'[c] = None

(* "fire exactly when trySelectPoolProvider would set resetSession"
   (src/tests/provider-switch-predictor.test.ts): no start clears a session that a
   prediction made at that moment would not have announced. *)
PredictionSound == [][\A c \in Conversations : ClearedAtStart(c) => WillClear(c)]_vars

(* Without an override a run gets an enabled provider, and a healthy one when there
   is one after the recoveries of that moment. *)
AvoidsUnhealthy ==
  [][\A c \in Conversations :
       Begins(c) /\ override[FolderOf(c)] = None
         => provider'[c] \in enabled /\ (provider'[c] \in unhealthy' => enabled \subseteq unhealthy')]_vars

-----------------------------------------------------------------------------
(* What the repository says and the code does not do *)

(* "Conservative by design: a false positive only injects redundant history
   (harmless), never the reverse." (src/src/container-runner.ts) *)
HistoryWithCleared == [][\A c \in Conversations : ClearedAtStart(c) => history[c]]_vars
=============================================================================
