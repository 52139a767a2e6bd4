-------------------------- MODULE TaskClaimsProofs --------------------------
(***************************************************************************)
(* What TaskClaims keeps for every set of tasks and every bound: types, at *)
(* most one run of a task, nothing marked as running without a run, and no *)
(* occurrence accepted twice.                                              *)
(*                                                                         *)
(* The steps of the model change what the server holds in a few ways only: *)
(* a run is queued, begins, is dropped, reports or finishes, or everything *)
(* is lost in a restart.  A lemma for each says that it keeps the facts    *)
(* about runs; a step of the final induction says which one an action is.  *)
(* A second induction, over the first, follows the occurrences.            *)
(***************************************************************************)
EXTENDS TaskClaims, TLAPS

RunSet == [token : Tokens, task : Tasks, queue : Queues, byHand : BOOLEAN,
           for : Nat, read : Nat, phase : Phases]

(* The parts of TypeOK *)
ScheduleOK ==
  /\ status \in [Tasks -> {"active", "paused", "completed", "deleted"}]
  /\ nextRun \in [Tasks -> Nat] /\ lastOcc \in [Tasks -> Nat]
  /\ time \in [Tasks -> {"none", "future", "due", "overdue"}]
  /\ \A t \in Tasks : nextRun[t] = 0 <=> time[t] = "none"

ClaimOK ==
  /\ claim \in [Tasks -> Tokens \cup {0}]
  /\ lapsed \subseteq {t \in Tasks : claim[t] # 0}

ServerOK ==
  /\ runs \subseteq RunSet /\ runningTaskIds \subseteq Tasks /\ openLogs \subseteq Tokens
  /\ moved \subseteq Tasks

FixedOK ==
  /\ schedule \in [Tasks -> {"cron", "interval", "once"}]
  /\ script \in [Tasks -> BOOLEAN]
  /\ target \in [Tasks -> Queues]
  /\ grace \in BOOLEAN

UsedOK ==
  /\ manual \in 0 .. MaxManual /\ edits \in 0 .. MaxEdits
  /\ slips \in 0 .. MaxSlips /\ crashes \in 0 .. MaxCrashes

AcceptedOK == accepted \subseteq Tasks \X Nat

LEMMA TypeParts ==
  TypeOK <=> ScheduleOK /\ ClaimOK /\ ServerOK /\ FixedOK /\ UsedOK /\ AcceptedOK
BY DEF TypeOK, ScheduleOK, ClaimOK, ServerOK, RunSet, FixedOK, UsedOK, AcceptedOK

LEMMA TypePartsNext ==
  TypeOK' <=> ScheduleOK' /\ ClaimOK' /\ ServerOK' /\ FixedOK' /\ UsedOK' /\ AcceptedOK'
BY DEF TypeOK, ScheduleOK, ClaimOK, ServerOK, RunSet, FixedOK, UsedOK, AcceptedOK

(* No two runs share a token; only agent tasks are queued.  Unless its task was
   moved while it waited, a run that has begun keeps its task in
   runningTaskIds, and one that is queued waits under the task's present jid. *)
TokensDistinct == \A r, s \in runs : r.token = s.token => r = s

QueuedAreAgents == \A r \in runs : r.phase = "queued" => ~script[r.task]

BegunIsKnown ==
  \A r \in runs : r.phase # "queued" => r.task \in runningTaskIds \/ r.task \in moved

QueuedHere ==
  \A r \in runs : r.phase = "queued" => r.queue = target[r.task] \/ r.task \in moved

RunFacts ==
  /\ OneRunPerTask /\ TokensDistinct /\ QueuedAreAgents
  /\ BegunIsKnown /\ QueuedHere /\ RunsAreTracked

RunInv == TypeOK /\ RunFacts

-----------------------------------------------------------------------------
(* The schedule and the claim *)

LEMMA NoNextType ==
  ASSUME ScheduleOK, NEW t \in Tasks, NoNext(t)
  PROVE  ScheduleOK'
BY DEF ScheduleOK, NoNext, SetNext

LEMMA NewNextType ==
  ASSUME ScheduleOK, NEW t \in Tasks, NewNext(t)
  PROVE  ScheduleOK'
BY DEF ScheduleOK, NewNext, SetNext

LEMMA AdvanceType ==
  ASSUME ScheduleOK, NEW t \in Tasks, NEW n \in Nat, AdvanceNext(t, n)
  PROVE  ScheduleOK'
<1>1. CASE NoNext(t)
  BY <1>1, NoNextType
<1>2. CASE NewNext(t)
  BY <1>2, NewNextType
<1>3. CASE UNCHANGED <<nextRun, time, status, lastOcc>>
  BY <1>3 DEF ScheduleOK
<1>. QED
  BY <1>1, <1>2, <1>3 DEF AdvanceNext

LEMMA RestoreType ==
  ASSUME ScheduleOK, NEW t \in Tasks, NEW n \in Nat, RestoreNext(t, n)
  PROVE  ScheduleOK'
<1>1. CASE NoNext(t)
  BY <1>1, NoNextType
<1>2. CASE UNCHANGED <<nextRun, time, status, lastOcc>>
  BY <1>2 DEF ScheduleOK
<1>3. CASE /\ n # 0
           /\ \E clock \in {"future", "due", "overdue"} : SetNext(t, n, clock)
           /\ UNCHANGED <<status, lastOcc>>
  BY <1>3 DEF ScheduleOK, SetNext
<1>. QED
  BY <1>1, <1>2, <1>3 DEF RestoreNext

LEMMA SetClaimType ==
  ASSUME ClaimOK, NEW t \in Tasks, NEW k \in Tokens \cup {0}, SetClaim(t, k)
  PROVE  ClaimOK'
BY DEF ClaimOK, SetClaim

(* A fresh token is one that nothing holds. *)
LEMMA FreshToken ==
  ASSUME Tokens \ InUse # {}
  PROVE  Fresh \in Tokens /\ Fresh \notin InUse
BY DEF Fresh

LEMMA TakeClaimType ==
  ASSUME ClaimOK, NEW t \in Tasks, TakeClaim(t)
  PROVE  ClaimOK'
BY FreshToken, SetClaimType DEF TakeClaim

LEMMA ReleaseType ==
  ASSUME ClaimOK, NEW r \in RunSet, ReleaseClaim(r)
  PROVE  ClaimOK'
<1>1. CASE SetClaim(r.task, 0)
  BY <1>1, SetClaimType DEF RunSet
<1>2. CASE UNCHANGED <<claim, lapsed>>
  BY <1>2 DEF ClaimOK
<1>. QED
  BY <1>1, <1>2 DEF ReleaseClaim

(* The fence: the end of a run moves the schedule and clears the claim, or
   changes nothing. *)
LEMMA CompleteType ==
  ASSUME ScheduleOK, ClaimOK, NEW r \in RunSet, Complete(r)
  PROVE  ScheduleOK' /\ ClaimOK'
<1>1. CASE UNCHANGED row
  BY <1>1 DEF row, ScheduleOK, ClaimOK
<1>2. CASE NextAfter(r) /\ SetClaim(r.task, 0)
  <2>1. r.task \in Tasks /\ r.read \in Nat
    BY DEF RunSet
  <2>2. ClaimOK'
    BY <1>2, <2>1, SetClaimType
  <2>3. ScheduleOK'
    BY <1>2, <2>1, AdvanceType, RestoreType DEF NextAfter
  <2>. QED
    BY <2>2, <2>3
<1>. QED
  BY <1>1, <1>2 DEF Complete

-----------------------------------------------------------------------------
(* Runs *)

LEMMA NewRunType ==
  ASSUME ScheduleOK, FixedOK, NEW t \in Tasks, NEW h \in BOOLEAN, NEW p \in Phases,
         Tokens \ InUse # {}
  PROVE  /\ NewRun(t, h, p) \in RunSet
         /\ NewRun(t, h, p).task = t /\ NewRun(t, h, p).phase = p
         /\ NewRun(t, h, p).queue = target[t]
         /\ NewRun(t, h, p).token = Fresh
         /\ \A s \in runs : s.token # Fresh
BY FreshToken DEF ScheduleOK, FixedOK, NewRun, RunSet, InUse

(* A run begins: one that was queued, or one of a task that has none. *)
LEMMA BeginKeeps ==
  ASSUME RunInv, UNCHANGED <<script, target, moved>>, NEW r \in RunSet, Begin(r),
         \A s \in runs : s.token = r.token => s = r,
         \A s \in runs : s.task = r.task => s = r \/ r.task \in moved
  PROVE  ServerOK' /\ RunFacts'
<1>. DEFINE b == [r EXCEPT !.phase = "working", !.read = nextRun[r.task]]
<1>1. /\ b \in RunSet /\ b.task = r.task /\ b.token = r.token /\ b.phase = "working"
  BY TypeParts DEF RunInv, ScheduleOK, RunSet, Phases
<1>2. runs' = {s \in runs : s.token # r.token} \cup {b}
  BY DEF Begin
<1>3. \A s \in runs' : /\ s = b \/ (s \in runs /\ s.token # b.token)
                       /\ s = b \/ s.task # b.task \/ b.task \in moved
  BY <1>1, <1>2
<1>. HIDE DEF b
<1>4. ServerOK'
  BY <1>1, <1>2, TypeParts DEF RunInv, ServerOK, Begin, RunSet
<1>5. OneRunPerTask'
  BY <1>3 DEF RunInv, RunFacts, OneRunPerTask
<1>6. TokensDistinct'
  BY <1>3 DEF RunInv, RunFacts, TokensDistinct
<1>7. QueuedAreAgents' /\ BegunIsKnown' /\ QueuedHere'
  <2>. SUFFICES ASSUME NEW s \in runs'
       PROVE /\ s.phase = "queued" => ~script[s.task]
             /\ s.phase # "queued" => s.task \in runningTaskIds' \/ s.task \in moved
             /\ s.phase = "queued" => s.queue = target[s.task] \/ s.task \in moved
    BY DEF QueuedAreAgents, BegunIsKnown, QueuedHere
  <2>1. CASE s = b
    BY <2>1, <1>1 DEF Begin
  <2>2. CASE s \in runs
    BY <2>2 DEF Begin, RunInv, RunFacts, QueuedAreAgents, BegunIsKnown, QueuedHere
  <2>. QED
    BY <2>1, <2>2, <1>3
<1>8. RunsAreTracked'
  <2>1. ASSUME NEW k \in openLogs'
        PROVE \E s \in runs' : s.token = k /\ s.phase = "working"
    <3>1. CASE k = r.token
      BY <3>1, <1>1, <1>2
    <3>2. CASE k # r.token
      BY <3>2, <1>2, <2>1 DEF Begin, RunInv, RunFacts, RunsAreTracked
    <3>. QED
      BY <3>1, <3>2
  <2>2. ASSUME NEW t \in runningTaskIds'
        PROVE \E s \in runs' : s.task = t /\ s.phase # "queued"
    <3>1. CASE t = r.task
      BY <3>1, <1>1, <1>2
    <3>2. CASE t # r.task
      <4>1. PICK s \in runs : s.task = t /\ s.phase # "queued"
        BY <3>2, <2>2 DEF Begin, RunInv, RunFacts, RunsAreTracked
      <4>2. s.token # r.token
        BY <4>1, <3>2
      <4>. QED
        BY <4>1, <4>2, <1>2
    <3>. QED
      BY <3>1, <3>2
  <2>. QED
    BY <2>1, <2>2 DEF RunsAreTracked
<1>. QED
  BY <1>4, <1>5, <1>6, <1>7, <1>8 DEF RunFacts

(* A run of an agent task is queued. *)
LEMMA EnqueueKeeps ==
  ASSUME RunInv, UNCHANGED <<script, target, moved>>, NEW r \in RunSet, Enqueue(r),
         r.phase = "queued", r.queue = target[r.task],
         ~script[r.task], r.task \notin runningTaskIds,
         \A s \in runs : s.token # r.token
  PROVE  ServerOK' /\ RunFacts'
<1>1. CASE UNCHANGED <<runs, runningTaskIds, openLogs>>
  BY <1>1, TypeParts DEF RunInv, ServerOK, RunSet, Tokens, RunFacts, OneRunPerTask, TokensDistinct,
                         QueuedAreAgents, BegunIsKnown, QueuedHere, RunsAreTracked
<1>2. CASE ~Queued(r) /\ runs' = runs \cup {r}
  <2>1. \A s \in runs : s.task = r.task => r.task \in moved
    BY <1>2 DEF Queued, RunInv, RunFacts, BegunIsKnown, QueuedHere
  <2>2. ServerOK'
    BY <1>2, TypeParts DEF RunInv, ServerOK, Enqueue, RunSet, Tokens
  <2>3. OneRunPerTask' /\ TokensDistinct'
    BY <1>2, <2>1 DEF RunInv, RunFacts, OneRunPerTask, TokensDistinct
  <2>4. QueuedAreAgents' /\ BegunIsKnown' /\ QueuedHere'
    BY <1>2 DEF RunInv, RunFacts, QueuedAreAgents, BegunIsKnown, QueuedHere, Enqueue
  <2>5. RunsAreTracked'
    BY <1>2 DEF RunInv, RunFacts, RunsAreTracked, Enqueue
  <2>. QED
    BY <2>2, <2>3, <2>4, <2>5 DEF RunFacts
<1>. QED
  BY <1>1, <1>2 DEF Enqueue

(* A run is gone: what is left of moving its task goes with the task's last run,
   so that a task with runs was moved before and after. *)
LEMMA LeavesMoved ==
  ASSUME RunInv, NEW r \in runs, Leaves(r)
  PROVE  /\ runs' \subseteq runs /\ moved' \subseteq moved
         /\ \A s \in runs' : s # r /\ (s.task \in moved' <=> s.task \in moved)
BY DEF Leaves

(* A queued run disappears. *)
LEMMA DropKeeps ==
  ASSUME RunInv, UNCHANGED <<script, target>>, NEW r \in runs, r.phase = "queued",
         Leaves(r), UNCHANGED <<runningTaskIds, openLogs>>
  PROVE  ServerOK' /\ RunFacts'
<1>1. ServerOK'
  BY TypeParts, LeavesMoved DEF RunInv, ServerOK, RunSet, Tokens
<1>2. OneRunPerTask' /\ TokensDistinct'
  BY LeavesMoved DEF RunInv, RunFacts, OneRunPerTask, TokensDistinct
<1>3. QueuedAreAgents' /\ BegunIsKnown' /\ QueuedHere'
  BY LeavesMoved DEF RunInv, RunFacts, QueuedAreAgents, BegunIsKnown, QueuedHere
<1>4. RunsAreTracked'
  BY DEF RunInv, RunFacts, RunsAreTracked, Leaves
<1>. QED
  BY <1>1, <1>2, <1>3, <1>4 DEF RunFacts

(* A run that has begun ends, and takes its task out of runningTaskIds. *)
LEMMA EndKeeps ==
  ASSUME RunInv, UNCHANGED <<script, target>>, NEW r \in runs, r.phase # "queued",
         Leaves(r), runningTaskIds' = IdsAfter(r.task), openLogs' = openLogs \ {r.token}
  PROVE  ServerOK' /\ RunFacts'
<1>1. ServerOK'
  BY TypeParts, LeavesMoved DEF RunInv, ServerOK, RunSet, Tokens, IdsAfter
<1>2. OneRunPerTask' /\ TokensDistinct'
  BY LeavesMoved DEF RunInv, RunFacts, OneRunPerTask, TokensDistinct
<1>3. QueuedAreAgents' /\ QueuedHere'
  BY LeavesMoved DEF RunInv, RunFacts, QueuedAreAgents, QueuedHere
<1>4. BegunIsKnown'
  BY LeavesMoved DEF RunInv, RunFacts, BegunIsKnown, OneRunPerTask, IdsAfter
<1>5. RunsAreTracked'
  BY DEF RunInv, RunFacts, RunsAreTracked, IdsAfter, Leaves
<1>. QED
  BY <1>1, <1>2, <1>3, <1>4, <1>5 DEF RunFacts

(* A run reports its result and goes on. *)
LEMMA ReportKeeps ==
  ASSUME RunInv, NEW r \in runs, Report(r)
  PROVE  ServerOK' /\ RunFacts'
<1>. DEFINE b == [r EXCEPT !.phase = "reported"]
<1>1. r \in RunSet
  BY TypeParts DEF RunInv, ServerOK
<1>2. b \in RunSet /\ b.task = r.task /\ b.token = r.token /\ b.phase = "reported"
  BY <1>1 DEF RunSet, Phases
<1>3. runs' = (runs \ {r}) \cup {b} /\ r.phase = "working"
  BY DEF Report
<1>4. \A s \in runs' : /\ s = b \/ (s \in runs /\ s.token # b.token)
                       /\ s = b \/ s.task # b.task \/ b.task \in moved
  BY <1>2, <1>3 DEF RunInv, RunFacts, OneRunPerTask, TokensDistinct
<1>5. /\ UNCHANGED <<script, target, moved, runningTaskIds>>
      /\ openLogs' = openLogs \ {r.token}
  BY DEF Report, fixed
<1>. HIDE DEF b
<1>6. ServerOK'
  BY <1>2, <1>3, <1>5, TypeParts DEF RunInv, ServerOK, RunSet
<1>7. OneRunPerTask'
  BY <1>4, <1>5 DEF RunInv, RunFacts, OneRunPerTask
<1>8. TokensDistinct'
  BY <1>4 DEF RunInv, RunFacts, TokensDistinct
<1>9. QueuedAreAgents' /\ BegunIsKnown' /\ QueuedHere'
  <2>1. r.task \in runningTaskIds \/ r.task \in moved
    BY <1>3 DEF RunInv, RunFacts, BegunIsKnown
  <2>. SUFFICES ASSUME NEW s \in runs'
       PROVE /\ s.phase = "queued" => ~script[s.task]
             /\ s.phase # "queued" => s.task \in runningTaskIds \/ s.task \in moved
             /\ s.phase = "queued" => s.queue = target[s.task] \/ s.task \in moved
    BY <1>5 DEF QueuedAreAgents, BegunIsKnown, QueuedHere
  <2>2. CASE s = b
    BY <2>1, <2>2, <1>2
  <2>3. CASE s \in runs
    BY <2>3 DEF RunInv, RunFacts, QueuedAreAgents, BegunIsKnown, QueuedHere
  <2>. QED
    BY <2>2, <2>3, <1>4
<1>10. RunsAreTracked'
  BY <1>2, <1>3, <1>5 DEF RunInv, RunFacts, RunsAreTracked
<1>. QED
  BY <1>6, <1>7, <1>8, <1>9, <1>10 DEF RunFacts

(* Everything the process held is lost. *)
LEMMA RestartKeeps ==
  ASSUME RunInv, Restart
  PROVE  ServerOK' /\ RunFacts'
BY DEF Restart, LogsAtStart, ServerOK, RunFacts, OneRunPerTask, TokensDistinct, QueuedAreAgents,
       BegunIsKnown, QueuedHere, RunsAreTracked

(* Nothing that a run is changes; log rows may be deleted. *)
LEMMA RestKeeps ==
  ASSUME RunInv, UNCHANGED <<script, target, runs, runningTaskIds, moved>>,
         openLogs' \subseteq openLogs
  PROVE  ServerOK' /\ RunFacts'
<1>1. ServerOK'
  BY TypeParts DEF RunInv, ServerOK, RunSet, Tokens
<1>2. RunFacts'
  BY DEF RunInv, RunFacts, OneRunPerTask, TokensDistinct, QueuedAreAgents, BegunIsKnown,
         QueuedHere, RunsAreTracked
<1>. QED
  BY <1>1, <1>2

(* A task is moved: if a run of it waits, nothing is said of it any more. *)
LEMMA MoveKeeps ==
  ASSUME RunInv, NEW t \in Tasks, MoveTask(t)
  PROVE  FixedOK' /\ ServerOK' /\ RunFacts'
<1>1. /\ UNCHANGED <<schedule, script, grace, runs, runningTaskIds, openLogs>>
      /\ moved \subseteq moved' /\ moved' \subseteq moved \cup {t}
  BY DEF MoveTask, Edit, fixed, server
<1>2. PICK q \in Queues : target' = [target EXCEPT ![t] = q]
  BY DEF MoveTask
<1>3. FixedOK'
  BY <1>1, <1>2, TypeParts DEF RunInv, FixedOK
<1>4. ServerOK'
  BY <1>1, TypeParts DEF RunInv, ServerOK, RunSet, Tokens
<1>5. QueuedHere'
  <2>. SUFFICES ASSUME NEW r \in runs, r.phase = "queued"
       PROVE r.queue = target'[r.task] \/ r.task \in moved'
    BY <1>1 DEF QueuedHere
  <2>1. CASE r.task = t
    BY <2>1 DEF MoveTask
  <2>2. CASE r.task # t
    BY <2>2, <1>1, <1>2, TypeParts DEF RunInv, RunFacts, QueuedHere, FixedOK, ServerOK, RunSet
  <2>. QED
    BY <2>1, <2>2
<1>6. OneRunPerTask' /\ TokensDistinct' /\ QueuedAreAgents' /\ BegunIsKnown' /\ RunsAreTracked'
  BY <1>1 DEF RunInv, RunFacts, OneRunPerTask, TokensDistinct, QueuedAreAgents, BegunIsKnown,
              RunsAreTracked
<1>. QED
  BY <1>3, <1>4, <1>5, <1>6 DEF RunFacts

-----------------------------------------------------------------------------
(* The induction: one lemma per action that is more than one of the above *)

LEMMA InitInv == Init => RunInv
<1>. SUFFICES ASSUME Init PROVE RunInv
  OBVIOUS
<1>1. TypeOK
  BY ClaimsAssumption DEF Init, TypeOK
<1>2. RunFacts
  BY DEF Init, RunFacts, OneRunPerTask, TokensDistinct, QueuedAreAgents, BegunIsKnown, QueuedHere,
         RunsAreTracked
<1>. QED
  BY <1>1, <1>2 DEF RunInv

(* A claim is followed at once by the beginning of the run, or by its entry
   into the queue. *)
LEMMA ClaimKeeps ==
  ASSUME RunInv, UNCHANGED <<script, target, moved>>, NEW t \in Tasks, NEW h \in BOOLEAN,
         t \notin runningTaskIds, TakeClaim(t),
         \/ script[t] /\ Begin(NewRun(t, h, "working"))
         \/ ~script[t] /\ Enqueue(NewRun(t, h, "queued"))
  PROVE  ServerOK' /\ RunFacts'
<1>1. ScheduleOK /\ FixedOK /\ Tokens \ InUse # {}
  BY TypeParts DEF RunInv, TakeClaim
<1>2. CASE script[t] /\ Begin(NewRun(t, h, "working"))
  <2>. DEFINE r == NewRun(t, h, "working")
  <2>1. r \in RunSet /\ r.task = t /\ \A s \in runs : s.token # r.token
    BY <1>1, NewRunType DEF Phases
  <2>2. \A s \in runs : s.task = t => t \in moved
    BY <1>2 DEF RunInv, RunFacts, QueuedAreAgents, BegunIsKnown
  <2>3. Begin(r)
    BY <1>2
  <2>. HIDE DEF r
  <2>. QED
    BY <2>1, <2>2, <2>3, BeginKeeps
<1>3. CASE ~script[t] /\ Enqueue(NewRun(t, h, "queued"))
  <2>. DEFINE r == NewRun(t, h, "queued")
  <2>1. /\ r \in RunSet /\ r.task = t /\ r.phase = "queued" /\ r.queue = target[t]
        /\ \A s \in runs : s.token # r.token
    BY <1>1, NewRunType DEF Phases
  <2>2. Enqueue(r)
    BY <1>3
  <2>. HIDE DEF r
  <2>. QED
    BY <1>3, <2>1, <2>2, EnqueueKeeps
<1>. QED
  BY <1>2, <1>3

LEMMA ClaimDueInv ==
  ASSUME RunInv, NEW t \in Tasks, ClaimDue(t)
  PROVE  RunInv'
<1>1. FixedOK' /\ UsedOK' /\ AcceptedOK' /\ UNCHANGED <<script, target, moved>>
  BY TypeParts DEF RunInv, ClaimDue, fixed, used, FixedOK, UsedOK, AcceptedOK
<1>2. ScheduleOK' /\ ClaimOK' /\ ServerOK' /\ RunFacts'
  <2>1. CASE /\ TakeClaim(t)
             /\ \/ script[t] /\ Begin(NewRun(t, FALSE, "working"))
                \/ ~script[t] /\ Enqueue(NewRun(t, FALSE, "queued"))
             /\ UNCHANGED <<status, nextRun, time, lastOcc>>
    <3>1. ScheduleOK'
      BY <2>1, TypeParts DEF RunInv, ScheduleOK
    <3>2. ClaimOK'
      BY <2>1, TypeParts, TakeClaimType DEF RunInv
    <3>3. t \notin runningTaskIds
      BY DEF ClaimDue
    <3>4. ServerOK' /\ RunFacts'
      BY <2>1, <1>1, <3>3, ClaimKeeps
    <3>. QED
      BY <3>1, <3>2, <3>4
  <2>2. CASE SetClaim(t, 0) /\ AdvanceNext(t, nextRun[t]) /\ UNCHANGED server
    <3>1. nextRun[t] \in Nat /\ ScheduleOK /\ ClaimOK
      BY TypeParts DEF RunInv, ScheduleOK
    <3>2. ScheduleOK' /\ ClaimOK'
      BY <2>2, <3>1, AdvanceType, SetClaimType
    <3>3. ServerOK' /\ RunFacts'
      BY <2>2, <1>1, RestKeeps DEF server
    <3>. QED
      BY <3>2, <3>3
  <2>. QED
    BY <2>1, <2>2 DEF ClaimDue
<1>. QED
  BY <1>1, <1>2, TypePartsNext DEF RunInv

LEMMA TriggerInv ==
  ASSUME RunInv, NEW t \in Tasks, TriggerTaskNow(t)
  PROVE  RunInv'
<1>1. FixedOK' /\ AcceptedOK' /\ ScheduleOK' /\ UNCHANGED <<script, target, moved>>
  BY TypeParts DEF RunInv, TriggerTaskNow, fixed, FixedOK, AcceptedOK, ScheduleOK
<1>2. UsedOK'
  BY TypeParts, ClaimsAssumption DEF RunInv, TriggerTaskNow, UsedOK
<1>3. ClaimOK'
  BY TypeParts, TakeClaimType DEF RunInv, TriggerTaskNow
<1>4. ServerOK' /\ RunFacts'
  BY <1>1, ClaimKeeps DEF TriggerTaskNow
<1>. QED
  BY <1>1, <1>2, <1>3, <1>4, TypePartsNext DEF RunInv

LEMMA StartRunInv ==
  ASSUME RunInv, NEW r \in runs, StartRun(r)
  PROVE  RunInv'
<1>1. FixedOK' /\ UsedOK' /\ AcceptedOK' /\ UNCHANGED <<script, target>>
  BY TypeParts DEF RunInv, StartRun, fixed, used, FixedOK, UsedOK, AcceptedOK
<1>2. r \in RunSet /\ ScheduleOK /\ ClaimOK
  BY TypeParts DEF RunInv, ServerOK
<1>3. CASE /\ ReleaseClaim(r)
           /\ Leaves(r)
           /\ UNCHANGED <<status, nextRun, time, lastOcc, runningTaskIds, openLogs>>
  <2>1. ScheduleOK'
    BY <1>2, <1>3 DEF ScheduleOK
  <2>2. ClaimOK'
    BY <1>2, <1>3, ReleaseType
  <2>3. r.phase = "queued"
    BY DEF StartRun
  <2>4. ServerOK' /\ RunFacts'
    BY <1>1, <1>3, <2>3, DropKeeps
  <2>. QED
    BY <1>1, <2>1, <2>2, <2>4, TypePartsNext DEF RunInv
<1>4. CASE Begin(r) /\ UNCHANGED <<row, moved>>
  <2>1. ScheduleOK' /\ ClaimOK'
    BY <1>2, <1>4 DEF row, ScheduleOK, ClaimOK
  <2>2. /\ \A s \in runs : s.token = r.token => s = r
        /\ \A s \in runs : s.task = r.task => s = r \/ r.task \in moved
    BY DEF RunInv, RunFacts, OneRunPerTask, TokensDistinct
  <2>3. ServerOK' /\ RunFacts'
    BY <1>1, <1>2, <1>4, <2>2, BeginKeeps
  <2>. QED
    BY <1>1, <2>1, <2>3, TypePartsNext DEF RunInv
<1>. QED
  BY <1>3, <1>4 DEF StartRun

LEMMA RunDeniedInv ==
  ASSUME RunInv, NEW r \in runs, RunDenied(r)
  PROVE  RunInv'
<1>. DEFINE d == [r EXCEPT !.read = nextRun[r.task]]
<1>1. FixedOK' /\ UsedOK' /\ AcceptedOK' /\ UNCHANGED <<script, target>>
  BY TypeParts DEF RunInv, RunDenied, fixed, used, FixedOK, UsedOK, AcceptedOK
<1>2. r \in RunSet /\ ScheduleOK /\ ClaimOK
  BY TypeParts DEF RunInv, ServerOK
<1>3. d \in RunSet
  BY <1>2 DEF ScheduleOK, RunSet
<1>4. Complete(d)
  BY DEF RunDenied
<1>. HIDE DEF d
<1>5. ScheduleOK' /\ ClaimOK'
  BY <1>2, <1>3, <1>4, CompleteType
<1>6. ServerOK' /\ RunFacts'
  BY <1>1, DropKeeps DEF RunDenied
<1>. QED
  BY <1>1, <1>5, <1>6, TypePartsNext DEF RunInv

LEMMA QueueDropsInv ==
  ASSUME RunInv, NEW r \in runs, QueueDrops(r)
  PROVE  RunInv'
<1>1. /\ ScheduleOK' /\ ClaimOK' /\ FixedOK' /\ AcceptedOK'
      /\ UNCHANGED <<script, target>>
  BY TypeParts DEF RunInv, QueueDrops, fixed, row, ScheduleOK, ClaimOK, FixedOK, AcceptedOK
<1>2. UsedOK'
  BY TypeParts, ClaimsAssumption DEF RunInv, QueueDrops, UsedOK
<1>3. ServerOK' /\ RunFacts'
  BY <1>1, DropKeeps DEF QueueDrops
<1>. QED
  BY <1>1, <1>2, <1>3, TypePartsNext DEF RunInv

LEMMA ReportInv ==
  ASSUME RunInv, NEW r \in runs, Report(r)
  PROVE  RunInv'
<1>1. ScheduleOK' /\ ClaimOK' /\ FixedOK' /\ UsedOK' /\ AcceptedOK'
  BY TypeParts DEF RunInv, Report, fixed, row, used, ScheduleOK, ClaimOK, FixedOK, UsedOK, AcceptedOK
<1>. QED
  BY <1>1, ReportKeeps, TypePartsNext DEF RunInv

LEMMA FinishInv ==
  ASSUME RunInv, NEW r \in runs, Finish(r)
  PROVE  RunInv'
<1>1. FixedOK' /\ UsedOK' /\ UNCHANGED <<script, target>>
  BY TypeParts DEF RunInv, Finish, fixed, used, FixedOK, UsedOK
<1>2. r \in RunSet /\ ScheduleOK /\ ClaimOK
  BY TypeParts DEF RunInv, ServerOK
<1>3. AcceptedOK'
  <2>1. <<r.task, r.for>> \in Tasks \X Nat
    BY <1>2 DEF RunSet
  <2>. QED
    BY <2>1, TypeParts DEF RunInv, AcceptedOK, Finish, Accept
<1>4. ScheduleOK' /\ ClaimOK'
  BY <1>2, CompleteType DEF Finish
<1>5. ServerOK' /\ RunFacts'
  BY <1>1, EndKeeps DEF Finish
<1>. QED
  BY <1>1, <1>3, <1>4, <1>5, TypePartsNext DEF RunInv

LEMMA RestartInv ==
  ASSUME RunInv, Restart
  PROVE  RunInv'
<1>1. ScheduleOK' /\ ClaimOK' /\ FixedOK' /\ AcceptedOK'
  BY TypeParts DEF RunInv, Restart, fixed, row, ScheduleOK, ClaimOK, FixedOK, AcceptedOK
<1>2. UsedOK'
  BY TypeParts, ClaimsAssumption DEF RunInv, Restart, UsedOK
<1>. QED
  BY <1>1, <1>2, RestartKeeps, TypePartsNext DEF RunInv

(* The actions that touch no run: those of the row's users, of the clock,
   and the skipping of an old occurrence. *)
RowStep(t) ==
  \/ SkipBackfill(t) \/ SetStatus(t) \/ Reschedule(t) \/ DeleteTask(t)
  \/ BecomesDue(t) \/ BecomesOverdue(t) \/ LeaseExpires(t)

LEMMA RowStepInv ==
  ASSUME RunInv, NEW t \in Tasks, RowStep(t)
  PROVE  RunInv'
<1>1. FixedOK' /\ AcceptedOK' /\ UNCHANGED <<script, target, runs, runningTaskIds, moved>>
  BY TypeParts DEF RunInv, RowStep, SkipBackfill, SetStatus, Reschedule, DeleteTask, Edit,
                   BecomesDue, BecomesOverdue, LeaseExpires, fixed, server, FixedOK, AcceptedOK
<1>2. openLogs' \subseteq openLogs
  BY DEF RowStep, SkipBackfill, SetStatus, Reschedule, DeleteTask, BecomesDue, BecomesOverdue,
         LeaseExpires, server
<1>3. UsedOK'
  BY TypeParts, ClaimsAssumption
  DEF RunInv, UsedOK, RowStep, SkipBackfill, SetStatus, Reschedule, DeleteTask, Edit,
      BecomesDue, BecomesOverdue, LeaseExpires, used
<1>4. ScheduleOK'
  <2>1. ScheduleOK /\ nextRun[t] \in Nat
    BY TypeParts DEF RunInv, ScheduleOK
  <2>2. CASE SkipBackfill(t)
    BY <2>1, <2>2, AdvanceType DEF SkipBackfill
  <2>3. CASE SetStatus(t) \/ DeleteTask(t)
    BY <2>1, <2>3 DEF SetStatus, DeleteTask, ScheduleOK
  <2>4. CASE Reschedule(t)
    BY <2>1, <2>4, NewNextType DEF Reschedule
  <2>5. CASE BecomesDue(t) \/ BecomesOverdue(t)
    BY <2>1, <2>5 DEF BecomesDue, BecomesOverdue, ScheduleOK
  <2>6. CASE LeaseExpires(t)
    BY <2>1, <2>6 DEF LeaseExpires, ScheduleOK
  <2>. QED
    BY <2>2, <2>3, <2>4, <2>5, <2>6 DEF RowStep
<1>5. ClaimOK'
  <2>1. ClaimOK
    BY TypeParts DEF RunInv
  <2>2. CASE DeleteTask(t)
    BY <2>1, <2>2, SetClaimType DEF DeleteTask
  <2>3. CASE LeaseExpires(t)
    BY <2>1, <2>3 DEF LeaseExpires, ClaimOK
  <2>4. CASE UNCHANGED <<claim, lapsed>>
    BY <2>1, <2>4 DEF ClaimOK
  <2>. QED
    BY <2>2, <2>3, <2>4 DEF RowStep, SkipBackfill, SetStatus, Reschedule, BecomesDue, BecomesOverdue
<1>6. ServerOK' /\ RunFacts'
  BY <1>1, <1>2, RestKeeps
<1>. QED
  BY <1>1, <1>3, <1>4, <1>5, <1>6, TypePartsNext DEF RunInv

LEMMA MoveTaskInv ==
  ASSUME RunInv, NEW t \in Tasks, MoveTask(t)
  PROVE  RunInv'
<1>1. ScheduleOK' /\ ClaimOK' /\ AcceptedOK'
  BY TypeParts DEF RunInv, MoveTask, Edit, row, ScheduleOK, ClaimOK, AcceptedOK
<1>2. UsedOK'
  BY TypeParts, ClaimsAssumption DEF RunInv, MoveTask, Edit, UsedOK
<1>. QED
  BY <1>1, <1>2, MoveKeeps, TypePartsNext DEF RunInv

LEMMA NextInv == RunInv /\ [Next]_vars => RunInv'
<1>. SUFFICES ASSUME RunInv, [Next]_vars PROVE RunInv'
  OBVIOUS
<1>1. ASSUME NEW t \in Tasks, TaskStep(t) PROVE RunInv'
  BY <1>1, ClaimDueInv, TriggerInv, MoveTaskInv, RowStepInv DEF TaskStep, RowStep
<1>2. ASSUME NEW r \in runs, RunStep(r) PROVE RunInv'
  BY <1>2, StartRunInv, RunDeniedInv, QueueDropsInv, ReportInv, FinishInv DEF RunStep
<1>3. CASE UNCHANGED vars
  BY <1>3 DEF vars, fixed, row, server, used, RunInv, TypeOK, RunFacts, OneRunPerTask,
              TokensDistinct, QueuedAreAgents, BegunIsKnown, QueuedHere, RunsAreTracked, Tokens
<1>. QED
  BY <1>1, <1>2, <1>3, RestartInv DEF Next

(* Whatever is claimed, dropped, finished, edited or restarted, RunInv holds. *)
THEOREM Invariance == Spec => []RunInv
  BY InitInv, NextInv, PTL DEF Spec

(* The scheduler's state and the task rows keep their types. *)
THEOREM Typing == Spec => []TypeOK
<1>1. RunInv => TypeOK
  BY DEF RunInv
<1>. QED
  BY <1>1, Invariance, PTL

(* A task that is not moved to another jid while its run waits, and whose
   kind is not changed, has at most one run, queued or active, in spite of
   leases that expire, manual triggers and other edits: the scheduler looks
   at runningTaskIds before it claims, and the queue refuses a task that it
   holds under the same jid. *)
THEOREM OneRunAtATime == Spec => []OneRunPerTask
<1>1. RunInv => OneRunPerTask
  BY DEF RunInv, RunFacts
<1>. QED
  BY <1>1, Invariance, PTL

(* No log row says 'running' and no id blocks its task without a run that
   will end it: every way a run ends, and a restart, clears both. *)
THEOREM NothingMarkedInVain == Spec => []RunsAreTracked
<1>1. RunInv => RunsAreTracked
  BY DEF RunInv, RunFacts
<1>. QED
  BY <1>1, Invariance, PTL

-----------------------------------------------------------------------------
(* Occurrences *)

(* What was accepted is past: it is neither the next occurrence nor one that a run
   which holds its claim is for, or would write back.  Of a run that lost its claim
   nothing is asked: its end changes nothing. *)
AcceptedPast == \A t \in Tasks, n \in Nat : <<t, n>> \in accepted => n \in 1 .. lastOcc[t]

NextOpen == \A t \in Tasks : nextRun[t] <= lastOcc[t] /\ <<t, nextRun[t]>> \notin accepted

RunsOpen ==
  \A r \in runs : Holds(r) =>
    \A n \in {r.for, r.read} : n <= lastOcc[r.task] /\ <<r.task, n>> \notin accepted

(* While the occurrence of a scheduled run is still the next one, its time has come:
   the run's end cannot take it for the next firing of a cron task. *)
RunsOfDue ==
  \A r \in runs : Holds(r) /\ ~r.byHand
    => r.for # 0 /\ (nextRun[r.task] = r.for => time[r.task] \in {"due", "overdue"})

OccInv == AcceptedPast /\ NextOpen /\ RunsOpen /\ RunsOfDue

LEMMA InitOcc == Init => OccInv
BY DEF Init, OccInv, AcceptedPast, NextOpen, RunsOpen, RunsOfDue

(* A claim's token is the one it had, none, or one that no run has. *)
LEMMA NobodyGains ==
  ASSUME TypeOK, NEW t \in Tasks, NEW k, SetClaim(t, k), \A s \in runs : s.token # k
  PROVE  \A s \in runs : Holds(s)' => Holds(s)
BY DEF SetClaim, Holds, TypeOK

LEMMA ReleasedBy ==
  ASSUME TypeOK, NEW t \in Tasks, SetClaim(t, 0)
  PROVE  \A s \in runs : Holds(s)' => Holds(s)
<1>1. \A s \in runs : s.token # 0
  BY DEF TypeOK, Tokens
<1> QED BY <1>1, NobodyGains

(* The schedule stays, but for time that passes; runs go, go on, or are claimed. *)
Continued(r) ==
  \E s \in runs : /\ r.task = s.task /\ r.for = s.for /\ r.byHand = s.byHand
                  /\ r.read \in {s.read, nextRun[s.task]}
                  /\ Holds(r)' => Holds(s)

Claimed(r) ==
  /\ r.for = nextRun[r.task] /\ r.read = nextRun[r.task]
  /\ r.byHand \/ time[r.task] \in {"due", "overdue"}

LEMMA RunsOcc ==
  ASSUME RunInv, RunInv', OccInv, UNCHANGED <<nextRun, lastOcc, accepted>>,
         \A t \in Tasks : time[t] \in {"due", "overdue"} => time'[t] \in {"due", "overdue"},
         \A r \in runs' : Continued(r) \/ Claimed(r)
  PROVE  OccInv'
<1>1. AcceptedPast' /\ NextOpen'
  BY DEF OccInv, AcceptedPast, NextOpen
<1>2. ASSUME NEW r \in runs', Holds(r)'
      PROVE  /\ \A n \in {r.for, r.read} : n <= lastOcc[r.task] /\ <<r.task, n>> \notin accepted
             /\ ~r.byHand => /\ r.for # 0
                             /\ nextRun[r.task] = r.for => time'[r.task] \in {"due", "overdue"}
  <2>1. r.task \in Tasks
    BY TypePartsNext DEF RunInv, ServerOK, RunSet
  <2>2. CASE Continued(r)
    <3>1. PICK s \in runs : /\ r.task = s.task /\ r.for = s.for /\ r.byHand = s.byHand
                            /\ r.read \in {s.read, nextRun[s.task]} /\ Holds(s)
      BY <1>2, <2>2 DEF Continued
    <3> QED BY <2>1, <3>1 DEF OccInv, NextOpen, RunsOpen, RunsOfDue
  <2>3. CASE Claimed(r)
    BY <2>1, <2>3 DEF Claimed, OccInv, NextOpen, RunInv, TypeOK
  <2> QED BY <2>2, <2>3
<1>3. RunsOpen' /\ RunsOfDue'
  BY <1>2 DEF RunsOpen, RunsOfDue
<1> QED BY <1>1, <1>3 DEF OccInv

(* Where a task's schedule may move without a run. *)
ScheduleMoves(t) ==
  \/ UNCHANGED <<nextRun, time, lastOcc>>
  \/ /\ \A u \in Tasks \ {t} : nextRun'[u] = nextRun[u] /\ time'[u] = time[u] /\ lastOcc'[u] = lastOcc[u]
     /\ \/ nextRun'[t] = 0 /\ lastOcc'[t] = lastOcc[t]
        \/ nextRun'[t] = lastOcc[t] + 1 /\ lastOcc'[t] = lastOcc[t] + 1

LEMMA AdvanceMoves ==
  ASSUME ScheduleOK, NEW t \in Tasks, NEW n,
         AdvanceNext(t, n) \/ NewNext(t) \/ RestoreNext(t, nextRun[t])
  PROVE  ScheduleMoves(t)
<1>1. CASE NewNext(t)
  BY <1>1 DEF NewNext, SetNext, ScheduleMoves, ScheduleOK
<1>2. CASE NoNext(t)
  BY <1>2 DEF NoNext, SetNext, ScheduleMoves, ScheduleOK
<1>3. CASE UNCHANGED <<nextRun, time, lastOcc>>
  BY <1>3 DEF ScheduleMoves
<1> QED BY <1>1, <1>2, <1>3 DEF AdvanceNext, RestoreNext

(* Moving on is to an occurrence that nothing has been done for. *)
LEMMA MovedOcc ==
  ASSUME RunInv, RunInv', OccInv, NEW t \in Tasks, ScheduleMoves(t), runs' \subseteq runs,
         \A r \in runs' : Holds(r)' => Holds(r),
         UNCHANGED accepted
  PROVE  OccInv'
<1> DEFINE still == UNCHANGED <<nextRun, time, lastOcc>>
<1>1. /\ nextRun \in [Tasks -> Nat] /\ lastOcc \in [Tasks -> Nat]
      /\ runs \subseteq RunSet
  BY TypeParts DEF RunInv, ScheduleOK, ServerOK
<1>2. CASE still
  <2>1. AcceptedPast' /\ NextOpen'
    BY <1>2 DEF OccInv, AcceptedPast, NextOpen
  <2>2. RunsOpen' /\ RunsOfDue'
    BY <1>2 DEF OccInv, RunsOpen, RunsOfDue
  <2> QED BY <2>1, <2>2 DEF OccInv
<1>3. CASE ~still
  <2>1. \A u \in Tasks : lastOcc'[u] \in Nat /\ lastOcc[u] \in Nat /\ lastOcc[u] <= lastOcc'[u]
    BY <1>1, <1>3 DEF ScheduleMoves
  <2>2. AcceptedPast'
    BY <2>1 DEF OccInv, AcceptedPast
  <2>3. \A n \in Nat : <<t, n>> \in accepted => n # 0 /\ n <= lastOcc[t]
    BY <1>1 DEF OccInv, AcceptedPast
  <2>4. NextOpen'
    BY <1>1, <1>3, <2>3 DEF ScheduleMoves, OccInv, NextOpen
  <2>5. RunsOpen'
    <3> SUFFICES ASSUME NEW r \in runs, Holds(r), NEW n \in {r.for, r.read}
                 PROVE  n <= lastOcc'[r.task] /\ <<r.task, n>> \notin accepted
      BY DEF RunsOpen
    <3>1. n \in Nat /\ r.task \in Tasks
      BY <1>1 DEF RunSet
    <3>2. n <= lastOcc[r.task] /\ <<r.task, n>> \notin accepted
      BY DEF OccInv, RunsOpen
    <3>3. lastOcc[r.task] <= lastOcc'[r.task] /\ lastOcc[r.task] \in Nat /\ lastOcc'[r.task] \in Nat
      BY <2>1, <3>1
    <3> QED BY <3>1, <3>2, <3>3
  <2>6. RunsOfDue'
    <3> SUFFICES ASSUME NEW r \in runs, Holds(r), ~r.byHand
                 PROVE  r.for # 0 /\ (nextRun'[r.task] = r.for
                                        => time'[r.task] \in {"due", "overdue"})
      BY DEF RunsOfDue
    <3>1. r.for \in Nat /\ r.task \in Tasks /\ r.for # 0 /\ r.for <= lastOcc[r.task]
      BY <1>1 DEF RunSet, OccInv, RunsOfDue, RunsOpen
    <3>2. CASE r.task # t
      BY <1>3, <3>1, <3>2 DEF ScheduleMoves, OccInv, RunsOfDue
    <3>3. CASE r.task = t
      BY <1>1, <1>3, <3>1, <3>3 DEF ScheduleMoves
    <3> QED BY <3>1, <3>2, <3>3
  <2> QED BY <2>2, <2>4, <2>5, <2>6 DEF OccInv
<1> QED BY <1>2, <1>3

(* The end of a run that holds its claim leaves nobody with a claim on the task. *)
LEMMA NobodyHolds ==
  ASSUME TypeOK, NEW r \in RunSet, SetClaim(r.task, 0)
  PROVE  \A s \in runs : Holds(s)' => Holds(s) /\ s.task # r.task
BY DEF TypeOK, RunSet, SetClaim, Holds, Tokens

(* A run that holds its claim ends: what it has accepted, or written back, is not
   what comes next. *)
LEMMA FinishOcc ==
  ASSUME RunInv, RunInv', OccInv, NEW r \in runs, Finish(r)
  PROVE  OccInv'
<1> DEFINE t == r.task
<1>1. /\ nextRun \in [Tasks -> Nat] /\ lastOcc \in [Tasks -> Nat]
      /\ runs \subseteq RunSet /\ ScheduleOK
      /\ t \in Tasks /\ r.for \in Nat /\ r.read \in Nat
  BY TypeParts DEF RunInv, ScheduleOK, ServerOK, RunSet
<1>2. runs' \subseteq runs
  BY DEF Finish, Leaves
<1>3. CASE ~Holds(r)
  <2>1. UNCHANGED <<nextRun, time, claim, lastOcc, accepted>>
    BY <1>3 DEF Finish, Complete, Accept, row
  <2>2. ScheduleMoves(t) /\ \A s \in runs' : Holds(s)' => Holds(s)
    BY <2>1 DEF ScheduleMoves, Holds
  <2> QED BY <1>1, <1>2, <2>1, <2>2, MovedOcc
<1>4. ASSUME Holds(r)
      PROVE  \A s \in runs' : Holds(s)' => Holds(s) /\ s.task # t
  <2>1. SetClaim(t, 0)
    BY <1>4 DEF Finish, Complete
  <2> QED BY <1>1, <1>2, <2>1, NobodyHolds DEF RunInv
<1>5. CASE Holds(r) /\ r.byHand
  <2>1. UNCHANGED accepted /\ RestoreNext(t, r.read)
    BY <1>5 DEF Finish, Complete, Accept, NextAfter
  <2>2. CASE NoNext(t) \/ UNCHANGED <<nextRun, time, status, lastOcc>>
    <3>1. ScheduleMoves(t)
      BY <1>1, <2>2 DEF NoNext, SetNext, ScheduleMoves, ScheduleOK
    <3> QED BY <1>1, <1>2, <1>4, <1>5, <2>1, <3>1, MovedOcc
  <2>3. CASE (\E clock \in {"future", "due", "overdue"} : SetNext(t, r.read, clock))
             /\ UNCHANGED lastOcc
    <3>1. /\ nextRun'[t] = r.read
          /\ \A u \in Tasks \ {t} : nextRun'[u] = nextRun[u] /\ time'[u] = time[u]
      BY <1>1, <2>3 DEF SetNext, ScheduleOK
    <3>2. r.read <= lastOcc[t] /\ <<t, r.read>> \notin accepted
      BY <1>5 DEF OccInv, RunsOpen
    <3>3. NextOpen'
      BY <2>1, <2>3, <3>1, <3>2 DEF OccInv, NextOpen
    <3>4. AcceptedPast' /\ RunsOpen'
      BY <1>2, <1>4, <1>5, <2>1, <2>3 DEF OccInv, AcceptedPast, RunsOpen
    <3>5. RunsOfDue'
      BY <1>1, <1>2, <1>4, <1>5, <3>1 DEF OccInv, RunsOfDue, RunSet
    <3> QED BY <3>3, <3>4, <3>5 DEF OccInv
  <2> QED BY <2>1, <2>2, <2>3 DEF RestoreNext
<1>6. CASE Holds(r) /\ ~r.byHand
  <2>1. accepted' = accepted \cup {<<t, r.for>>} /\ AdvanceNext(t, r.read)
    BY <1>6 DEF Finish, Complete, Accept, NextAfter
  <2>2. r.for # 0 /\ r.for <= lastOcc[t]
    BY <1>6 DEF OccInv, RunsOfDue, RunsOpen
  <2>3. ScheduleMoves(t)
    BY <1>1, <2>1, AdvanceMoves
  <2>4. nextRun'[t] # r.for
    <3>1. CASE nextRun'[t] = 0 \/ nextRun'[t] = lastOcc[t] + 1
      BY <1>1, <2>2, <3>1
    <3>2. CASE time[t] = "future" /\ UNCHANGED nextRun
      BY <1>6, <3>2 DEF OccInv, RunsOfDue
    <3> QED BY <1>1, <2>1, <3>1, <3>2 DEF AdvanceNext, NoNext, NewNext, SetNext
  <2>5. \A u \in Tasks : lastOcc'[u] \in Nat /\ lastOcc[u] <= lastOcc'[u]
    BY <1>1, <2>3 DEF ScheduleMoves
  <2>6. AcceptedPast'
    BY <1>1, <2>1, <2>2, <2>5 DEF OccInv, AcceptedPast
  <2>7. NextOpen'
    <3>1. \A n \in Nat : <<t, n>> \in accepted => n # 0 /\ n <= lastOcc[t]
      BY <1>1 DEF OccInv, AcceptedPast
    <3> QED BY <1>1, <2>1, <2>3, <2>4, <3>1 DEF ScheduleMoves, OccInv, NextOpen
  <2>8. RunsOpen'
    <3> SUFFICES ASSUME NEW s \in runs', Holds(s)', NEW n \in {s.for, s.read}
                 PROVE  n <= lastOcc'[s.task] /\ <<s.task, n>> \notin accepted'
      BY DEF RunsOpen
    <3>1. s \in runs /\ Holds(s) /\ s.task # t /\ s.task \in Tasks /\ n \in Nat
      BY <1>1, <1>2, <1>4, <1>6 DEF RunSet
    <3>2. n <= lastOcc[s.task] /\ <<s.task, n>> \notin accepted
      BY <3>1 DEF OccInv, RunsOpen
    <3> QED BY <1>1, <2>1, <2>5, <3>1, <3>2
  <2>9. RunsOfDue'
    BY <1>1, <1>2, <1>4, <1>6, <2>3 DEF ScheduleMoves, OccInv, RunsOfDue, RunSet
  <2> QED BY <2>6, <2>7, <2>8, <2>9 DEF OccInv
<1> QED BY <1>3, <1>5, <1>6

(* What else a task's step does to its occurrences. *)
LEMMA TaskOcc ==
  ASSUME RunInv, RunInv', OccInv, NEW t \in Tasks, TaskStep(t)
  PROVE  OccInv'
<1>1. ScheduleOK /\ FixedOK /\ runs \subseteq RunSet /\ TypeOK
  BY TypeParts DEF RunInv, ServerOK
<1>2. ASSUME NEW h \in BOOLEAN, NEW p \in {"queued", "working"}, TakeClaim(t),
             h \/ time[t] \in {"due", "overdue"},
             Begin(NewRun(t, h, p)) \/ Enqueue(NewRun(t, h, p)),
             UNCHANGED <<nextRun, time, lastOcc, accepted>>
      PROVE  OccInv'
  <2>1. \A r \in runs : Holds(r)' => Holds(r)
    <3>1. SetClaim(t, Fresh) /\ \A s \in runs : s.token # Fresh
      BY <1>2, FreshToken DEF TakeClaim, InUse
    <3> QED BY <1>1, <3>1, NobodyGains
  <2>2. \A r \in runs' : Continued(r) \/ Claimed(r)
    <3> SUFFICES ASSUME NEW r \in runs', r \notin runs PROVE Claimed(r)
      BY <2>1 DEF Continued
    <3> DEFINE q == NewRun(t, h, p)
    <3>1. r = q \/ r = [q EXCEPT !.phase = "working", !.read = nextRun[q.task]]
      BY <1>2 DEF Begin, Enqueue
    <3>2. /\ q \in RunSet /\ q.task = t /\ q.byHand = h
          /\ q.for = nextRun[t] /\ q.read = nextRun[t]
      <4>1. q \in RunSet
        BY <1>1, <1>2, NewRunType DEF TakeClaim, Phases
      <4> QED BY <4>1 DEF NewRun
    <3> HIDE DEF q
    <3>3. /\ r.task = t /\ r.byHand = h
          /\ r.for = nextRun[t] /\ r.read = nextRun[t]
      BY <3>1, <3>2 DEF RunSet
    <3> QED BY <1>2, <3>3 DEF Claimed
  <2> QED BY <1>2, <2>2, RunsOcc
<1>3. ASSUME UNCHANGED <<runs, accepted>>, ScheduleMoves(t),
             \A r \in runs : Holds(r)' => Holds(r)
      PROVE  OccInv'
  BY <1>3, MovedOcc
<1>4. ASSUME UNCHANGED <<runs, nextRun, lastOcc, accepted>>,
             \A r \in runs : Holds(r)' => Holds(r),
             \A u \in Tasks : time[u] \in {"due", "overdue"} => time'[u] \in {"due", "overdue"}
      PROVE  OccInv'
  <2>1. \A r \in runs' : Continued(r)
    BY <1>4 DEF Continued
  <2> QED BY <1>4, <2>1, RunsOcc
<1>5. CASE SkipBackfill(t) \/ Reschedule(t)
  <2>1. ScheduleMoves(t)
    BY <1>1, <1>5, AdvanceMoves DEF SkipBackfill, Reschedule
  <2>2. \A r \in runs : Holds(r)' => Holds(r)
    BY <1>5 DEF SkipBackfill, Reschedule, Holds
  <2> QED BY <1>3, <1>5, <2>1, <2>2 DEF SkipBackfill, Reschedule, Edit, server
<1>6. CASE ClaimDue(t)
  <2>1. CASE SetClaim(t, 0) /\ AdvanceNext(t, nextRun[t]) /\ UNCHANGED server
    <3>1. ScheduleMoves(t)
      BY <1>1, <2>1, AdvanceMoves
    <3>2. \A r \in runs : Holds(r)' => Holds(r)
      BY <1>1, <2>1, ReleasedBy
    <3> QED BY <1>3, <1>6, <2>1, <3>1, <3>2 DEF ClaimDue, server
  <2>2. CASE /\ TakeClaim(t)
             /\ \/ Begin(NewRun(t, FALSE, "working")) \/ Enqueue(NewRun(t, FALSE, "queued"))
             /\ UNCHANGED <<status, nextRun, time, lastOcc>>
    BY <1>2, <1>6, <2>2 DEF ClaimDue, Due
  <2> QED BY <1>6, <2>1, <2>2 DEF ClaimDue
<1>7. CASE TriggerTaskNow(t)
  BY <1>2, <1>7 DEF TriggerTaskNow
<1>8. CASE MoveTask(t) \/ SetStatus(t) \/ LeaseExpires(t)
  <2>1. \A r \in runs : Holds(r)' => Holds(r)
    BY <1>8 DEF MoveTask, SetStatus, LeaseExpires, Holds, row
  <2> QED BY <1>4, <1>8, <2>1 DEF MoveTask, SetStatus, LeaseExpires, Edit, server, row
<1>9. CASE DeleteTask(t)
  <2>1. \A r \in runs : Holds(r)' => Holds(r)
    BY <1>1, <1>9, ReleasedBy DEF DeleteTask
  <2> QED BY <1>4, <1>9, <2>1 DEF DeleteTask, Edit
<1>10. CASE BecomesDue(t) \/ BecomesOverdue(t)
  <2>1. \A r \in runs : Holds(r)' => Holds(r)
    BY <1>10 DEF BecomesDue, BecomesOverdue, Holds
  <2> QED BY <1>1, <1>4, <1>10, <2>1 DEF BecomesDue, BecomesOverdue, ScheduleOK, server
<1> QED
  BY <1>5, <1>6, <1>7, <1>8, <1>9, <1>10 DEF TaskStep

(* And what a run's step does. *)
LEMMA RunOcc ==
  ASSUME RunInv, RunInv', OccInv, NEW r \in runs, RunStep(r)
  PROVE  OccInv'
<1>1. ScheduleOK /\ r \in RunSet /\ r.task \in Tasks /\ TypeOK
  BY TypeParts DEF RunInv, ServerOK, RunSet
<1>2. CASE StartRun(r) \/ QueueDrops(r) \/ Report(r)
  <2>1. UNCHANGED <<nextRun, time, lastOcc, accepted>>
    BY <1>2 DEF StartRun, QueueDrops, Report, row, used
  <2>2. \A s \in runs : Holds(s)' => Holds(s)
    <3>1. CASE UNCHANGED claim
      BY <3>1 DEF Holds
    <3>2. CASE SetClaim(r.task, 0)
      BY <1>1, <3>2, ReleasedBy
    <3> QED BY <1>2, <3>1, <3>2 DEF StartRun, QueueDrops, Report, ReleaseClaim, row
  <2>3. \A s \in runs : Continued(s)
    BY <2>2 DEF Continued
  <2>4. ASSUME UNCHANGED claim, NEW s \in RunSet, s.task = r.task, s.token = r.token,
               s.for = r.for, s.byHand = r.byHand, s.read \in {r.read, nextRun[r.task]}
        PROVE  Continued(s)
    BY <2>4 DEF Continued, Holds
  <2>5. \A s \in runs' : Continued(s)
    <3>1. CASE Begin(r) /\ UNCHANGED row
      <4> DEFINE b == [r EXCEPT !.phase = "working", !.read = nextRun[r.task]]
      <4>1. /\ b \in RunSet /\ b.task = r.task /\ b.token = r.token /\ b.for = r.for
            /\ b.byHand = r.byHand /\ b.read = nextRun[r.task]
        BY <1>1 DEF ScheduleOK, RunSet, Phases
      <4>2. \A s \in runs' : s \in runs \/ s = b
        BY <3>1 DEF Begin
      <4> HIDE DEF b
      <4>3. Continued(b)
        BY <3>1, <4>1, <2>4 DEF row
      <4> QED BY <2>3, <4>2, <4>3
    <3>2. CASE runs' \subseteq runs
      BY <2>3, <3>2
    <3>3. CASE Report(r)
      <4> DEFINE b == [r EXCEPT !.phase = "reported"]
      <4>1. /\ b \in RunSet /\ b.task = r.task /\ b.token = r.token /\ b.for = r.for
            /\ b.byHand = r.byHand /\ b.read = r.read
        BY <1>1 DEF RunSet, Phases
      <4>2. \A s \in runs' : s \in runs \/ s = b
        BY <3>3 DEF Report
      <4> HIDE DEF b
      <4>3. Continued(b)
        BY <3>3, <4>1, <2>4 DEF Report, row
      <4> QED BY <2>3, <4>2, <4>3
    <3> QED BY <1>2, <3>1, <3>2, <3>3 DEF StartRun, QueueDrops, Leaves
  <2> QED BY <2>1, <2>5, RunsOcc
<1>3. CASE RunDenied(r)
  <2> DEFINE d == [r EXCEPT !.read = nextRun[r.task]]
  <2>1. runs' \subseteq runs /\ UNCHANGED accepted
    BY <1>3 DEF RunDenied, Leaves
  <2>2. d.task = r.task /\ d.read = nextRun[r.task] /\ Complete(d)
    BY <1>1, <1>3 DEF RunDenied, RunSet
  <2> HIDE DEF d
  <2>3. CASE UNCHANGED row
    <3>1. ScheduleMoves(r.task) /\ \A s \in runs : Holds(s)' => Holds(s)
      BY <2>3 DEF row, ScheduleMoves, Holds
    <3> QED BY <1>1, <2>1, <3>1, MovedOcc
  <2>4. CASE NextAfter(d) /\ SetClaim(d.task, 0)
    <3>1. ScheduleMoves(r.task)
      BY <1>1, <2>2, <2>4, AdvanceMoves DEF NextAfter
    <3>2. \A s \in runs : Holds(s)' => Holds(s)
      BY <1>1, <2>2, <2>4, ReleasedBy
    <3> QED BY <1>1, <2>1, <3>1, <3>2, MovedOcc
  <2> QED BY <2>2, <2>3, <2>4 DEF Complete
<1> QED
  BY <1>2, <1>3, FinishOcc DEF RunStep

LEMMA RestartOcc ==
  ASSUME RunInv, RunInv', OccInv, Restart
  PROVE  OccInv'
<1>1. runs' = {} /\ UNCHANGED <<nextRun, time, lastOcc, accepted>>
  BY DEF Restart, row
<1> QED BY <1>1, RunsOcc

LEMMA OccInvHolds == Spec => []OccInv
<1>1. RunInv /\ RunInv' /\ OccInv /\ [Next]_vars => OccInv'
  <2> SUFFICES ASSUME RunInv, RunInv', OccInv, [Next]_vars PROVE OccInv'
    OBVIOUS
  <2>1. CASE UNCHANGED vars
    BY <2>1 DEF vars, row, server, Holds, OccInv, AcceptedPast, NextOpen, RunsOpen, RunsOfDue
  <2> QED BY <2>1, TaskOcc, RunOcc, RestartOcc DEF Next
<1> QED BY <1>1, InitOcc, Invariance, PTL DEF Spec

(* An occurrence is accepted once, and of tasks that are moved and have several runs
   too: a scheduled run is claimed for the next occurrence, which nothing has been
   accepted for, and while its token is the one in the row no other run's end can
   move the schedule or be accepted. *)
THEOREM OccurrencesAcceptedOnce == Spec => AcceptedOnce
<1>1. OccInv => [\A r \in runs : Finish(r) /\ Holds(r) /\ ~r.byHand
                                   => <<r.task, r.for>> \notin accepted]_vars
  BY DEF OccInv, RunsOpen
<1> QED BY <1>1, OccInvHolds, PTL DEF AcceptedOnce

=============================================================================
