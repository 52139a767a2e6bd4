----------------------------- MODULE TaskClaims -----------------------------
(***************************************************************************)
(* Scheduled tasks: who runs an occurrence of a task, and what its end     *)
(* does to the schedule.  src/src/task-scheduler.ts with the statements it *)
(* executes on the table scheduled_tasks in src/src/db.ts.                 *)
(*                                                                         *)
(* A run of a task starts with a claim: a token and a lease of six hours   *)
(* in the task's row.  Script tasks then run at once, agent tasks are put  *)
(* into the run queue.  The end of a run moves next_run on and clears the  *)
(* claim, in one statement that takes effect only while the row still has  *)
(* the run's token.  The row survives a restart of the server, claim       *)
(* included; the runs, the queue and runningTaskIds do not.                *)
(*                                                                         *)
(* A value of next_run is an occurrence: a number, 0 for NULL; so is a     *)
(* token.  The clock is abstracted to how it compares with the occurrence, *)
(* and with the end of a claim's lease.                                    *)
(***************************************************************************)
EXTENDS Integers, FiniteSets

CONSTANTS
  Tasks,
  Queues,       \* the jids under which the runs of a task may be queued
  MaxTokens,    \* claims that are told apart at one time
  MaxOcc,       \* no task falls due after this occurrence
  MaxManual,    \* manual triggers
  MaxEdits,     \* changes of tasks by users and agents
  MaxSlips,     \* runs stopped in the queue, leases that a run outlives
  MaxCrashes    \* restarts of the server

ASSUME ClaimsAssumption ==
  /\ MaxTokens \in Nat /\ MaxOcc \in Nat /\ MaxManual \in Nat /\ MaxEdits \in Nat
  /\ MaxSlips \in Nat /\ MaxCrashes \in Nat

VARIABLES
  (* the task's row *)
  schedule,     \* schedule_type
  script,       \* execution_type is 'script', not 'agent'
  status,
  nextRun,      \* next_run
  time,         \* how far the clock is with next_run
  claim,        \* claim_token, 0 for NULL
  lapsed,       \* tasks whose claim's lease has expired
  target,       \* the jid under which its next run would be queued
  (* the server *)
  grace,        \* taskBackfillGraceMs > 0
  runs,         \* calls of runTask and runScriptTask that are queued or active
  runningTaskIds,
  openLogs,     \* tokens whose row in task_run_logs says 'running'
  (* counters and history *)
  lastOcc,      \* what the next new occurrence comes after
  manual, edits, slips, crashes,
  accepted,     \* occurrences of which a scheduled run was accepted
  moved         \* tasks that were moved while a run of theirs was queued, and have one

fixed  == <<schedule, script, grace>>
row    == <<status, nextRun, time, claim, lapsed, lastOcc>>
server == <<runs, runningTaskIds, openLogs>>
used   == <<manual, edits, slips, crashes>>
vars == <<fixed, row, target, server, used, accepted, moved>>

Tokens == 1 .. MaxTokens

Phases == {"queued", "working", "reported"}

TypeOK ==
  /\ schedule \in [Tasks -> {"cron", "interval", "once"}]
  /\ script \in [Tasks -> BOOLEAN]
  /\ status \in [Tasks -> {"active", "paused", "completed", "deleted"}]
  /\ nextRun \in [Tasks -> Nat] /\ lastOcc \in [Tasks -> Nat]
  /\ time \in [Tasks -> {"none", "future", "due", "overdue"}]
  /\ \A t \in Tasks : nextRun[t] = 0 <=> time[t] = "none"
  /\ claim \in [Tasks -> Tokens \cup {0}]
  /\ lapsed \subseteq {t \in Tasks : claim[t] # 0}
  /\ target \in [Tasks -> Queues]
  /\ grace \in BOOLEAN
  /\ runs \subseteq [token : Tokens, task : Tasks, queue : Queues, byHand : BOOLEAN,
                     for : Nat, read : Nat, phase : Phases]
  /\ runningTaskIds \subseteq Tasks
  /\ openLogs \subseteq Tokens
  /\ manual \in 0 .. MaxManual /\ edits \in 0 .. MaxEdits
  /\ slips \in 0 .. MaxSlips /\ crashes \in 0 .. MaxCrashes
  /\ accepted \subseteq Tasks \X Nat /\ moved \subseteq Tasks

Init ==
  /\ schedule \in [Tasks -> {"cron", "interval", "once"}]
  /\ script \in [Tasks -> BOOLEAN]
  /\ status = [t \in Tasks |-> "active"]
  /\ nextRun = [t \in Tasks |-> 1] /\ lastOcc = [t \in Tasks |-> 1]
  /\ time = [t \in Tasks |-> "future"]
  /\ claim = [t \in Tasks |-> 0]
  /\ lapsed = {}
  /\ target \in [Tasks -> Queues]
  /\ grace \in BOOLEAN
  /\ runs = {} /\ runningTaskIds = {} /\ openLogs = {}
  /\ manual = 0 /\ edits = 0 /\ slips = 0 /\ crashes = 0
  /\ accepted = {} /\ moved = {}

-----------------------------------------------------------------------------
(* The schedule *)

SetNext(t, n, clock) ==
  /\ nextRun' = [nextRun EXCEPT ![t] = n]
  /\ time' = [time EXCEPT ![t] = clock]

(* next_run becomes NULL, and with it the task completed. *)
NoNext(t) ==
  /\ SetNext(t, 0, "none")
  /\ status' = [status EXCEPT ![t] = "completed"]
  /\ UNCHANGED lastOcc

NewNext(t) ==
  /\ SetNext(t, lastOcc[t] + 1, "future")
  /\ lastOcc' = [lastOcc EXCEPT ![t] = @ + 1]
  /\ UNCHANGED status

(* computeNextRun() of a row read when next_run was read.  The next firing
   of a cron task may be the one that next_run says already; an interval is
   counted from next_run. *)
AdvanceNext(t, read) ==
  \/ schedule[t] = "once" /\ NoNext(t)
  \/ schedule[t] = "cron" /\ read = nextRun[t] /\ time[t] = "future"
     /\ UNCHANGED <<nextRun, time, status, lastOcc>>
  \/ schedule[t] # "once" /\ ~(schedule[t] = "cron" /\ read = nextRun[t] /\ time[t] = "future")
     /\ NewNext(t)

(* A manual run writes back the next_run that it read. *)
RestoreNext(t, read) ==
  \/ read = 0 /\ NoNext(t)
  \/ read # 0 /\ read = nextRun[t] /\ UNCHANGED <<nextRun, time, status, lastOcc>>
  \/ /\ read # 0 /\ read # nextRun[t]
     /\ \E clock \in {"future", "due", "overdue"} : SetNext(t, read, clock)
     /\ UNCHANGED <<status, lastOcc>>

(* Mutant: every run writes back the next_run that it read. *)
NextAlwaysRestored(r) == RestoreNext(r.task, r.read)

NextAfter(r) ==
  IF r.byHand THEN RestoreNext(r.task, r.read) ELSE AdvanceNext(r.task, r.read)

-----------------------------------------------------------------------------
(* Claims *)

(* Mutant: an expired lease still counts. *)
ClaimableOnce(t) == status[t] = "active" /\ claim[t] = 0

(* claimTaskRun() *)
Claimable(t) == status[t] = "active" /\ (claim[t] = 0 \/ t \in lapsed)

(* A token is a UUID: none of those that are still somewhere. *)
InUse == {claim[t] : t \in Tasks} \cup {r.token : r \in runs} \cup openLogs

Fresh == CHOOSE k \in Tokens : k \notin InUse

NewRun(t, byHand, phase) ==
  [token |-> Fresh, task |-> t, queue |-> target[t], byHand |-> byHand,
   for |-> nextRun[t], read |-> nextRun[t], phase |-> phase]

(* Mutant: the lease stays what it was. *)
SetClaimOnly(t, token) ==
  /\ claim' = [claim EXCEPT ![t] = token]
  /\ UNCHANGED lapsed

SetClaim(t, token) ==
  /\ claim' = [claim EXCEPT ![t] = token]
  /\ lapsed' = lapsed \ {t}

TakeClaim(t) ==
  /\ Claimable(t)
  /\ Tokens \ InUse # {}
  /\ SetClaim(t, Fresh)

Holds(r) == claim[r.task] = r.token

(* releaseTaskRunClaim() *)
ReleaseClaim(r) ==
  IF Holds(r) THEN SetClaim(r.task, 0) ELSE UNCHANGED <<claim, lapsed>>

(* completeTaskRunWithFence() *)
Complete(r) ==
  IF Holds(r)
    THEN NextAfter(r) /\ SetClaim(r.task, 0)
    ELSE UNCHANGED row

Accept(r) ==
  accepted' = accepted \cup {x \in {<<r.task, r.for>>} : Holds(r) /\ ~r.byHand}

(* The synchronous beginning of runTask() and runScriptTask() *)
Begin(r) ==
  /\ runs' = {s \in runs : s.token # r.token}
               \cup {[r EXCEPT !.phase = "working", !.read = nextRun[r.task]]}
  /\ runningTaskIds' = runningTaskIds \cup {r.task}
  /\ openLogs' = openLogs \cup {r.token}

(* Mutant: a task may be queued twice. *)
QueuedNever(r) == FALSE

(* enqueueTask(): "Prevent double-queuing of the same task".  It looks at what
   waits under the jid that it is given. *)
Queued(r) == \E s \in runs : s.task = r.task /\ s.phase = "queued" /\ s.queue = r.queue

Enqueue(r) ==
  /\ runs' = IF Queued(r) THEN runs ELSE runs \cup {r}
  /\ UNCHANGED <<runningTaskIds, openLogs>>

(* A run is gone, and with it what moving its task left behind. *)
Leaves(r) ==
  /\ runs' = runs \ {r}
  /\ moved' = {t \in moved : \E s \in runs \ {r} : s.task = t}

-----------------------------------------------------------------------------
(* The scheduler loop *)

Due(t) == status[t] = "active" /\ time[t] \in {"due", "overdue"}

(* Too old to be worth a run: advanceSkippedTask(). *)
SkipBackfill(t) ==
  /\ Due(t) /\ t \notin runningTaskIds
  /\ grace /\ time[t] = "overdue"
  /\ AdvanceNext(t, nextRun[t])
  /\ UNCHANGED <<fixed, claim, lapsed, target, server, used, accepted, moved>>

(* One due task of one round.  The orchestration policy may hold an agent
   task: the occurrence is then done without a run. *)
ClaimDue(t) ==
  /\ Due(t) /\ t \notin runningTaskIds
  /\ ~(grace /\ time[t] = "overdue")
  /\ \/ /\ script[t]
        /\ TakeClaim(t)
        /\ Begin(NewRun(t, FALSE, "working"))
        /\ UNCHANGED <<status, nextRun, time, lastOcc>>
     \/ /\ ~script[t]
        /\ TakeClaim(t)
        /\ Enqueue(NewRun(t, FALSE, "queued"))
        /\ UNCHANGED <<status, nextRun, time, lastOcc>>
     \/ /\ ~script[t] /\ Claimable(t)
        /\ SetClaim(t, 0)
        /\ AdvanceNext(t, nextRun[t])
        /\ UNCHANGED server
  /\ UNCHANGED <<fixed, target, used, accepted, moved>>

(* triggerTaskNow() *)
TriggerTaskNow(t) ==
  /\ manual < MaxManual /\ manual' = manual + 1
  /\ t \notin runningTaskIds
  /\ TakeClaim(t)
  /\ IF script[t] THEN Begin(NewRun(t, TRUE, "working"))
                  ELSE Enqueue(NewRun(t, TRUE, "queued"))
  /\ UNCHANGED <<fixed, status, nextRun, time, lastOcc, target, edits, slips, crashes, accepted,
                 moved>>

-----------------------------------------------------------------------------
(* A run *)

(* The queue starts the run of an agent task: unless its task is gone, or
   not active any more. *)
StartRun(r) ==
  LET t == r.task
      off == status[t] = "deleted" \/ (~r.byHand /\ status[t] # "active")
  IN
  /\ r \in runs /\ r.phase = "queued"
  /\ \/ /\ off
        /\ ReleaseClaim(r)
        /\ Leaves(r)
        /\ UNCHANGED <<status, nextRun, time, lastOcc, runningTaskIds, openLogs>>
     \/ /\ ~off
        /\ Begin(r)
        /\ UNCHANGED <<row, moved>>
  /\ UNCHANGED <<fixed, target, used, accepted>>

(* The owner is disabled or over the quota, or the workspace is gone: the
   run ends where it starts. *)
RunDenied(r) ==
  /\ r \in runs /\ r.phase = "queued"
  /\ status[r.task] # "deleted" /\ (r.byHand \/ status[r.task] = "active")
  /\ Complete([r EXCEPT !.read = nextRun[r.task]])
  /\ Leaves(r)
  /\ UNCHANGED <<fixed, target, runningTaskIds, openLogs, used, accepted>>

(* The queue drops a run: drainGroup() when the task is not active, or
   stopGroup() and cancelTaskRun().  Nobody releases the claim. *)
QueueDrops(r) ==
  /\ r \in runs /\ r.phase = "queued"
  /\ \/ status[r.task] \in {"paused", "completed"} /\ UNCHANGED slips
     \/ slips < MaxSlips /\ slips' = slips + 1
  /\ Leaves(r)
  /\ UNCHANGED <<fixed, row, target, runningTaskIds, openLogs, manual, edits, crashes, accepted>>

(* finalizeRunLog(), at the first result of an agent *)
Report(r) ==
  /\ r \in runs /\ r.phase = "working" /\ ~script[r.task]
  /\ runs' = (runs \ {r}) \cup {[r EXCEPT !.phase = "reported"]}
  /\ openLogs' = openLogs \ {r.token}
  /\ UNCHANGED <<fixed, row, target, runningTaskIds, used, accepted, moved>>

(* Mutant: the run's id stays in the set. *)
IdsKept(t) == runningTaskIds

IdsAfter(t) == runningTaskIds \ {t}

(* The run ends, with a result, an error or an exception. *)
Finish(r) ==
  /\ r \in runs /\ r.phase # "queued"
  /\ openLogs' = openLogs \ {r.token}
  /\ Complete(r) /\ Accept(r)
  /\ runningTaskIds' = IdsAfter(r.task)
  /\ Leaves(r)
  /\ UNCHANGED <<fixed, target, used>>

-----------------------------------------------------------------------------
(* Users and agents: routes/tasks.ts and the task tools of the IPC *)

Edit ==
  /\ edits < MaxEdits /\ edits' = edits + 1
  /\ UNCHANGED <<fixed, manual, slips, crashes, accepted>>

(* A new chat_jid, with the group_folder of its group; the groups that are
   registered have the same effect, resolveTargetGroupJid() chooses among
   them. *)
MoveTask(t) ==
  /\ Edit
  /\ status[t] # "deleted"
  /\ \E q \in Queues \ {target[t]} : target' = [target EXCEPT ![t] = q]
  /\ moved' = moved \cup {r.task : r \in {s \in runs : s.task = t /\ s.phase = "queued"}}
  /\ UNCHANGED <<row, server>>

SetStatus(t) ==
  /\ Edit
  /\ \/ status[t] = "active" /\ status' = [status EXCEPT ![t] = "paused"]
     \/ status[t] \in {"paused", "completed"} /\ status' = [status EXCEPT ![t] = "active"]
  /\ UNCHANGED <<nextRun, time, claim, lapsed, lastOcc, target, server, moved>>

(* A new schedule_value: next_run is computed anew. *)
Reschedule(t) ==
  /\ Edit
  /\ status[t] # "deleted"
  /\ NewNext(t)
  /\ UNCHANGED <<claim, lapsed, target, server, moved>>

DeleteTask(t) ==
  /\ Edit
  /\ status[t] # "deleted"
  /\ status' = [status EXCEPT ![t] = "deleted"]
  /\ SetClaim(t, 0)
  /\ openLogs' = {k \in openLogs : \A r \in runs : r.token = k => r.task # t}
  /\ UNCHANGED <<nextRun, time, lastOcc, target, runs, runningTaskIds, moved>>

-----------------------------------------------------------------------------
(* Time passes; the server stops and starts again. *)

BecomesDue(t) ==
  /\ time[t] = "future" /\ nextRun[t] <= MaxOcc
  /\ time' = [time EXCEPT ![t] = "due"]
  /\ UNCHANGED <<fixed, status, nextRun, claim, lapsed, lastOcc, target, server, used, accepted,
                 moved>>

BecomesOverdue(t) ==
  /\ time[t] = "due"
  /\ time' = [time EXCEPT ![t] = "overdue"]
  /\ UNCHANGED <<fixed, status, nextRun, claim, lapsed, lastOcc, target, server, used, accepted,
                 moved>>

LeaseExpires(t) ==
  /\ claim[t] # 0 /\ t \notin lapsed
  /\ lapsed' = lapsed \cup {t}
  /\ IF \E r \in runs : r.token = claim[t]
       THEN slips < MaxSlips /\ slips' = slips + 1
       ELSE UNCHANGED slips
  /\ UNCHANGED <<fixed, status, nextRun, time, claim, lastOcc, target, server, manual, edits,
                 crashes, accepted, moved>>

(* Mutant: logs of an earlier process are not cleaned up. *)
LogsKept == openLogs

(* cleanupStaleRunningLogs() *)
LogsAtStart == {}

Restart ==
  /\ crashes < MaxCrashes /\ crashes' = crashes + 1
  /\ runs' = {} /\ runningTaskIds' = {} /\ moved' = {}
  /\ openLogs' = LogsAtStart
  /\ UNCHANGED <<fixed, row, target, manual, edits, slips, accepted>>

-----------------------------------------------------------------------------
RunStep(r) == StartRun(r) \/ RunDenied(r) \/ QueueDrops(r) \/ Report(r) \/ Finish(r)

TaskStep(t) ==
  \/ SkipBackfill(t) \/ ClaimDue(t) \/ TriggerTaskNow(t)
  \/ MoveTask(t) \/ SetStatus(t) \/ Reschedule(t) \/ DeleteTask(t)
  \/ BecomesDue(t) \/ BecomesOverdue(t) \/ LeaseExpires(t)

Next ==
  \/ \E t \in Tasks : TaskStep(t)
  \/ \E r \in runs : RunStep(r)
  \/ Restart

Spec == Init /\ [][Next]_vars

(* The loop comes round to every due task; the queue starts or drops what it
   holds; a run ends, by its timeouts at the latest; leases expire. *)
Fairness ==
  \A t \in Tasks :
    /\ WF_vars(SkipBackfill(t)) /\ WF_vars(ClaimDue(t))
    /\ WF_vars(\E r \in runs : r.task = t /\ (StartRun(r) \/ RunDenied(r) \/ QueueDrops(r)))
    /\ WF_vars(\E r \in runs : r.task = t /\ Finish(r))
    /\ WF_vars(LeaseExpires(t))

FairSpec == Spec /\ Fairness

-----------------------------------------------------------------------------
(* Properties *)

(* A task has at most one run, queued or active, although its lease expires,
   it is triggered by hand, paused, resumed, rescheduled and moved to another
   chat meanwhile.  The exceptions: a task that is moved while its run waits,
   until it has no run any more, and one whose kind is changed (which the
   model leaves out). *)
OneRunPerTask ==
  \A r, s \in runs : r.task = s.task /\ r.task \notin moved => r = s

(* An occurrence is accepted once: after the result of a scheduled run has
   been stored and shown, no later run of the same occurrence is, across
   restarts, expired leases, manual runs and skipped occurrences. *)
AcceptedOnce ==
  [][\A r \in runs :
       Finish(r) /\ Holds(r) /\ ~r.byHand => <<r.task, r.for>> \notin accepted]_vars

(* No log row says 'running' and no id stays in runningTaskIds (which would
   keep its task from ever running) without a run that will end it. *)
RunsAreTracked ==
  /\ \A k \in openLogs : \E r \in runs : r.token = k /\ r.phase = "working"
  /\ \A t \in runningTaskIds : \E r \in runs : r.task = t /\ r.phase # "queued"

(* A due occurrence of an active task is run or skipped in the end, although
   runs are dropped by the queue, outlive their lease, or die with the
   server while their claim stays in the row. *)
OccurrenceSettles ==
  \A t \in Tasks, n \in 1 .. MaxOcc :
    Due(t) /\ nextRun[t] = n ~> ~Due(t) \/ nextRun[t] # n

(* advanceSkippedTask is for "a task we deliberately did NOT execute": no
   occurrence is skipped while the run that claimed it is on its way. *)
SkippedIsNotRun ==
  [][\A t \in Tasks : SkipBackfill(t) => \A r \in runs : r.task # t]_vars

=============================================================================
