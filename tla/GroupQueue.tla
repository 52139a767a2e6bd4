----------------------------- MODULE GroupQueue -----------------------------
(***************************************************************************)
(* The run scheduler of the server, src/src/group-queue.ts.                *)
(*                                                                         *)
(* A group is a chat identifier (jid).  Groups that share a workspace      *)
(* folder share a serialization key: only one of them should have a runner *)
(* (a container or a host process) at a time.  A runner also occupies a    *)
(* slot of its kind, and counts against the concurrency limit of the       *)
(* group's owner.  Messages and tasks that cannot run at once stay pending *)
(* in the group's state, and the group in waitingGroups, until a run ends. *)
(*                                                                         *)
(* The code is one JavaScript thread: what it does between two awaits is   *)
(* one step.  A step here is such a stretch of code, with one exception:   *)
(* drainGroup() and the loop of drainWaiting() are steps of their own.     *)
(* While one of them is due (pc) nothing else is enabled, so they remain   *)
(* part of the uninterrupted stretch that called them.                     *)
(*                                                                         *)
(* waitingGroups is a set here; the code visits it in insertion order, a   *)
(* step of the model in any order.                                         *)
(***************************************************************************)
EXTENDS Integers, Sequences, FiniteSets

CONSTANTS
  Groups,        \* jids, those of agents, tasks and issue runs included
  KeyOf,         \* serialization key of each jid (its folder, or its own)
  AgentGroups,   \* jids of conversation agents, "...#agent:..."
  RunGroups,     \* jids of isolated runs, "...#task:..." and "...#issue:..."
  Owners, OwnerOf, UserLimit,    \* owner of each jid, limit of each owner
  Tasks,         \* tasks that other components queue
  Recovery,      \* the task queued to recover unread IPC of an agent
  Messages,      \* what a runner started for messages works on
  Idle,          \* value of running[g] when the group has no active runner
  NoGroup,
  MaxContainers, MaxHosts,       \* system slots of each kind
  MaxRetries,    \* MAX_RETRIES
  ModeEditable,  \* groups whose execution mode the owner may edit
  MaxRequests, MaxControls       \* bounds of the environment

Work == Tasks \cup {Recovery, Messages}

ASSUME ConstantsAssumption ==
  /\ IsFiniteSet(Groups)
  /\ KeyOf \in [Groups -> Groups]
  /\ AgentGroups \subseteq Groups
  /\ RunGroups \subseteq Groups \ AgentGroups
  /\ OwnerOf \in [Groups -> Owners]
  /\ UserLimit \in [Owners -> Nat]
  /\ Recovery \notin Tasks /\ Messages \notin Tasks \cup {Recovery}
  /\ Idle \notin Work
  /\ NoGroup \notin Groups
  /\ ModeEditable \subseteq Groups
  /\ MaxContainers \in Nat /\ MaxHosts \in Nat /\ MaxRetries \in Nat
  /\ MaxRequests \in Nat /\ MaxControls \in Nat

VARIABLES
  (* GroupState *)
  running,       \* active, activeRunnerIsTask, activeTaskId: what runs, or Idle
  registered,    \* groupFolder and process are set: the process is spawned
  pendingMsgs,   \* pendingMessages
  pendingTasks,  \* pendingTasks, the oldest first
  retryCount, retryTimer,
  drainWritten,  \* drainSentinelWritten
  injected,      \* hasIpcInjectedMessages
  restartFor,    \* restarting: the jid the restart of this runner was asked for
  (* GroupQueue *)
  waiting,       \* waitingGroups
  containerCount, hostCount,     \* activeContainerCount, activeHostProcessCount
  shuttingDown,
  frames,        \* the calls of runForGroup and runTask that have not ended
  pc,            \* the drain call that is due in the current stretch of code
  (* Surroundings *)
  ipc,           \* per key: does its IPC input directory hold unread messages
  hostMode,      \* does the owner's setting run the group on the host
  cancelled,     \* scheduled tasks whose row is not active any more
  requests, controls             \* how much of each bound is used

lifecycle == <<running, frames, containerCount, hostCount>>
pending   == <<pendingMsgs, pendingTasks, waiting>>
retry     == <<retryCount, retryTimer>>
runner    == <<registered, drainWritten, injected, ipc>>
setting   == <<restartFor, shuttingDown, hostMode, cancelled>>
bounds    == <<requests, controls>>
vars == <<lifecycle, pending, retry, runner, setting, bounds, pc>>

FrameIds == 1 .. (MaxContainers + MaxHosts)
Quiet == [op |-> "idle", jids |-> {}]

TypeOK ==
  /\ running \in [Groups -> Work \cup {Idle}]
  /\ registered \in [Groups -> BOOLEAN]
  /\ pendingMsgs \in [Groups -> BOOLEAN]
  /\ pendingTasks \in [Groups -> Seq(Tasks \cup {Recovery})]
  /\ retryCount \in [Groups -> 0 .. MaxRetries]
  /\ retryTimer \in [Groups -> BOOLEAN]
  /\ drainWritten \in [Groups -> BOOLEAN]
  /\ injected \in [Groups -> BOOLEAN]
  /\ restartFor \in [Groups -> Groups \cup {NoGroup}]
  /\ waiting \subseteq Groups
  /\ containerCount \in Int /\ hostCount \in Int
  /\ shuttingDown \in BOOLEAN
  /\ frames \subseteq [id : FrameIds, jid : Groups, host : BOOLEAN, work : Work]
  /\ pc \in [op : {"idle", "drainGroup", "drainWaiting"}, jids : SUBSET Groups]
  /\ ipc \in [Groups -> BOOLEAN]
  /\ hostMode \in [Groups -> BOOLEAN]
  /\ cancelled \subseteq Tasks
  /\ requests \in 0 .. MaxRequests /\ controls \in 0 .. MaxControls

Init ==
  /\ running = [g \in Groups |-> Idle]
  /\ registered = [g \in Groups |-> FALSE]
  /\ pendingMsgs = [g \in Groups |-> FALSE]
  /\ pendingTasks = [g \in Groups |-> <<>>]
  /\ retryCount = [g \in Groups |-> 0]
  /\ retryTimer = [g \in Groups |-> FALSE]
  /\ drainWritten = [g \in Groups |-> FALSE]
  /\ injected = [g \in Groups |-> FALSE]
  /\ restartFor = [g \in Groups |-> NoGroup]
  /\ waiting = {}
  /\ containerCount = 0 /\ hostCount = 0
  /\ shuttingDown = FALSE
  /\ frames = {}
  /\ pc = Quiet
  /\ ipc = [k \in Groups |-> FALSE]
  /\ hostMode \in [Groups -> BOOLEAN]
  /\ cancelled = {}
  /\ requests = 0 /\ controls = 0

-----------------------------------------------------------------------------
(* Queries of the queue's state *)

Active(g) == running[g] # Idle

(* Groups of g's key that have an active runner; findActiveRunnerFor(g)
   returns one of them. *)
ActiveSiblings(g) == {h \in Groups : Active(h) /\ KeyOf[h] = KeyOf[g]}

(* Mutant: siblings of the folder are not looked at. *)
KeyBusyOwnOnly(g) == Active(g)

KeyBusy(g) == ActiveSiblings(g) # {}

(* The jid whose runner serves g, or g itself. *)
IsTarget(t, g) == IF KeyBusy(g) THEN t \in ActiveSiblings(g) ELSE t = g

(* Runs that count against the owner's limit: all but those of agents. *)
UserActive(o) == Cardinality({h \in Groups \ AgentGroups : OwnerOf[h] = o /\ Active(h)})

HasCapacity(g) ==
  /\ IF hostMode[g] THEN hostCount < MaxHosts ELSE containerCount < MaxContainers
  /\ UserActive(OwnerOf[g]) < UserLimit[OwnerOf[g]]

(* Mutant: a caller after shutdown() is served. *)
RefusesNothing == FALSE

Refuses == shuttingDown

(* Mutant: the group is not put on the waiting list. *)
EnlistForgotten(g) == waiting

Enlist(g) == waiting \cup {g}

(* A main runner of g's key that has spawned gets a drain sentinel, once. *)
Drainable(h, g) == h \in ActiveSiblings(g) /\ registered[h] /\ h \notin AgentGroups

RequestDrain(g) ==
  drainWritten' = [h \in Groups |-> drainWritten[h] \/ Drainable(h, g)]

-----------------------------------------------------------------------------
(* Starting a run: what runForGroup and runTask do before their first await. *)

Start(g, w) ==
  /\ running' = [running EXCEPT ![g] = w]
  /\ waiting' = waiting \ {g}
  /\ pendingMsgs' = [pendingMsgs EXCEPT ![g] = @ /\ w # Messages]
  /\ IF hostMode[g]
       THEN hostCount' = hostCount + 1 /\ UNCHANGED containerCount
       ELSE containerCount' = containerCount + 1 /\ UNCHANGED hostCount
  /\ \E i \in FrameIds :
       /\ \A f \in frames : f.id # i
       /\ \A j \in 1 .. (i - 1) : \E f \in frames : f.id = j
       /\ frames' = frames \cup {[id |-> i, jid |-> g, host |-> hostMode[g], work |-> w]}

(* enqueueMessageCheck *)
MessageCheck(g) ==
  \/ /\ Refuses
     /\ UNCHANGED <<lifecycle, pending, drainWritten>>
  \/ /\ ~Refuses /\ KeyBusy(g)
     /\ pendingMsgs' = [pendingMsgs EXCEPT ![g] = TRUE]
     /\ waiting' = Enlist(g)
     /\ RequestDrain(g)
     /\ UNCHANGED <<lifecycle, pendingTasks>>
  \/ /\ ~Refuses /\ ~KeyBusy(g) /\ ~HasCapacity(g)
     /\ pendingMsgs' = [pendingMsgs EXCEPT ![g] = TRUE]
     /\ waiting' = Enlist(g)
     /\ UNCHANGED <<lifecycle, pendingTasks, drainWritten>>
  \/ /\ ~Refuses /\ ~KeyBusy(g) /\ HasCapacity(g)
     /\ Start(g, Messages)
     /\ UNCHANGED <<pendingTasks, drainWritten>>

(* Requests are made between stretches of code of the queue. *)
Request ==
  /\ pc = Quiet
  /\ requests < MaxRequests /\ requests' = requests + 1
  /\ UNCHANGED <<controls, setting, pc>>

Control ==
  /\ pc = Quiet
  /\ controls < MaxControls /\ controls' = controls + 1
  /\ UNCHANGED <<requests, pc>>

EnqueueMessageCheck(g) ==
  /\ Request
  /\ g \notin AgentGroups \cup RunGroups
  /\ MessageCheck(g)
  /\ UNCHANGED <<retry, registered, injected, ipc>>

EnqueueTask(g, t) ==
  /\ Request
  /\ \/ /\ Refuses \/ \E i \in DOMAIN pendingTasks[g] : pendingTasks[g][i] = t
        /\ UNCHANGED <<lifecycle, pending>>
     \/ /\ ~Refuses
        /\ \A i \in DOMAIN pendingTasks[g] : pendingTasks[g][i] # t
        /\ \/ /\ KeyBusy(g) \/ ~HasCapacity(g)
              /\ pendingTasks' = [pendingTasks EXCEPT ![g] = Append(@, t)]
              /\ waiting' = Enlist(g)
              /\ UNCHANGED <<lifecycle, pendingMsgs>>
           \/ /\ ~KeyBusy(g) /\ HasCapacity(g)
              /\ Start(g, t)
              /\ UNCHANGED pendingTasks
  /\ UNCHANGED <<retry, runner>>

-----------------------------------------------------------------------------
(* The life of a runner *)

(* registerProcess, called when the runner's process has been spawned. *)
RegisterProcess(g) ==
  /\ pc = Quiet
  /\ ~registered[g]
  /\ \E f \in frames : f.jid = g
  /\ registered' = [registered EXCEPT ![g] = TRUE]
  /\ UNCHANGED <<lifecycle, pending, retry, drainWritten, injected, ipc, setting, bounds, pc>>

(* sendMessage returning 'sent'; the web route then calls
   markIpcInjectedMessage, the message loop does not (marked). *)
PipeMessage(g, marked) ==
  /\ Request
  /\ \E t \in ActiveSiblings(g) :
       /\ registered[t]
       /\ running[t] = Messages \/ g \in AgentGroups
       /\ ipc' = [ipc EXCEPT ![KeyOf[t]] = TRUE]
       /\ injected' = [injected EXCEPT ![t] = @ \/ marked]
  /\ UNCHANGED <<lifecycle, pending, retry, registered, drainWritten>>

(* The runner takes what its input directory holds. *)
RunnerReadsIpc(g) ==
  /\ pc = Quiet
  /\ registered[g] /\ ipc[KeyOf[g]]
  /\ \E f \in frames : f.jid = g
  /\ ipc' = [ipc EXCEPT ![KeyOf[g]] = FALSE]
  /\ UNCHANGED <<lifecycle, pending, retry, registered, drainWritten, injected, setting, bounds, pc>>

(* The outcome of processMessagesFn: success clears the retries; a failure
   arms the timer, or gives up after MaxRetries retries. *)
Succeeds(g) ==
  /\ retryCount' = [retryCount EXCEPT ![g] = 0]
  /\ retryTimer' = [retryTimer EXCEPT ![g] = FALSE]

(* Mutant: one retry more. *)
GivesUpLate(g) == retryCount[g] > MaxRetries

GivesUp(g) == retryCount[g] = MaxRetries

ScheduleRetry(g) ==
  /\ retryCount' = [retryCount EXCEPT ![g] = IF GivesUp(g) THEN 0 ELSE @ + 1]
  /\ retryTimer' = [retryTimer EXCEPT ![g] = ~GivesUp(g)]

(* recoverUnconsumedIpc, for a process that had been registered *)
Unread(g) == registered[g] /\ ipc[KeyOf[g]]

RecoverUnconsumedIpc(g, work) ==
  /\ IF Unread(g) /\ g \in AgentGroups /\ ~Refuses
       THEN /\ pendingTasks' = [pendingTasks EXCEPT ![g] = Append(@, Recovery)]
            /\ waiting' = Enlist(g)
       ELSE UNCHANGED <<pendingTasks, waiting>>
  /\ pendingMsgs' = [pendingMsgs EXCEPT ![g] =
       \/ @
       \/ Unread(g) /\ g \notin AgentGroups \cup RunGroups
       \/ work = Messages /\ injected[g]]

(* Mutant: the slot released is that of the mode now configured. *)
HeldHostSlotNow(f) == hostMode[f.jid]

HeldHostSlot(f) == f.host

(* The end of runForGroup or runTask: the outcome and the finally block. *)
RunEnd(f, ok) ==
  /\ pc = Quiet
  /\ f \in frames
  /\ frames' = frames \ {f}
  /\ running' = [running EXCEPT ![f.jid] = Idle]
  /\ \/ f.work # Messages /\ UNCHANGED retry
     \/ f.work = Messages /\ ok /\ Succeeds(f.jid)
     \/ f.work = Messages /\ ~ok /\ ScheduleRetry(f.jid)
  /\ RecoverUnconsumedIpc(f.jid, f.work)
  /\ registered' = [registered EXCEPT ![f.jid] = FALSE]
  /\ drainWritten' = [drainWritten EXCEPT ![f.jid] = FALSE]
  /\ injected' = [injected EXCEPT ![f.jid] = @ /\ f.work # Messages]
  /\ IF HeldHostSlot(f)
       THEN hostCount' = hostCount - 1 /\ UNCHANGED containerCount
       ELSE containerCount' = containerCount - 1 /\ UNCHANGED hostCount
  /\ pc' = [op |-> "drainGroup", jids |-> {f.jid}]
  /\ UNCHANGED <<ipc, setting, bounds>>

(* The timer armed by scheduleRetry *)
RetryFires(g) ==
  /\ pc = Quiet
  /\ retryTimer[g]
  /\ retryTimer' = [retryTimer EXCEPT ![g] = FALSE]
  /\ MessageCheck(g)
  /\ UNCHANGED <<retryCount, registered, injected, ipc, setting, bounds, pc>>

-----------------------------------------------------------------------------
(* Draining *)

(* Scheduled tasks at the head of the queue that were cancelled are dropped;
   the first live one, the k-th, starts. *)
FirstLive(g, k) ==
  /\ k \in DOMAIN pendingTasks[g]
  /\ pendingTasks[g][k] \notin cancelled
  /\ \A i \in 1 .. (k - 1) : pendingTasks[g][i] \in cancelled

StartFirstLive(g) ==
  \E k \in DOMAIN pendingTasks[g] :
    /\ FirstLive(g, k)
    /\ pendingTasks' = [pendingTasks EXCEPT ![g] = SubSeq(@, k + 1, Len(@))]
    /\ Start(g, pendingTasks[g][k])

NoneLive(g) == \A i \in DOMAIN pendingTasks[g] : pendingTasks[g][i] \in cancelled

MessagesDue(g) == pendingMsgs[g] /\ ~retryTimer[g]

(* Pending work of g with a free slot and no active runner of its key *)
StartPending(g) ==
  \/ StartFirstLive(g)
  \/ /\ NoneLive(g) /\ MessagesDue(g)
     /\ pendingTasks' = [pendingTasks EXCEPT ![g] = <<>>]
     /\ Start(g, Messages)

(* Mutant: drainGroup does not go on to the other waiting groups. *)
ScanOfNone(jids) == Quiet

ScanOf(jids) == IF jids = {} THEN Quiet ELSE [op |-> "drainWaiting", jids |-> jids]

DrainGroup(g) ==
  /\ pc = [op |-> "drainGroup", jids |-> {g}]
  /\ \/ /\ Refuses
        /\ pc' = Quiet
        /\ UNCHANGED <<lifecycle, pending, drainWritten>>
     \/ /\ ~Refuses /\ KeyBusy(g)
        /\ RequestDrain(g)
        /\ waiting' = Enlist(g)
        /\ pc' = Quiet
        /\ UNCHANGED <<lifecycle, pendingMsgs, pendingTasks>>
     \/ /\ ~Refuses /\ ~KeyBusy(g) /\ ~HasCapacity(g)
        /\ waiting' = Enlist(g)
        /\ pc' = Quiet
        /\ UNCHANGED <<lifecycle, pendingMsgs, pendingTasks, drainWritten>>
     \/ /\ ~Refuses /\ ~KeyBusy(g) /\ HasCapacity(g)
        /\ StartPending(g)
        /\ pc' = Quiet
        /\ UNCHANGED drainWritten
     \/ /\ ~Refuses /\ ~KeyBusy(g) /\ HasCapacity(g)
        /\ NoneLive(g) /\ ~MessagesDue(g)
        /\ pendingTasks' = [pendingTasks EXCEPT ![g] = <<>>]
        /\ waiting' = waiting \ {g}
        /\ pc' = ScanOf(waiting \ {g})
        /\ UNCHANGED <<lifecycle, pendingMsgs, drainWritten>>
  /\ UNCHANGED <<retry, registered, injected, ipc, setting, bounds>>

(* One candidate of drainWaiting's snapshot.  Only the runner of another
   group of the key makes it wait: the code lets g's own runner pass. *)
Passes(g) == ActiveSiblings(g) \subseteq {g}

DrainWaiting(g) ==
  /\ pc.op = "drainWaiting" /\ g \in pc.jids
  /\ pc' = ScanOf(pc.jids \ {g})
  /\ \/ /\ ~(Passes(g) /\ HasCapacity(g))
        /\ UNCHANGED <<lifecycle, pending>>
     \/ /\ Passes(g) /\ HasCapacity(g)
        /\ StartPending(g)
     \/ /\ Passes(g) /\ HasCapacity(g)
        /\ NoneLive(g) /\ ~MessagesDue(g)
        /\ pendingTasks' = [pendingTasks EXCEPT ![g] = <<>>]
        /\ waiting' = waiting \ {g}
        /\ UNCHANGED <<lifecycle, pendingMsgs>>
  /\ UNCHANGED <<retry, runner, setting, bounds>>

-----------------------------------------------------------------------------
(* Controls: operations of users, administrators and monitors *)

(* requestGracefulRestart *)
RequestGracefulRestart(g) ==
  /\ Control
  /\ Active(g) /\ registered[g]
  /\ pendingMsgs' = [pendingMsgs EXCEPT ![g] = TRUE]
  /\ UNCHANGED <<lifecycle, pendingTasks, waiting, retry, runner, setting>>

(* interruptQuery *)
InterruptQuery(g) ==
  /\ Control
  /\ \E t \in ActiveSiblings(g) :
       /\ registered[t]
       /\ retryCount' = [retryCount EXCEPT ![t] = 0]
       /\ retryTimer' = [retryTimer EXCEPT ![t] = FALSE]
  /\ UNCHANGED <<lifecycle, pending, runner, setting>>

(* stopGroup up to its first await; the kill that follows makes the run end. *)
StopGroup(g) ==
  /\ Control
  /\ \E t \in Groups :
       /\ IsTarget(t, g)
       /\ pendingMsgs' = [h \in Groups |-> pendingMsgs[h] /\ h \notin {g, t}]
       /\ pendingTasks' = [h \in Groups |-> IF h \in {g, t} THEN <<>> ELSE pendingTasks[h]]
       /\ retryCount' = [h \in Groups |-> IF h \in {g, t} THEN 0 ELSE retryCount[h]]
       /\ retryTimer' = [h \in Groups |-> retryTimer[h] /\ h \notin {g, t}]
       /\ waiting' = waiting \ {g, t}
  /\ UNCHANGED <<lifecycle, runner, setting>>

(* cancelTaskRun of a task that is still queued; of an active one it is
   stopGroup(g), of another it does nothing. *)
CancelTaskRun(g, t) ==
  /\ Control
  /\ \E i \in DOMAIN pendingTasks[g] :
       LET rest == SubSeq(pendingTasks[g], 1, i - 1)
                     \o SubSeq(pendingTasks[g], i + 1, Len(pendingTasks[g]))
       IN  /\ pendingTasks[g][i] = t
           /\ pendingTasks' = [pendingTasks EXCEPT ![g] = rest]
           /\ waiting' = IF rest = <<>> /\ ~pendingMsgs[g] THEN waiting \ {g} ELSE waiting
  /\ UNCHANGED <<lifecycle, pendingMsgs, retry, runner, setting>>

(* restartGroup up to its wait; a second restart of the runner is refused. *)
RestartBegin(g) ==
  /\ Control
  /\ \E t \in Groups :
       /\ IsTarget(t, g) /\ restartFor[t] = NoGroup
       /\ restartFor' = [restartFor EXCEPT ![t] = g]
  /\ UNCHANGED <<lifecycle, pending, retry, runner, shuttingDown, hostMode, cancelled>>

(* restartGroup after its wait: the runner has exited, or it is given up. *)
RestartFinish(t) ==
  /\ pc = Quiet
  /\ restartFor[t] # NoGroup
  /\ ~Active(t)
  /\ MessageCheck(restartFor[t])
  /\ restartFor' = [restartFor EXCEPT ![t] = NoGroup]
  /\ UNCHANGED <<retry, registered, injected, ipc, shuttingDown, hostMode, cancelled, bounds, pc>>

RestartFail(t) ==
  /\ pc = Quiet
  /\ restartFor[t] # NoGroup
  /\ Active(t)
  /\ restartFor' = [restartFor EXCEPT ![t] = NoGroup]
  /\ UNCHANGED <<lifecycle, pending, retry, runner, shuttingDown, hostMode, cancelled, bounds, pc>>

(* shutdown up to its wait *)
Shutdown ==
  /\ Control
  /\ ~shuttingDown
  /\ shuttingDown' = TRUE
  /\ retryCount' = [g \in Groups |-> 0]
  /\ retryTimer' = [g \in Groups |-> FALSE]
  /\ UNCHANGED <<lifecycle, pending, runner, restartFor, hostMode, cancelled>>

(* The owner edits the workspace's execution mode. *)
SetExecutionMode(g) ==
  /\ Control
  /\ g \in ModeEditable
  /\ hostMode' = [hostMode EXCEPT ![g] = ~@]
  /\ UNCHANGED <<lifecycle, pending, retry, runner, restartFor, shuttingDown, cancelled>>

(* A queued scheduled task is paused or cancelled: its row stays, not active. *)
CancelInDb(t) ==
  /\ Control
  /\ t \in Tasks \ cancelled
  /\ cancelled' = cancelled \cup {t}
  /\ UNCHANGED <<lifecycle, pending, retry, runner, restartFor, shuttingDown, hostMode>>

-----------------------------------------------------------------------------
Drain == \E g \in Groups : DrainGroup(g) \/ DrainWaiting(g)

RunnerStep ==
  \/ \E g \in Groups : RegisterProcess(g) \/ RunnerReadsIpc(g) \/ RetryFires(g)
  \/ \E f \in frames, ok \in BOOLEAN : RunEnd(f, ok)

RequestStep ==
  \/ \E g \in Groups : EnqueueMessageCheck(g)
  \/ \E g \in Groups, t \in Tasks : EnqueueTask(g, t)
  \/ \E g \in Groups, marked \in BOOLEAN : PipeMessage(g, marked)

ControlStep ==
  \/ \E g \in Groups : \/ RequestGracefulRestart(g) \/ InterruptQuery(g) \/ StopGroup(g)
                       \/ RestartBegin(g) \/ RestartFinish(g) \/ RestartFail(g)
                       \/ SetExecutionMode(g)
  \/ \E g \in Groups, t \in Tasks : CancelTaskRun(g, t)
  \/ \E t \in Tasks : CancelInDb(t)
  \/ Shutdown

Next == Drain \/ RunnerStep \/ RequestStep \/ ControlStep

Spec == Init /\ [][Next]_vars

(* A drain that is due runs before anything else; every run ends in the end
   (the runner's idle timeout and hard timeout see to it); an armed timer
   fires. *)
Fairness ==
  /\ WF_vars(Drain)
  /\ \A i \in FrameIds : WF_vars(\E f \in frames, ok \in BOOLEAN : f.id = i /\ RunEnd(f, ok))
  /\ \A g \in Groups : WF_vars(RetryFires(g))

(* A runner started over and over reads its directory at one of the starts. *)
ReadFairness == \A g \in Groups : SF_vars(RunnerReadsIpc(g))

FairSpec == Spec /\ Fairness /\ ReadFairness

-----------------------------------------------------------------------------
(* Properties *)

(* The slot counters count the runs that are really in progress, each under
   the mode it was started in, and never exceed the slots: although the mode
   is edited, runs are stopped and started at will, and one group's state is
   shared by all its runs. *)
SlotAccounting ==
  /\ containerCount = Cardinality({f \in frames : ~f.host})
  /\ hostCount = Cardinality({f \in frames : f.host})
  /\ containerCount <= MaxContainers /\ hostCount <= MaxHosts

(* At most one jid of a serialization key is flagged active, so
   findActiveRunnerFor has one answer, and a flagged jid has a run. *)
OneFlaggedRunner ==
  /\ \A g, h \in Groups : Active(g) /\ Active(h) /\ KeyOf[g] = KeyOf[h] => g = h
  /\ \A g \in Groups : Active(g) => \E f \in frames : f.jid = g

HasPending(g) == pendingMsgs[g] \/ pendingTasks[g] # <<>>

(* No pending work is forgotten: unless its drain is due at this moment, its
   group has a run whose end looks at it, or is on the waiting list, or
   (messages only) has a retry timer armed. *)
Tracked(g) == Active(g) \/ g \in waiting \/ (pendingTasks[g] = <<>> /\ retryTimer[g])

PendingTracked ==
  ~shuttingDown =>
    \A g \in Groups :
      HasPending(g) => Tracked(g) \/ (pc.op = "drainGroup" /\ g \in pc.jids)

(* Slots are never left idle while work that could take one waits: every end
   of a run wakes whatever may now start. *)
WorkConserving ==
  pc = Quiet /\ ~shuttingDown =>
    \A g \in Groups :
      (~NoneLive(g) \/ MessagesDue(g)) /\ ~KeyBusy(g) => ~HasCapacity(g)

(* The queue implements RunSlots: no path (request, timer, drain, restart)
   starts a run after shutdown() has begun, above a limit, or beside the
   runner of another jid of the key. *)
Slots == INSTANCE RunSlots WITH
  running <- running, frames <- frames, shuttingDown <- shuttingDown
ImplementsRunSlots == Slots!SlotsSpec

(* Pending work is started or dropped in the end: no wakeup is lost for
   good. *)
QueuedWorkServed == \A g \in Groups : HasPending(g) ~> (shuttingDown \/ ~HasPending(g))

(* "an active task runner for this serialization key": a key has one run. *)
OneRunPerKey ==
  \A f1, f2 \in frames : KeyOf[f1.jid] = KeyOf[f2.jid] => f1 = f2

=============================================================================
