-------------------------- MODULE GroupQueueProofs --------------------------
(* What holds of the run scheduler for every set of groups, every sharing of
   folders and every limit.  Liveness and the runs' counterexamples are left
   to TLC. *)
EXTENDS GroupQueue, TLAPS, FiniteSetTheorems, SequenceTheorems

TaskSeq == Seq(Tasks \cup {Recovery})

-----------------------------------------------------------------------------
(* Types *)

(* What starting a run does to the variables it assigns. *)
LEMMA StartType ==
  ASSUME TypeOK, NEW g \in Groups, NEW w \in Work, Start(g, w)
  PROVE  /\ running' \in [Groups -> Work \cup {Idle}]
         /\ waiting' \subseteq Groups
         /\ pendingMsgs' \in [Groups -> BOOLEAN]
         /\ containerCount' \in Int /\ hostCount' \in Int
         /\ frames' \subseteq [id : FrameIds, jid : Groups, host : BOOLEAN, work : Work]
<1>1. PICK i \in FrameIds :
        frames' = frames \cup {[id |-> i, jid |-> g, host |-> hostMode[g], work |-> w]}
  BY DEF Start
<1>2. hostMode[g] \in BOOLEAN
  BY DEF TypeOK
<1>3. frames' \subseteq [id : FrameIds, jid : Groups, host : BOOLEAN, work : Work]
  BY <1>1, <1>2 DEF TypeOK
<1>4. running' \in [Groups -> Work \cup {Idle}]
  BY DEF TypeOK, Start
<1>5. pendingMsgs' \in [Groups -> BOOLEAN]
  <2>1. pendingMsgs' = [pendingMsgs EXCEPT ![g] = @ /\ w # Messages]
    BY DEF Start
  <2>2. (pendingMsgs[g] /\ w # Messages) \in BOOLEAN
    OBVIOUS
  <2>. QED
    BY <2>1, <2>2, Zenon DEF TypeOK
<1>6. waiting' \subseteq Groups /\ containerCount' \in Int /\ hostCount' \in Int
  BY DEF TypeOK, Start
<1>. QED
  BY <1>3, <1>4, <1>5, <1>6

(* enqueueMessageCheck keeps the types of what it may assign. *)
LEMMA MessageCheckType ==
  ASSUME TypeOK, NEW g \in Groups, MessageCheck(g)
  PROVE  /\ running' \in [Groups -> Work \cup {Idle}]
         /\ waiting' \subseteq Groups
         /\ pendingMsgs' \in [Groups -> BOOLEAN]
         /\ pendingTasks' \in [Groups -> TaskSeq]
         /\ drainWritten' \in [Groups -> BOOLEAN]
         /\ containerCount' \in Int /\ hostCount' \in Int
         /\ frames' \subseteq [id : FrameIds, jid : Groups, host : BOOLEAN, work : Work]
<1>. USE DEF TypeOK, TaskSeq
<1>1. CASE UNCHANGED <<lifecycle, pending, drainWritten>>
  BY <1>1 DEF lifecycle, pending
<1>2. CASE /\ pendingMsgs' = [pendingMsgs EXCEPT ![g] = TRUE]
           /\ waiting' = Enlist(g)
           /\ RequestDrain(g) \/ UNCHANGED drainWritten
           /\ UNCHANGED <<lifecycle, pendingTasks>>
  <2>1. drainWritten' \in [Groups -> BOOLEAN]
    BY <1>2, Zenon DEF RequestDrain, Drainable
  <2>. QED
    BY <1>2, <2>1 DEF lifecycle, Enlist
<1>3. CASE Start(g, Messages) /\ UNCHANGED <<pendingTasks, drainWritten>>
  BY <1>3, StartType DEF Work
<1>. QED
  BY <1>1, <1>2, <1>3 DEF MessageCheck

(* Starting pending work keeps types too. *)
LEMMA StartPendingType ==
  ASSUME TypeOK, NEW g \in Groups, StartPending(g)
  PROVE  /\ running' \in [Groups -> Work \cup {Idle}]
         /\ waiting' \subseteq Groups
         /\ pendingMsgs' \in [Groups -> BOOLEAN]
         /\ pendingTasks' \in [Groups -> TaskSeq]
         /\ containerCount' \in Int /\ hostCount' \in Int
         /\ frames' \subseteq [id : FrameIds, jid : Groups, host : BOOLEAN, work : Work]
<1>1. CASE StartFirstLive(g)
  <2>1. PICK k \in DOMAIN pendingTasks[g] :
          /\ pendingTasks' = [pendingTasks EXCEPT ![g] = SubSeq(@, k + 1, Len(@))]
          /\ Start(g, pendingTasks[g][k])
    BY <1>1 DEF StartFirstLive
  <2>2. pendingTasks[g] \in TaskSeq
    BY DEF TypeOK, TaskSeq
  <2>3. pendingTasks[g][k] \in Work /\ k \in 1 .. Len(pendingTasks[g])
    BY <2>1, <2>2 DEF TaskSeq, Work
  <2>4. SubSeq(pendingTasks[g], k + 1, Len(pendingTasks[g])) \in TaskSeq
    BY <2>2, <2>3, SubSeqProperties DEF TaskSeq
  <2>5. pendingTasks' \in [Groups -> TaskSeq]
    BY <2>1, <2>4 DEF TypeOK, TaskSeq
  <2>. QED
    BY <2>1, <2>3, <2>5, StartType
<1>2. CASE pendingTasks' = [pendingTasks EXCEPT ![g] = <<>>] /\ Start(g, Messages)
  <2>1. pendingTasks' \in [Groups -> TaskSeq]
    BY <1>2 DEF TypeOK, TaskSeq
  <2>. QED
    BY <1>2, <2>1, StartType DEF Work
<1>. QED
  BY <1>1, <1>2 DEF StartPending

(* An operation of the environment uses one unit of its bound. *)
LEMMA BoundType ==
  ASSUME TypeOK, Request \/ Control
  PROVE  requests' \in 0 .. MaxRequests /\ controls' \in 0 .. MaxControls
BY ConstantsAssumption DEF TypeOK, Request, Control

LEMMA TypingInit == Init => TypeOK
<1>. SUFFICES ASSUME Init PROVE TypeOK
  OBVIOUS
<1>1. pendingTasks \in [Groups -> Seq(Tasks \cup {Recovery})]
  BY DEF Init
<1>2. pc \in [op : {"idle", "drainGroup", "drainWaiting"}, jids : SUBSET Groups]
  BY DEF Init, Quiet
<1>3. /\ running \in [Groups -> Work \cup {Idle}]
      /\ restartFor \in [Groups -> Groups \cup {NoGroup}]
      /\ retryCount \in [Groups -> 0 .. MaxRetries]
      /\ requests \in 0 .. MaxRequests /\ controls \in 0 .. MaxControls
  BY ConstantsAssumption DEF Init
<1>4. frames \subseteq [id : FrameIds, jid : Groups, host : BOOLEAN, work : Work]
  BY DEF Init
<1>5. /\ registered \in [Groups -> BOOLEAN] /\ pendingMsgs \in [Groups -> BOOLEAN]
      /\ retryTimer \in [Groups -> BOOLEAN] /\ drainWritten \in [Groups -> BOOLEAN]
      /\ injected \in [Groups -> BOOLEAN] /\ ipc \in [Groups -> BOOLEAN]
      /\ hostMode \in [Groups -> BOOLEAN] /\ shuttingDown \in BOOLEAN
  BY DEF Init
<1>6. /\ waiting \subseteq Groups /\ cancelled \subseteq Tasks
      /\ containerCount \in Int /\ hostCount \in Int
  BY DEF Init
<1>. QED
  BY <1>1, <1>2, <1>3, <1>4, <1>5, <1>6 DEF TypeOK

(* Each operation is given a step of the proof. *)
LEMMA TypingStep == TypeOK /\ [Next]_vars => TypeOK'
<1>. SUFFICES ASSUME TypeOK, [Next]_vars PROVE TypeOK'
  OBVIOUS
<1>. USE DEF lifecycle, pending, retry, runner, setting, bounds
<1>1. ASSUME NEW g \in Groups, EnqueueMessageCheck(g) PROVE TypeOK'
  <2>1. MessageCheck(g) /\ Request
    BY <1>1 DEF EnqueueMessageCheck
  <2>. QED
    BY <1>1, <2>1, MessageCheckType, BoundType DEF EnqueueMessageCheck, Request, TypeOK, TaskSeq
<1>2. ASSUME NEW g \in Groups, NEW t \in Tasks, EnqueueTask(g, t) PROVE TypeOK'
  <2>1. UNCHANGED <<retry, runner, controls, setting, pc>> /\ Request
    BY <1>2 DEF EnqueueTask, Request
  <2>2. CASE UNCHANGED <<lifecycle, pending>>
    BY <2>1, <2>2, BoundType DEF TypeOK
  <2>3. CASE /\ pendingTasks' = [pendingTasks EXCEPT ![g] = Append(@, t)]
             /\ waiting' = Enlist(g)
             /\ UNCHANGED <<lifecycle, pendingMsgs>>
    <3>1. Append(pendingTasks[g], t) \in Seq(Tasks \cup {Recovery})
      BY AppendProperties DEF TypeOK
    <3>. QED
      BY <2>1, <2>3, <3>1, BoundType DEF TypeOK, Enlist
  <2>4. CASE Start(g, t) /\ UNCHANGED pendingTasks
    BY <2>1, <2>4, StartType, BoundType DEF TypeOK, Work
  <2>. QED
    BY <1>2, <2>2, <2>3, <2>4 DEF EnqueueTask
<1>3. ASSUME NEW g \in Groups, RegisterProcess(g) PROVE TypeOK'
  BY <1>3 DEF RegisterProcess, TypeOK
<1>4. ASSUME NEW g \in Groups, NEW marked \in BOOLEAN, PipeMessage(g, marked) PROVE TypeOK'
  <2>1. PICK t \in ActiveSiblings(g) :
          /\ ipc' = [ipc EXCEPT ![KeyOf[t]] = TRUE]
          /\ injected' = [injected EXCEPT ![t] = @ \/ marked]
    BY <1>4 DEF PipeMessage
  <2>2. ipc' \in [Groups -> BOOLEAN]
    BY <2>1 DEF TypeOK
  <2>3. injected' \in [Groups -> BOOLEAN]
    <3>1. (injected[t] \/ marked) \in BOOLEAN
      OBVIOUS
    <3>. QED
      BY <2>1, <3>1, Zenon DEF TypeOK
  <2>. QED
    BY <1>4, <2>1, <2>2, <2>3, BoundType DEF PipeMessage, Request, TypeOK
<1>5. ASSUME NEW g \in Groups, RunnerReadsIpc(g) PROVE TypeOK'
  BY <1>5 DEF RunnerReadsIpc, TypeOK
<1>6. ASSUME NEW f \in frames, NEW ok \in BOOLEAN, RunEnd(f, ok) PROVE TypeOK'
  <2>. DEFINE g == f.jid
  <2>0. g \in Groups /\ f.host \in BOOLEAN /\ f.work \in Work
    BY DEF TypeOK
  <2>1. /\ retryCount' \in [Groups -> 0 .. MaxRetries]
        /\ retryTimer' \in [Groups -> BOOLEAN]
    <3>1. CASE UNCHANGED retry
      BY <3>1 DEF TypeOK
    <3>2. CASE Succeeds(g)
      BY <2>0, <3>2, ConstantsAssumption DEF TypeOK, Succeeds
    <3>3. CASE ScheduleRetry(g)
      <4>1. retryCount' \in [Groups -> 0 .. MaxRetries]
        BY <2>0, <3>3, ConstantsAssumption DEF TypeOK, ScheduleRetry, GivesUp
      <4>2. retryTimer' \in [Groups -> BOOLEAN]
        <5>1. retryTimer' = [retryTimer EXCEPT ![g] = ~GivesUp(g)]
          BY <3>3 DEF ScheduleRetry
        <5>2. (~GivesUp(g)) \in BOOLEAN
          OBVIOUS
        <5>. QED
          BY <5>1, <5>2, Zenon DEF TypeOK
      <4>. QED
        BY <2>0, <3>3, <4>1, <4>2 DEF TypeOK, ScheduleRetry
    <3>. QED
      BY <1>6, <3>1, <3>2, <3>3 DEF RunEnd
  <2>2. pendingTasks' \in [Groups -> Seq(Tasks \cup {Recovery})] /\ waiting' \subseteq Groups
    <3>1. Append(pendingTasks[g], Recovery) \in Seq(Tasks \cup {Recovery})
      BY <2>0, AppendProperties DEF TypeOK
    <3>. QED
      BY <1>6, <2>0, <3>1 DEF TypeOK, RunEnd, RecoverUnconsumedIpc, Enlist
  <2>3. pendingMsgs' \in [Groups -> BOOLEAN]
    <3>. DEFINE b ==
           \/ pendingMsgs[g]
           \/ Unread(g) /\ g \notin AgentGroups \cup RunGroups
           \/ f.work = Messages /\ injected[g]
    <3>0. RecoverUnconsumedIpc(g, f.work)
      BY <1>6 DEF RunEnd
    <3>1. pendingMsgs' = [pendingMsgs EXCEPT ![g] = b]
      BY <3>0 DEF RecoverUnconsumedIpc
    <3>2. b \in BOOLEAN
      OBVIOUS
    <3>. HIDE DEF b
    <3>. QED
      BY <3>1, <3>2, Zenon DEF TypeOK
  <2>4. injected' \in [Groups -> BOOLEAN]
    <3>1. injected' = [injected EXCEPT ![g] = @ /\ f.work # Messages]
      BY <1>6 DEF RunEnd
    <3>2. (injected[g] /\ f.work # Messages) \in BOOLEAN
      OBVIOUS
    <3>. QED
      BY <3>1, <3>2, Zenon DEF TypeOK
  <2>5. /\ running' \in [Groups -> Work \cup {Idle}]
        /\ frames' \subseteq [id : FrameIds, jid : Groups, host : BOOLEAN, work : Work]
        /\ containerCount' \in Int /\ hostCount' \in Int
    BY <1>6, <2>0 DEF TypeOK, RunEnd
  <2>6. /\ registered' \in [Groups -> BOOLEAN]
        /\ drainWritten' \in [Groups -> BOOLEAN]
    BY <1>6, <2>0 DEF TypeOK, RunEnd
  <2>7. pc' \in [op : {"idle", "drainGroup", "drainWaiting"}, jids : SUBSET Groups]
    BY <1>6, <2>0 DEF RunEnd
  <2>8. UNCHANGED <<ipc, setting, bounds>>
    BY <1>6 DEF RunEnd
  <2>. QED
    BY <2>1, <2>2, <2>3, <2>4, <2>5, <2>6, <2>7, <2>8 DEF TypeOK
<1>7. ASSUME NEW g \in Groups, RetryFires(g) PROVE TypeOK'
  BY <1>7, MessageCheckType DEF RetryFires, TypeOK, TaskSeq
<1>8. ASSUME NEW g \in Groups, DrainGroup(g) PROVE TypeOK'
  <2>1. UNCHANGED <<retry, registered, injected, ipc, setting, bounds>>
    BY <1>8 DEF DrainGroup
  <2>2. pc' \in [op : {"idle", "drainGroup", "drainWaiting"}, jids : SUBSET Groups]
    BY <1>8 DEF DrainGroup, ScanOf, Quiet, TypeOK
  <2>3. CASE UNCHANGED <<lifecycle, pending, drainWritten>>
    BY <2>1, <2>2, <2>3 DEF TypeOK
  <2>4. CASE /\ RequestDrain(g) \/ UNCHANGED drainWritten
             /\ waiting' = Enlist(g)
             /\ UNCHANGED <<lifecycle, pendingMsgs, pendingTasks>>
    <3>1. drainWritten' \in [Groups -> BOOLEAN]
      BY <2>4, Zenon DEF RequestDrain, Drainable, TypeOK
    <3>. QED
      BY <2>1, <2>2, <2>4, <3>1 DEF TypeOK, Enlist
  <2>5. CASE StartPending(g) /\ UNCHANGED drainWritten
    BY <2>1, <2>2, <2>5, StartPendingType DEF TypeOK, TaskSeq
  <2>6. CASE /\ pendingTasks' = [pendingTasks EXCEPT ![g] = <<>>]
             /\ waiting' = waiting \ {g}
             /\ UNCHANGED <<lifecycle, pendingMsgs, drainWritten>>
    BY <2>1, <2>2, <2>6 DEF TypeOK
  <2>. QED
    BY <1>8, <2>3, <2>4, <2>5, <2>6 DEF DrainGroup
<1>9. ASSUME NEW g \in Groups, DrainWaiting(g) PROVE TypeOK'
  <2>1. UNCHANGED <<retry, runner, setting, bounds>>
    BY <1>9 DEF DrainWaiting
  <2>2. pc' \in [op : {"idle", "drainGroup", "drainWaiting"}, jids : SUBSET Groups]
    BY <1>9 DEF DrainWaiting, ScanOf, Quiet, TypeOK
  <2>3. CASE UNCHANGED <<lifecycle, pending>>
    BY <2>1, <2>2, <2>3 DEF TypeOK
  <2>4. CASE StartPending(g)
    BY <2>1, <2>2, <2>4, StartPendingType DEF TypeOK, TaskSeq
  <2>5. CASE /\ pendingTasks' = [pendingTasks EXCEPT ![g] = <<>>]
             /\ waiting' = waiting \ {g}
             /\ UNCHANGED <<lifecycle, pendingMsgs>>
    BY <2>1, <2>2, <2>5 DEF TypeOK
  <2>. QED
    BY <1>9, <2>3, <2>4, <2>5 DEF DrainWaiting
<1>10. ASSUME NEW g \in Groups, RequestGracefulRestart(g) PROVE TypeOK'
  BY <1>10, BoundType DEF RequestGracefulRestart, Control, TypeOK
<1>20. ASSUME NEW g \in Groups, InterruptQuery(g) PROVE TypeOK'
  <2>1. PICK t \in Groups :
          /\ retryCount' = [retryCount EXCEPT ![t] = 0]
          /\ retryTimer' = [retryTimer EXCEPT ![t] = FALSE]
    BY <1>20 DEF InterruptQuery, ActiveSiblings
  <2>2. retryCount' \in [Groups -> 0 .. MaxRetries] /\ retryTimer' \in [Groups -> BOOLEAN]
    BY <2>1, ConstantsAssumption DEF TypeOK
  <2>. QED
    BY <1>20, <2>2, BoundType DEF InterruptQuery, Control, TypeOK
<1>11. ASSUME NEW g \in Groups, StopGroup(g) PROVE TypeOK'
  <2>1. PICK t \in Groups :
          /\ pendingMsgs' = [h \in Groups |-> pendingMsgs[h] /\ h \notin {g, t}]
          /\ pendingTasks' = [h \in Groups |-> IF h \in {g, t} THEN <<>> ELSE pendingTasks[h]]
          /\ retryCount' = [h \in Groups |-> IF h \in {g, t} THEN 0 ELSE retryCount[h]]
          /\ retryTimer' = [h \in Groups |-> retryTimer[h] /\ h \notin {g, t}]
          /\ waiting' = waiting \ {g, t}
    BY <1>11 DEF StopGroup
  <2>2. pendingMsgs' \in [Groups -> BOOLEAN] /\ retryTimer' \in [Groups -> BOOLEAN]
    BY <2>1, Zenon DEF TypeOK
  <2>3. pendingTasks' \in [Groups -> Seq(Tasks \cup {Recovery})]
    BY <2>1 DEF TypeOK
  <2>4. retryCount' \in [Groups -> 0 .. MaxRetries]
    BY <2>1, ConstantsAssumption DEF TypeOK
  <2>. QED
    BY <1>11, <2>1, <2>2, <2>3, <2>4, BoundType DEF StopGroup, Control, TypeOK
<1>12. ASSUME NEW g \in Groups, NEW t \in Tasks, CancelTaskRun(g, t) PROVE TypeOK'
  <2>. DEFINE rest(i) == SubSeq(pendingTasks[g], 1, i - 1)
                           \o SubSeq(pendingTasks[g], i + 1, Len(pendingTasks[g]))
  <2>1. PICK i \in DOMAIN pendingTasks[g] :
          /\ pendingTasks' = [pendingTasks EXCEPT ![g] = rest(i)]
          /\ waiting' \subseteq waiting
    BY <1>12 DEF CancelTaskRun
  <2>2. pendingTasks[g] \in TaskSeq /\ i \in 1 .. Len(pendingTasks[g])
    BY DEF TypeOK, TaskSeq
  <2>3. rest(i) \in TaskSeq
    <3>1. SubSeq(pendingTasks[g], 1, i - 1) \in TaskSeq
      BY <2>2, SubSeqProperties DEF TaskSeq
    <3>2. SubSeq(pendingTasks[g], i + 1, Len(pendingTasks[g])) \in TaskSeq
      BY <2>2, SubSeqProperties DEF TaskSeq
    <3>. QED
      BY <3>1, <3>2, ConcatProperties DEF TaskSeq
  <2>. HIDE DEF rest
  <2>4. pendingTasks' \in [Groups -> Seq(Tasks \cup {Recovery})] /\ waiting' \subseteq Groups
    BY <2>1, <2>3 DEF TypeOK, TaskSeq
  <2>. QED
    BY <1>12, <2>4, BoundType DEF CancelTaskRun, Control, TypeOK
<1>13. ASSUME NEW g \in Groups, RestartBegin(g) PROVE TypeOK'
  BY <1>13, BoundType DEF RestartBegin, Control, TypeOK
<1>14. ASSUME NEW t \in Groups, RestartFinish(t) PROVE TypeOK'
  <2>1. restartFor[t] \in Groups /\ MessageCheck(restartFor[t])
    BY <1>14 DEF RestartFinish, TypeOK
  <2>. QED
    BY <1>14, <2>1, MessageCheckType DEF RestartFinish, TypeOK, TaskSeq
<1>15. ASSUME NEW t \in Groups, RestartFail(t) PROVE TypeOK'
  BY <1>15 DEF RestartFail, TypeOK
<1>16. ASSUME Shutdown PROVE TypeOK'
  BY <1>16, BoundType, ConstantsAssumption DEF Shutdown, Control, TypeOK
<1>17. ASSUME NEW g \in Groups, SetExecutionMode(g) PROVE TypeOK'
  BY <1>17, BoundType DEF SetExecutionMode, Control, TypeOK
<1>18. ASSUME NEW t \in Tasks, CancelInDb(t) PROVE TypeOK'
  BY <1>18, BoundType DEF CancelInDb, Control, TypeOK
<1>19. CASE UNCHANGED vars
  BY <1>19 DEF vars, TypeOK
<1>. QED
  BY <1>1, <1>2, <1>3, <1>4, <1>5, <1>6, <1>7, <1>8, <1>9, <1>10, <1>11, <1>12,
     <1>13, <1>14, <1>15, <1>16, <1>17, <1>18, <1>19, <1>20
     DEF Next, Drain, RunnerStep, RequestStep, ControlStep

(* Every reachable state has the types. *)
THEOREM Typing == Spec => []TypeOK
BY TypingInit, TypingStep, PTL DEF Spec

-----------------------------------------------------------------------------
(* Slots and flags *)

(* drainWaiting is only reached while the server is open. *)
ScanOpen == pc.op = "drainWaiting" => ~shuttingDown

Starts(g, w) == ~shuttingDown /\ Passes(g) /\ HasCapacity(g) /\ Start(g, w)

Ends(f) ==
  /\ frames' = frames \ {f}
  /\ running' = [running EXCEPT ![f.jid] = Idle]
  /\ IF f.host
       THEN hostCount' = hostCount - 1 /\ UNCHANGED containerCount
       ELSE containerCount' = containerCount - 1 /\ UNCHANGED hostCount

LifecycleStep ==
  \/ UNCHANGED lifecycle
  \/ UNCHANGED shuttingDown /\ \E g \in Groups, w \in Work : Starts(g, w)
  \/ UNCHANGED shuttingDown /\ \E f \in frames : Ends(f)

LEMMA FreeKeyPasses ==
  ASSUME NEW g \in Groups, ~KeyBusy(g)
  PROVE  Passes(g)
BY DEF KeyBusy, Passes

LEMMA MessageCheckLifecycle ==
  ASSUME NEW g \in Groups, MessageCheck(g), UNCHANGED shuttingDown
  PROVE  LifecycleStep
<1>1. CASE UNCHANGED lifecycle
  BY <1>1 DEF LifecycleStep
<1>2. CASE ~Refuses /\ ~KeyBusy(g) /\ HasCapacity(g) /\ Start(g, Messages)
  BY <1>2, FreeKeyPasses DEF LifecycleStep, Starts, Work, Refuses
<1>. QED
  BY <1>1, <1>2 DEF MessageCheck

LEMMA StartPendingLifecycle ==
  ASSUME TypeOK, NEW g \in Groups, StartPending(g),
         ~shuttingDown, Passes(g), HasCapacity(g), UNCHANGED shuttingDown
  PROVE  LifecycleStep
<1>1. CASE StartFirstLive(g)
  <2>1. PICK k \in DOMAIN pendingTasks[g] : Start(g, pendingTasks[g][k])
    BY <1>1 DEF StartFirstLive
  <2>2. pendingTasks[g] \in Seq(Tasks \cup {Recovery})
    BY DEF TypeOK
  <2>3. pendingTasks[g][k] \in Work
    BY <2>1, <2>2 DEF Work
  <2>. QED
    BY <2>1, <2>3 DEF LifecycleStep, Starts
<1>2. CASE Start(g, Messages)
  BY <1>2 DEF LifecycleStep, Starts, Work
<1>. QED
  BY <1>1, <1>2 DEF StartPending

(* Whatever a step is for, it starts a run under the rules, ends one, or
   leaves the runs alone. *)
LEMMA Lifecycle ==
  ASSUME TypeOK, ScanOpen, [Next]_vars
  PROVE  LifecycleStep /\ ScanOpen' /\ (shuttingDown => shuttingDown')
<1>. USE DEF setting
<1>1. ASSUME NEW g \in Groups, EnqueueMessageCheck(g) \/ RetryFires(g)
      PROVE  LifecycleStep
  BY <1>1, MessageCheckLifecycle DEF EnqueueMessageCheck, RetryFires, Request
<1>2. ASSUME NEW t \in Groups, RestartFinish(t) PROVE LifecycleStep
  <2>1. restartFor[t] \in Groups
    BY <1>2 DEF RestartFinish, TypeOK
  <2>. QED
    BY <1>2, <2>1, MessageCheckLifecycle DEF RestartFinish
<1>3. ASSUME NEW g \in Groups, NEW t \in Tasks, EnqueueTask(g, t) PROVE LifecycleStep
  <2>1. CASE UNCHANGED lifecycle
    BY <2>1 DEF LifecycleStep
  <2>2. CASE ~Refuses /\ ~KeyBusy(g) /\ HasCapacity(g) /\ Start(g, t)
    BY <1>3, <2>2, FreeKeyPasses DEF LifecycleStep, Starts, Work, Refuses, EnqueueTask, Request
  <2>. QED
    BY <1>3, <2>1, <2>2 DEF EnqueueTask
<1>4. ASSUME NEW f \in frames, NEW ok \in BOOLEAN, RunEnd(f, ok) PROVE LifecycleStep
  BY <1>4 DEF RunEnd, LifecycleStep, Ends, HeldHostSlot
<1>5. ASSUME NEW g \in Groups, DrainGroup(g) PROVE LifecycleStep
  <2>1. CASE UNCHANGED lifecycle
    BY <2>1 DEF LifecycleStep
  <2>2. CASE ~Refuses /\ ~KeyBusy(g) /\ HasCapacity(g) /\ StartPending(g)
    BY <1>5, <2>2, FreeKeyPasses, StartPendingLifecycle DEF DrainGroup, Refuses
  <2>. QED
    BY <1>5, <2>1, <2>2 DEF DrainGroup
<1>6. ASSUME NEW g \in Groups, DrainWaiting(g) PROVE LifecycleStep
  <2>1. CASE UNCHANGED lifecycle
    BY <2>1 DEF LifecycleStep
  <2>2. CASE Passes(g) /\ HasCapacity(g) /\ StartPending(g)
    BY <1>6, <2>2, StartPendingLifecycle DEF DrainWaiting, ScanOpen
  <2>. QED
    BY <1>6, <2>1, <2>2 DEF DrainWaiting
<1>7. ASSUME NEW g \in Groups,
             \/ RegisterProcess(g) \/ RunnerReadsIpc(g) \/ RequestGracefulRestart(g)
             \/ InterruptQuery(g) \/ StopGroup(g) \/ RestartBegin(g) \/ RestartFail(g)
             \/ SetExecutionMode(g) \/ \E marked \in BOOLEAN : PipeMessage(g, marked)
             \/ \E t \in Tasks : CancelTaskRun(g, t)
      PROVE  UNCHANGED lifecycle
  BY <1>7 DEF RegisterProcess, RunnerReadsIpc, RequestGracefulRestart, InterruptQuery, StopGroup,
     RestartBegin, RestartFail, SetExecutionMode, PipeMessage, CancelTaskRun
<1>8. ASSUME Shutdown \/ \E t \in Tasks : CancelInDb(t) PROVE UNCHANGED lifecycle
  BY <1>8 DEF Shutdown, CancelInDb
<1>9. CASE UNCHANGED vars
  BY <1>9 DEF vars, LifecycleStep, ScanOpen
<1>10. LifecycleStep
  BY <1>1, <1>2, <1>3, <1>4, <1>5, <1>6, <1>7, <1>8, <1>9
     DEF Next, Drain, RunnerStep, RequestStep, ControlStep, LifecycleStep
<1>11. ScanOpen' /\ (shuttingDown => shuttingDown')
  <2>1. CASE \E g \in Groups : DrainGroup(g)
    BY <2>1 DEF DrainGroup, ScanOpen, ScanOf, Quiet, Refuses
  <2>2. CASE \E g \in Groups : DrainWaiting(g)
    BY <2>2 DEF DrainWaiting, ScanOpen
  <2>3. CASE \E f \in frames, ok \in BOOLEAN : RunEnd(f, ok)
    BY <2>3 DEF RunEnd, ScanOpen
  <2>4. CASE \E g \in Groups : RegisterProcess(g) \/ RunnerReadsIpc(g) \/ RetryFires(g)
    BY <2>4 DEF RegisterProcess, RunnerReadsIpc, RetryFires, ScanOpen
  <2>5. CASE RequestStep
    <3>1. pc = Quiet /\ UNCHANGED <<pc, shuttingDown>>
      BY <2>5 DEF RequestStep, EnqueueMessageCheck, EnqueueTask, PipeMessage, Request
    <3>. QED
      BY <3>1 DEF ScanOpen
  <2>6. CASE ControlStep
    <3>1. pc = Quiet /\ UNCHANGED pc
      BY <2>6 DEF ControlStep, RequestGracefulRestart, InterruptQuery, StopGroup, RestartBegin,
         RestartFinish, RestartFail, SetExecutionMode, CancelTaskRun, CancelInDb, Shutdown, Control
    <3>2. ~(pc'.op = "drainWaiting")
      BY <3>1 DEF Quiet
    <3>3. shuttingDown => shuttingDown'
      BY <2>6 DEF ControlStep, RequestGracefulRestart, InterruptQuery, StopGroup, RestartBegin,
         RestartFinish, RestartFail, SetExecutionMode, CancelTaskRun, CancelInDb, Shutdown, Control
    <3>. QED
      BY <3>2, <3>3 DEF ScanOpen
  <2>. QED
    BY <1>9, <2>1, <2>2, <2>3, <2>4, <2>5, <2>6 DEF Next, Drain, RunnerStep, vars, ScanOpen
<1>. QED
  BY <1>10, <1>11

(* The invariant that carries the counters and the flags. *)
SlotInv ==
  /\ TypeOK
  /\ ScanOpen
  /\ IsFiniteSet(frames)
  /\ SlotAccounting
  /\ OneFlaggedRunner

LEMMA HostSplit ==
  ASSUME IsFiniteSet(frames), NEW x
  PROVE  /\ IsFiniteSet({f \in frames : f.host}) /\ IsFiniteSet({f \in frames : ~f.host})
         /\ Cardinality({f \in frames : f.host}) \in Nat
         /\ Cardinality({f \in frames : ~f.host}) \in Nat
<1>1. {f \in frames : f.host} \in SUBSET frames /\ {f \in frames : ~f.host} \in SUBSET frames
  OBVIOUS
<1>. QED
  BY <1>1, FS_Subset, FS_CardinalityType

(* A start adds one run to the count of its kind, below its limit. *)
LEMMA StartAccounting ==
  ASSUME SlotInv, NEW g \in Groups, NEW w \in Work, Starts(g, w)
  PROVE  SlotAccounting' /\ IsFiniteSet(frames')
<1>. DEFINE H == {f \in frames : f.host}
            C == {f \in frames : ~f.host}
<1>0. /\ IsFiniteSet(frames) /\ IsFiniteSet(H) /\ IsFiniteSet(C)
      /\ containerCount = Cardinality(C) /\ hostCount = Cardinality(H)
      /\ containerCount <= MaxContainers /\ hostCount <= MaxHosts
      /\ containerCount \in Int /\ hostCount \in Int
      /\ MaxContainers \in Nat /\ MaxHosts \in Nat
  BY HostSplit, ConstantsAssumption DEF SlotInv, SlotAccounting, TypeOK
<1>1. PICK i \in FrameIds :
        /\ \A f \in frames : f.id # i
        /\ frames' = frames \cup {[id |-> i, jid |-> g, host |-> hostMode[g], work |-> w]}
  BY DEF Starts, Start
<1>. DEFINE new == [id |-> i, jid |-> g, host |-> hostMode[g], work |-> w]
<1>2. new \notin frames /\ new.host = hostMode[g]
  BY <1>1
<1>3. IsFiniteSet(frames')
  BY <1>0, <1>1, FS_AddElement
<1>4. CASE hostMode[g]
  <2>1. {f \in frames' : f.host} = H \cup {new} /\ {f \in frames' : ~f.host} = C /\ new \notin H
    BY <1>1, <1>2, <1>4
  <2>2. Cardinality(H \cup {new}) = Cardinality(H) + 1
    <3>. HIDE DEF H, C, new
    <3>. QED
      BY <1>0, <2>1, FS_AddElement
  <2>3. Cardinality({f \in frames' : f.host}) = Cardinality(H) + 1
    BY <2>1, <2>2
  <2>4. Cardinality({f \in frames' : ~f.host}) = Cardinality(C)
    BY <2>1
  <2>5. hostCount' = hostCount + 1 /\ containerCount' = containerCount /\ hostCount < MaxHosts
    BY <1>4 DEF Starts, Start, HasCapacity
  <2>. HIDE DEF H, C, new
  <2>. QED
    BY <1>0, <1>3, <2>3, <2>4, <2>5 DEF SlotAccounting
<1>5. CASE ~hostMode[g]
  <2>1. {f \in frames' : ~f.host} = C \cup {new} /\ {f \in frames' : f.host} = H /\ new \notin C
    BY <1>1, <1>2, <1>5
  <2>2. Cardinality(C \cup {new}) = Cardinality(C) + 1
    <3>. HIDE DEF H, C, new
    <3>. QED
      BY <1>0, <2>1, FS_AddElement
  <2>3. Cardinality({f \in frames' : ~f.host}) = Cardinality(C) + 1
    BY <2>1, <2>2
  <2>4. Cardinality({f \in frames' : f.host}) = Cardinality(H)
    BY <2>1
  <2>5. containerCount' = containerCount + 1 /\ hostCount' = hostCount /\ containerCount < MaxContainers
    BY <1>5 DEF Starts, Start, HasCapacity
  <2>. HIDE DEF H, C, new
  <2>. QED
    BY <1>0, <1>3, <2>3, <2>4, <2>5 DEF SlotAccounting
<1>. QED
  BY <1>4, <1>5

(* An end takes one run off the count it was added to. *)
LEMMA EndAccounting ==
  ASSUME SlotInv, NEW f \in frames, Ends(f)
  PROVE  SlotAccounting' /\ IsFiniteSet(frames')
<1>. DEFINE H == {e \in frames : e.host}
            C == {e \in frames : ~e.host}
<1>0. /\ IsFiniteSet(H) /\ IsFiniteSet(C)
      /\ Cardinality(H) \in Nat /\ Cardinality(C) \in Nat
      /\ containerCount = Cardinality(C) /\ hostCount = Cardinality(H)
      /\ containerCount <= MaxContainers /\ hostCount <= MaxHosts
      /\ MaxContainers \in Nat /\ MaxHosts \in Nat
  BY HostSplit, ConstantsAssumption DEF SlotInv, SlotAccounting
<1>3. frames' = frames \ {f} /\ IsFiniteSet(frames')
  BY FS_RemoveElement DEF SlotInv, Ends
<1>1. CASE f.host
  <2>1. {e \in frames' : e.host} = H \ {f} /\ {e \in frames' : ~e.host} = C /\ f \in H
    BY <1>3, <1>1
  <2>2. Cardinality(H \ {f}) = Cardinality(H) - 1
    <3>. HIDE DEF H, C
    <3>. QED
      BY <1>0, <2>1, FS_RemoveElement
  <2>3. Cardinality({e \in frames' : e.host}) = Cardinality(H) - 1
    BY <2>1, <2>2
  <2>4. Cardinality({e \in frames' : ~e.host}) = Cardinality(C)
    BY <2>1
  <2>5. hostCount' = hostCount - 1 /\ containerCount' = containerCount
    BY <1>1 DEF Ends
  <2>. HIDE DEF H, C
  <2>. QED
    BY <1>0, <1>3, <2>3, <2>4, <2>5 DEF SlotAccounting
<1>2. CASE ~f.host
  <2>1. {e \in frames' : ~e.host} = C \ {f} /\ {e \in frames' : e.host} = H /\ f \in C
    BY <1>3, <1>2
  <2>2. Cardinality(C \ {f}) = Cardinality(C) - 1
    <3>. HIDE DEF H, C
    <3>. QED
      BY <1>0, <2>1, FS_RemoveElement
  <2>3. Cardinality({e \in frames' : ~e.host}) = Cardinality(C) - 1
    BY <2>1, <2>2
  <2>4. Cardinality({e \in frames' : e.host}) = Cardinality(H)
    BY <2>1
  <2>5. containerCount' = containerCount - 1 /\ hostCount' = hostCount
    BY <1>2 DEF Ends
  <2>. HIDE DEF H, C
  <2>. QED
    BY <1>0, <1>3, <2>3, <2>4, <2>5 DEF SlotAccounting
<1>. QED
  BY <1>1, <1>2

LEMMA StartFlags ==
  ASSUME SlotInv, NEW g \in Groups, NEW w \in Work, Starts(g, w)
  PROVE  OneFlaggedRunner'
<1>1. running' = [running EXCEPT ![g] = w] /\ running \in [Groups -> Work \cup {Idle}]
  BY DEF Starts, Start, SlotInv, TypeOK
<1>2. \A h \in Groups : Active(h) /\ KeyOf[h] = KeyOf[g] => h = g
  BY DEF Starts, Passes, ActiveSiblings
<1>3. \A h \in Groups : h # g => (Active(h)' <=> Active(h))
  BY <1>1 DEF Active
<1>4. PICK i \in FrameIds :
        frames' = frames \cup {[id |-> i, jid |-> g, host |-> hostMode[g], work |-> w]}
  BY DEF Starts, Start
<1>. DEFINE n == [id |-> i, jid |-> g, host |-> hostMode[g], work |-> w]
<1>5. frames \subseteq frames' /\ n \in frames' /\ n.jid = g
  BY <1>4
<1>. QED
  BY <1>2, <1>3, <1>5 DEF SlotInv, OneFlaggedRunner

LEMMA EndFlags ==
  ASSUME SlotInv, NEW f \in frames, Ends(f)
  PROVE  OneFlaggedRunner'
<1>1. /\ running' = [running EXCEPT ![f.jid] = Idle] /\ running \in [Groups -> Work \cup {Idle}]
      /\ frames' = frames \ {f} /\ f.jid \in Groups
  BY DEF Ends, SlotInv, TypeOK
<1>2. \A h \in Groups : Active(h)' => Active(h) /\ h # f.jid
  BY <1>1 DEF Active
<1>. QED
  BY <1>1, <1>2 DEF SlotInv, OneFlaggedRunner

LEMMA SlotInvStep == SlotInv /\ [Next]_vars => SlotInv'
<1>. SUFFICES ASSUME SlotInv, [Next]_vars PROVE SlotInv'
  OBVIOUS
<1>1. TypeOK' /\ ScanOpen' /\ LifecycleStep
  BY TypingStep, Lifecycle DEF SlotInv
<1>2. CASE UNCHANGED lifecycle
  BY <1>1, <1>2 DEF SlotInv, lifecycle, SlotAccounting, OneFlaggedRunner, Active
<1>3. CASE \E g \in Groups, w \in Work : Starts(g, w)
  BY <1>1, <1>3, StartAccounting, StartFlags DEF SlotInv
<1>4. CASE \E f \in frames : Ends(f)
  BY <1>1, <1>4, EndAccounting, EndFlags DEF SlotInv
<1>. QED
  BY <1>1, <1>2, <1>3, <1>4 DEF LifecycleStep

LEMMA SlotInvInit == Init => SlotInv
<1>. SUFFICES ASSUME Init PROVE SlotInv
  OBVIOUS
<1>1. TypeOK
  BY TypingInit
<1>2. frames = {} /\ containerCount = 0 /\ hostCount = 0
  BY DEF Init
<1>3. {f \in frames : f.host} = {} /\ {f \in frames : ~f.host} = {}
  BY <1>2
<1>4. SlotAccounting
  BY <1>2, <1>3, FS_EmptySet, ConstantsAssumption DEF SlotAccounting
<1>5. IsFiniteSet(frames)
  BY <1>2, FS_EmptySet
<1>6. OneFlaggedRunner /\ ScanOpen
  BY DEF Init, OneFlaggedRunner, Active, ScanOpen, Quiet
<1>. QED
  BY <1>1, <1>4, <1>5, <1>6 DEF SlotInv

(* The counters are exact and within the limits in every reachable state. *)
THEOREM SlotsAreCounted == Spec => []SlotAccounting
<1>1. SlotInv => SlotAccounting
  BY DEF SlotInv
<1>. QED
  BY <1>1, SlotInvInit, SlotInvStep, PTL DEF Spec

(* No two jids of a key are flagged active. *)
THEOREM FlagsAreExclusive == Spec => []OneFlaggedRunner
<1>1. SlotInv => OneFlaggedRunner
  BY DEF SlotInv
<1>. QED
  BY <1>1, SlotInvInit, SlotInvStep, PTL DEF Spec

-----------------------------------------------------------------------------
(* Pending work *)

Due(g) == pc.op = "drainGroup" /\ g \in pc.jids

(* A start serves its own group and leaves the others' work where it is. *)
LEMMA StartKeeps ==
  ASSUME TypeOK, NEW g \in Groups, NEW w \in Work, Start(g, w), NEW h \in Groups
  PROVE  /\ h = g => Active(h)'
         /\ h # g => /\ Active(h) => Active(h)'
                     /\ pendingMsgs'[h] => pendingMsgs[h]
                     /\ h \in waiting => h \in waiting'
<1>1. /\ running \in [Groups -> Work \cup {Idle}] /\ running' = [running EXCEPT ![g] = w]
      /\ waiting' = waiting \ {g}
      /\ pendingMsgs' = [pendingMsgs EXCEPT ![g] = @ /\ w # Messages]
      /\ pendingMsgs \in [Groups -> BOOLEAN]
      /\ w # Idle
  BY ConstantsAssumption DEF Start, TypeOK
<1>2. h # g => pendingMsgs'[h] = pendingMsgs[h] /\ running'[h] = running[h]
  BY <1>1
<1>3. h = g => running'[h] = w
  BY <1>1
<1>. QED
  BY <1>1, <1>2, <1>3 DEF Active

(* Keeps(h): the step adds no work to h and takes no claim on it away. *)
Keeps(h) ==
  /\ Active(h) => Active(h)'
  /\ pendingMsgs'[h] => pendingMsgs[h]
  /\ pendingTasks'[h] = pendingTasks[h]
  /\ h \in waiting => h \in waiting'
  /\ retryTimer[h] => retryTimer'[h]

LEMMA KeptIsTracked ==
  ASSUME NEW h \in Groups, Keeps(h), HasPending(h) => Tracked(h), HasPending(h)'
  PROVE  Tracked(h)'
BY DEF Keeps, HasPending, Tracked

(* A check for messages starts the group, enlists it, or is refused. *)
LEMMA MessageCheckTracks ==
  ASSUME TypeOK, NEW g \in Groups, MessageCheck(g), ~shuttingDown, NEW h \in Groups,
         HasPending(h) => Tracked(h) \/ h = g, HasPending(h)',
         h # g => (retryTimer[h] => retryTimer'[h])
  PROVE  Tracked(h)'
<1>1. CASE h = g
  <2>1. CASE waiting' = Enlist(g)
    BY <1>1, <2>1 DEF Enlist, Tracked
  <2>2. CASE Start(g, Messages)
    BY <1>1, <2>2, StartKeeps DEF Tracked, Work
  <2>. QED
    BY <2>1, <2>2 DEF MessageCheck, Refuses
<1>2. CASE h # g
  <2>1. CASE waiting' = Enlist(g) /\ pendingMsgs' = [pendingMsgs EXCEPT ![g] = TRUE]
             /\ UNCHANGED <<lifecycle, pendingTasks>>
    <3>1. pendingMsgs'[h] = pendingMsgs[h]
      BY <1>2, <2>1 DEF TypeOK
    <3>. QED
      BY <1>2, <2>1, <3>1, KeptIsTracked DEF Keeps, Enlist, lifecycle, Active
  <2>2. CASE Start(g, Messages) /\ UNCHANGED pendingTasks
    BY <1>2, <2>2, StartKeeps, KeptIsTracked DEF Keeps, Work
  <2>. QED
    BY <2>1, <2>2 DEF MessageCheck, Refuses
<1>. QED
  BY <1>1, <1>2

(* So does the start of what a group has pending. *)
LEMMA StartPendingTracks ==
  ASSUME TypeOK, NEW g \in Groups, StartPending(g), UNCHANGED retryTimer, NEW h \in Groups,
         HasPending(h) => Tracked(h) \/ h = g, HasPending(h)'
  PROVE  Tracked(h)'
<1>1. PICK w \in Work : Start(g, w)
  <2>1. CASE StartFirstLive(g)
    <3>1. PICK k \in DOMAIN pendingTasks[g] : Start(g, pendingTasks[g][k])
      BY <2>1 DEF StartFirstLive
    <3>2. pendingTasks[g] \in Seq(Tasks \cup {Recovery})
      BY DEF TypeOK
    <3>3. pendingTasks[g][k] \in Work
      BY <3>1, <3>2 DEF Work
    <3>. QED
      BY <3>1, <3>3
  <2>. QED
    BY <2>1 DEF StartPending, Work
<1>2. h # g => pendingTasks'[h] = pendingTasks[h]
  <2>1. \E q : pendingTasks' = [pendingTasks EXCEPT ![g] = q]
    BY DEF StartPending, StartFirstLive
  <2>. QED
    BY <2>1 DEF TypeOK
<1>3. CASE h = g
  BY <1>1, <1>3, StartKeeps DEF Tracked
<1>4. CASE h # g
  BY <1>1, <1>2, <1>4, StartKeeps, KeptIsTracked DEF Keeps
<1>. QED
  BY <1>3, <1>4

(* What is pending and live in a group without a due retry is tracked by its
   timer once its tasks are gone. *)
LEMMA EmptiedTracks ==
  ASSUME TypeOK, NEW g \in Groups, ~MessagesDue(g),
         pendingTasks' = [pendingTasks EXCEPT ![g] = <<>>], waiting' = waiting \ {g},
         UNCHANGED <<lifecycle, pendingMsgs, retryTimer>>, NEW h \in Groups,
         HasPending(h) => Tracked(h) \/ h = g, HasPending(h)'
  PROVE  Tracked(h)'
<1>1. pendingTasks'[g] = <<>> /\ (h # g => pendingTasks'[h] = pendingTasks[h])
  BY DEF TypeOK
<1>2. CASE h = g
  BY <1>1, <1>2 DEF HasPending, Tracked, MessagesDue
<1>3. CASE h # g
  BY <1>1, <1>3, KeptIsTracked DEF Keeps, lifecycle, Active
<1>. QED
  BY <1>2, <1>3

LEMMA PendingStep == SlotInv /\ PendingTracked /\ [Next]_vars => PendingTracked'
<1>. SUFFICES ASSUME SlotInv, PendingTracked, [Next]_vars, ~shuttingDown',
                     NEW h \in Groups, HasPending(h)'
              PROVE  Tracked(h)' \/ Due(h)'
  BY DEF PendingTracked, Due
<1>. TypeOK /\ ScanOpen
  BY DEF SlotInv
<1>0. ~shuttingDown
  BY Lifecycle
<1>. DEFINE Safe == HasPending(h) => Tracked(h)
<1>1. HasPending(h) => Tracked(h) \/ Due(h)
  BY <1>0 DEF PendingTracked, Due
<1>2. pc = Quiet => Safe
  BY <1>1 DEF Quiet, Due
<1>3. ASSUME NEW g \in Groups, EnqueueMessageCheck(g) PROVE Tracked(h)'
  <2>1. Safe /\ UNCHANGED retryTimer /\ MessageCheck(g)
    BY <1>3, <1>2 DEF EnqueueMessageCheck, Request, retry
  <2>. QED
    BY <1>0, <2>1, MessageCheckTracks
<1>4. ASSUME NEW g \in Groups, RetryFires(g) PROVE Tracked(h)'
  <2>1. Safe /\ MessageCheck(g) /\ retryTimer' = [retryTimer EXCEPT ![g] = FALSE]
    BY <1>4, <1>2 DEF RetryFires
  <2>2. h # g => (retryTimer[h] => retryTimer'[h])
    BY <2>1 DEF TypeOK
  <2>. QED
    BY <1>0, <2>1, <2>2, MessageCheckTracks
<1>5. ASSUME NEW t \in Groups, RestartFinish(t) PROVE Tracked(h)'
  <2>1. Safe /\ UNCHANGED retryTimer /\ MessageCheck(restartFor[t]) /\ restartFor[t] \in Groups
    BY <1>5, <1>2 DEF RestartFinish, retry, TypeOK
  <2>. QED
    BY <1>0, <2>1, MessageCheckTracks
<1>6. ASSUME NEW g \in Groups, NEW t \in Tasks, EnqueueTask(g, t) PROVE Tracked(h)'
  <2>1. Safe /\ UNCHANGED retryTimer
    BY <1>6, <1>2 DEF EnqueueTask, Request, retry
  <2>2. CASE UNCHANGED <<lifecycle, pending>>
    BY <2>1, <2>2, KeptIsTracked DEF Keeps, lifecycle, pending, Active
  <2>3. CASE /\ pendingTasks' = [pendingTasks EXCEPT ![g] = Append(@, t)]
             /\ waiting' = Enlist(g)
             /\ UNCHANGED <<lifecycle, pendingMsgs>>
    <3>1. h # g => pendingTasks'[h] = pendingTasks[h]
      BY <2>3 DEF TypeOK
    <3>2. h = g => h \in waiting'
      BY <2>3 DEF Enlist
    <3>3. h # g => Keeps(h)
      BY <2>1, <2>3, <3>1 DEF Keeps, lifecycle, Active, Enlist
    <3>. QED
      BY <2>1, <3>2, <3>3, KeptIsTracked DEF Tracked
  <2>4. CASE Start(g, t) /\ UNCHANGED pendingTasks
    <3>1. CASE h = g
      BY <2>4, <3>1, StartKeeps DEF Tracked, Work
    <3>2. CASE h # g
      BY <2>1, <2>4, <3>2, StartKeeps, KeptIsTracked DEF Keeps, Work
    <3>. QED
      BY <3>1, <3>2
  <2>. QED
    BY <1>6, <2>2, <2>3, <2>4 DEF EnqueueTask
<1>7. ASSUME NEW f \in frames, NEW ok \in BOOLEAN, RunEnd(f, ok) PROVE Tracked(h)' \/ Due(h)'
  <2>1. CASE h = f.jid
    BY <1>7, <2>1 DEF RunEnd, Due
  <2>2. CASE h # f.jid
    <3>0. f.jid \in Groups
      BY DEF TypeOK
    <3>1. Active(h) => Active(h)'
      BY <1>7, <2>2 DEF RunEnd, TypeOK, Active
    <3>2. retryTimer[h] => retryTimer'[h]
      BY <1>7, <2>2, <3>0 DEF RunEnd, retry, Succeeds, ScheduleRetry, TypeOK
    <3>3. pendingTasks'[h] = pendingTasks[h] /\ (h \in waiting => h \in waiting')
      BY <1>7, <2>2 DEF RunEnd, RecoverUnconsumedIpc, Enlist, TypeOK
    <3>4. pendingMsgs'[h] = pendingMsgs[h]
      BY <1>7, <2>2 DEF RunEnd, RecoverUnconsumedIpc, TypeOK
    <3>5. Safe
      BY <1>7, <1>2 DEF RunEnd
    <3>. QED
      BY <3>1, <3>2, <3>3, <3>4, <3>5, KeptIsTracked DEF Keeps
  <2>. QED
    BY <2>1, <2>2
<1>8. ASSUME NEW g \in Groups, DrainGroup(g) PROVE Tracked(h)'
  <2>1. UNCHANGED retryTimer /\ (HasPending(h) => Tracked(h) \/ h = g)
    BY <1>1, <1>8 DEF DrainGroup, Due, retry
  <2>2. CASE waiting' = Enlist(g) /\ UNCHANGED <<lifecycle, pendingMsgs, pendingTasks>>
    <3>1. h = g => Tracked(h)'
      BY <2>2 DEF Enlist, Tracked
    <3>2. h # g => Tracked(h)'
      BY <2>1, <2>2, KeptIsTracked DEF Keeps, Enlist, lifecycle, Active
    <3>. QED
      BY <3>1, <3>2
  <2>3. CASE StartPending(g)
    BY <2>1, <2>3, StartPendingTracks
  <2>4. CASE /\ ~MessagesDue(g)
             /\ pendingTasks' = [pendingTasks EXCEPT ![g] = <<>>]
             /\ waiting' = waiting \ {g}
             /\ UNCHANGED <<lifecycle, pendingMsgs>>
    BY <2>1, <2>4, EmptiedTracks
  <2>. QED
    BY <1>0, <1>8, <2>2, <2>3, <2>4 DEF DrainGroup, Refuses
<1>9. ASSUME NEW g \in Groups, DrainWaiting(g) PROVE Tracked(h)'
  <2>1. Safe /\ UNCHANGED retryTimer
    BY <1>1, <1>9 DEF DrainWaiting, Due, retry
  <2>2. CASE UNCHANGED <<lifecycle, pending>>
    BY <2>1, <2>2, KeptIsTracked DEF Keeps, lifecycle, pending, Active
  <2>3. CASE StartPending(g)
    BY <2>1, <2>3, StartPendingTracks
  <2>4. CASE /\ ~MessagesDue(g)
             /\ pendingTasks' = [pendingTasks EXCEPT ![g] = <<>>]
             /\ waiting' = waiting \ {g}
             /\ UNCHANGED <<lifecycle, pendingMsgs>>
    BY <2>1, <2>4, EmptiedTracks
  <2>. QED
    BY <1>9, <2>2, <2>3, <2>4 DEF DrainWaiting
<1>10. ASSUME NEW g \in Groups, RequestGracefulRestart(g) PROVE Tracked(h)'
  <2>1. Safe /\ UNCHANGED <<lifecycle, pendingTasks, waiting, retryTimer>> /\ Active(g)
    BY <1>10, <1>2 DEF RequestGracefulRestart, Control, retry
  <2>2. h = g => Tracked(h)'
    BY <2>1 DEF Tracked, Active, lifecycle
  <2>3. h # g => pendingMsgs'[h] = pendingMsgs[h]
    BY <1>10 DEF RequestGracefulRestart, TypeOK
  <2>. QED
    BY <2>1, <2>2, <2>3, KeptIsTracked DEF Keeps, lifecycle, Active
<1>11. ASSUME NEW g \in Groups, InterruptQuery(g) PROVE Tracked(h)'
  <2>1. Safe /\ UNCHANGED <<lifecycle, pending>>
    BY <1>11, <1>2 DEF InterruptQuery, Control
  <2>2. PICK t \in Groups : Active(t) /\ retryTimer' = [retryTimer EXCEPT ![t] = FALSE]
    BY <1>11 DEF InterruptQuery, ActiveSiblings
  <2>3. h = t => Tracked(h)'
    BY <2>1, <2>2 DEF Tracked, Active, lifecycle
  <2>4. h # t => retryTimer'[h] = retryTimer[h]
    BY <2>2 DEF TypeOK
  <2>. QED
    BY <2>1, <2>3, <2>4, KeptIsTracked DEF Keeps, lifecycle, pending, Active
<1>12. ASSUME NEW g \in Groups, StopGroup(g) PROVE Tracked(h)'
  <2>1. Safe /\ UNCHANGED lifecycle
    BY <1>12, <1>2 DEF StopGroup, Control
  <2>2. PICK t \in Groups :
          /\ pendingMsgs' = [k \in Groups |-> pendingMsgs[k] /\ k \notin {g, t}]
          /\ pendingTasks' = [k \in Groups |-> IF k \in {g, t} THEN <<>> ELSE pendingTasks[k]]
          /\ retryTimer' = [k \in Groups |-> retryTimer[k] /\ k \notin {g, t}]
          /\ waiting' = waiting \ {g, t}
    BY <1>12 DEF StopGroup
  <2>3. h \notin {g, t}
    BY <2>2 DEF HasPending
  <2>. QED
    BY <2>1, <2>2, <2>3, KeptIsTracked DEF Keeps, lifecycle, Active
<1>13. ASSUME NEW g \in Groups, NEW t \in Tasks, CancelTaskRun(g, t) PROVE Tracked(h)'
  <2>1. Safe /\ UNCHANGED <<lifecycle, pendingMsgs, retryTimer>>
    BY <1>13, <1>2 DEF CancelTaskRun, Control, retry
  <2>2. PICK rest :
          /\ pendingTasks' = [pendingTasks EXCEPT ![g] = rest]
          /\ waiting' = IF rest = <<>> /\ ~pendingMsgs[g] THEN waiting \ {g} ELSE waiting
    BY <1>13 DEF CancelTaskRun
  <2>3. DOMAIN pendingTasks[g] # {}
    BY <1>13 DEF CancelTaskRun
  <2>4. CASE h # g
    <3>1. pendingTasks'[h] = pendingTasks[h] /\ (h \in waiting => h \in waiting')
      BY <2>2, <2>4 DEF TypeOK
    <3>. QED
      BY <2>1, <3>1, KeptIsTracked DEF Keeps, lifecycle, Active
  <2>5. CASE h = g
    <3>1. pendingTasks[g] # <<>>
      BY <2>3
    <3>2. Active(g) \/ g \in waiting
      BY <2>1, <2>5, <3>1 DEF HasPending, Tracked
    <3>3. pendingTasks'[g] = rest
      BY <2>2 DEF TypeOK
    <3>4. g \in waiting => g \in waiting'
      BY <2>1, <2>2, <2>5, <3>3 DEF HasPending
    <3>. QED
      BY <2>1, <2>5, <3>2, <3>4 DEF Tracked, Active, lifecycle
  <2>. QED
    BY <2>4, <2>5
<1>14. ASSUME NEW g \in Groups,
              \/ RegisterProcess(g) \/ RunnerReadsIpc(g) \/ RestartBegin(g) \/ RestartFail(g)
              \/ SetExecutionMode(g) \/ \E marked \in BOOLEAN : PipeMessage(g, marked)
       PROVE  Tracked(h)'
  <2>1. pc = Quiet /\ UNCHANGED <<lifecycle, pending, retryTimer>>
    BY <1>14 DEF RegisterProcess, RunnerReadsIpc, RestartBegin, RestartFail, SetExecutionMode,
       PipeMessage, Request, Control, retry
  <2>. QED
    BY <1>2, <2>1, KeptIsTracked DEF Keeps, lifecycle, pending, Active
<1>15. ASSUME NEW t \in Tasks, CancelInDb(t) PROVE Tracked(h)'
  <2>1. pc = Quiet /\ UNCHANGED <<lifecycle, pending, retryTimer>>
    BY <1>15 DEF CancelInDb, Control, retry
  <2>. QED
    BY <1>2, <2>1, KeptIsTracked DEF Keeps, lifecycle, pending, Active
<1>16. ~Shutdown
  BY DEF Shutdown
<1>17. CASE UNCHANGED vars
  BY <1>1, <1>17 DEF vars, lifecycle, pending, retry, Tracked, HasPending, Active, Due
<1>. QED
  BY <1>3, <1>4, <1>5, <1>6, <1>7, <1>8, <1>9, <1>10, <1>11, <1>12, <1>13, <1>14, <1>15,
     <1>16, <1>17 DEF Next, Drain, RunnerStep, RequestStep, ControlStep

(* No pending work is ever without a run, a place on the waiting list or a
   timer that looks after it. *)
THEOREM PendingIsTracked == Spec => []PendingTracked
<1>1. Init => PendingTracked
  BY DEF Init, PendingTracked, HasPending
<1>. QED
  BY <1>1, SlotInvInit, SlotInvStep, PendingStep, PTL DEF Spec

-----------------------------------------------------------------------------
(* Refinement *)

LEMMA SlotsInit == Init => Slots!Open
BY DEF Init, Slots!Open

(* The instance's Cardinality is the same operator. *)
LEMMA SlotsCardinality ==
  ASSUME NEW S
  PROVE  Slots!Cardinality(S) = Cardinality(S)
BY DEF Cardinality, Slots!Cardinality

LEMMA StartIsAcquire ==
  ASSUME SlotInv, NEW g \in Groups, NEW w \in Work, Starts(g, w), UNCHANGED shuttingDown
  PROVE  Slots!Acquire(g, w, hostMode[g])
<1>1. PICK i \in FrameIds :
        /\ \A f \in frames : f.id # i
        /\ frames' = frames \cup {[id |-> i, jid |-> g, host |-> hostMode[g], work |-> w]}
  BY DEF Starts, Start
<1>2. \A h \in Groups : running[h] # Idle /\ KeyOf[h] = KeyOf[g] => h = g
  BY DEF Starts, Passes, ActiveSiblings, Active
<1>3. \A f \in frames : f.host \in BOOLEAN
  BY DEF SlotInv, TypeOK
<1>4. CASE hostMode[g] = TRUE
  <2>1. {f \in frames : f.host = hostMode[g]} = {f \in frames : f.host}
    BY <1>3, <1>4
  <2>2. hostCount < MaxHosts /\ hostCount = Cardinality({f \in frames : f.host})
    BY <1>4 DEF Starts, HasCapacity, SlotInv, SlotAccounting
  <2>3. Slots!InUse(hostMode[g]) < Slots!Limit(hostMode[g])
    BY <1>4, <2>1, <2>2, SlotsCardinality DEF Slots!InUse, Slots!Limit
  <2>. QED
    BY <1>1, <1>2, <2>3 DEF Slots!Acquire, Starts, Start
<1>5. CASE hostMode[g] = FALSE
  <2>1. {f \in frames : f.host = hostMode[g]} = {f \in frames : ~f.host}
    BY <1>3, <1>5
  <2>2. containerCount < MaxContainers /\ containerCount = Cardinality({f \in frames : ~f.host})
    BY <1>5 DEF Starts, HasCapacity, SlotInv, SlotAccounting
  <2>3. Slots!InUse(hostMode[g]) < Slots!Limit(hostMode[g])
    BY <1>5, <2>1, <2>2, SlotsCardinality DEF Slots!InUse, Slots!Limit
  <2>. QED
    BY <1>1, <1>2, <2>3 DEF Slots!Acquire, Starts, Start
<1>. QED
  BY <1>4, <1>5 DEF SlotInv, TypeOK

LEMMA SlotsStep == SlotInv /\ [Next]_vars => [Slots!Serve]_(Slots!slots)
<1>. SUFFICES ASSUME SlotInv, [Next]_vars PROVE [Slots!Serve]_(Slots!slots)
  OBVIOUS
<1>1. LifecycleStep /\ (shuttingDown => shuttingDown')
  BY Lifecycle DEF SlotInv
<1>2. shuttingDown \in BOOLEAN /\ shuttingDown' \in BOOLEAN /\ hostMode \in [Groups -> BOOLEAN]
  BY TypingStep DEF SlotInv, TypeOK
<1>3. CASE UNCHANGED lifecycle
  <2>1. CASE shuttingDown' = shuttingDown
    BY <1>3, <2>1 DEF lifecycle, Slots!slots
  <2>2. CASE shuttingDown' # shuttingDown
    <3>1. ~shuttingDown /\ shuttingDown' = TRUE
      BY <1>1, <1>2, <2>2
    <3>. QED
      BY <1>3, <3>1 DEF lifecycle, Slots!Close, Slots!Serve
  <2>. QED
    BY <2>1, <2>2
<1>4. ASSUME UNCHANGED shuttingDown, NEW g \in Groups, NEW w \in Work, Starts(g, w)
      PROVE  Slots!Serve
  BY <1>2, <1>4, StartIsAcquire DEF Slots!Serve
<1>5. ASSUME UNCHANGED shuttingDown, NEW f \in frames, Ends(f) PROVE Slots!Serve
  BY <1>5 DEF Ends, Slots!Release, Slots!Serve
<1>. QED
  BY <1>1, <1>3, <1>4, <1>5 DEF LifecycleStep

(* The queue implements the abstract slots: the step that starts a run is an
   Acquire, the one that ends it a Release, shutdown() is Close, and every
   other step of the queue leaves them alone. *)
THEOREM QueueImplementsSlots == Spec => ImplementsRunSlots
BY SlotsInit, SlotsStep, SlotInvInit, SlotInvStep, PTL
   DEF Spec, ImplementsRunSlots, Slots!SlotsSpec

-----------------------------------------------------------------------------
(* Slots and waiting work.  A slot may stay idle beside work that waits for three
   reasons: a key has two runs, of which the first to end finds the key busy and wakes
   nobody; an agent's run, which does not count against its owner's limit, ends while the
   limit is reached, and wakes nobody either; a mode is edited while work waits.  Here the
   last two are excluded (an owner without billing, or an administrator, has no limit), and
   the first is a hypothesis. *)

ModesStay == ModeEditable = {}
LimitsAreWide == \A o \in Owners : MaxContainers + MaxHosts <= UserLimit[o]

HasWork(g) == ~NoneLive(g) \/ MessagesDue(g)

SlotFree(g) == IF hostMode[g] THEN hostCount < MaxHosts ELSE containerCount < MaxContainers

(* g's start would take the last slot of its kind. *)
LastSlot(g) ==
  IF hostMode[g] THEN hostCount + 1 >= MaxHosts ELSE containerCount + 1 >= MaxContainers

Startable(g) == HasWork(g) /\ ~KeyBusy(g) /\ SlotFree(g)

(* Every run is flagged in its jid, and counted under the jid's mode. *)
FramesFlagged == \A f \in frames : Active(f.jid) /\ f.host = hostMode[f.jid]

(* When a run has ended, its group may start; what else may start now had to wait for
   the same key or for a slot of the same kind, of which this is the only one. *)
DrainReady ==
  ~shuttingDown /\ pc.op = "drainGroup" =>
    \A g \in pc.jids :
      /\ ~KeyBusy(g) /\ SlotFree(g)
      /\ \A h \in Groups :
           Startable(h) => KeyOf[h] = KeyOf[g] \/ (hostMode[h] = hostMode[g] /\ LastSlot(g))

(* Otherwise, what may start is still to be visited by the scan. *)
ScanReaches ==
  ~shuttingDown /\ pc.op # "drainGroup" => \A h \in Groups : Startable(h) => h \in pc.jids

ConservingInv == FramesFlagged /\ DrainReady /\ ScanReaches

LEMMA ModesFixed ==
  ASSUME ModesStay, [Next]_vars
  PROVE  hostMode' = hostMode
<1>. USE DEF setting
<1>1. CASE Drain
  BY <1>1 DEF Drain, DrainGroup, DrainWaiting
<1>2. CASE RunnerStep
  BY <1>2 DEF RunnerStep, RegisterProcess, RunnerReadsIpc, RetryFires, RunEnd
<1>3. CASE RequestStep
  BY <1>3 DEF RequestStep, EnqueueMessageCheck, EnqueueTask, PipeMessage, Request
<1>4. CASE ControlStep
  BY <1>4 DEF ControlStep, RequestGracefulRestart, InterruptQuery, StopGroup, RestartBegin,
     RestartFinish, RestartFail, SetExecutionMode, CancelTaskRun, CancelInDb, Shutdown, ModesStay
<1>. QED
  BY <1>1, <1>2, <1>3, <1>4 DEF Next, vars

(* Cancellations of tasks are not taken back. *)
LEMMA CancelledGrows ==
  ASSUME [Next]_vars
  PROVE  cancelled \subseteq cancelled'
<1>. USE DEF setting
<1>1. CASE Drain
  BY <1>1 DEF Drain, DrainGroup, DrainWaiting
<1>2. CASE RunnerStep
  BY <1>2 DEF RunnerStep, RegisterProcess, RunnerReadsIpc, RetryFires, RunEnd
<1>3. CASE RequestStep
  BY <1>3 DEF RequestStep, EnqueueMessageCheck, EnqueueTask, PipeMessage, Request
<1>4. CASE ControlStep
  BY <1>4 DEF ControlStep, RequestGracefulRestart, InterruptQuery, StopGroup, RestartBegin,
     RestartFinish, RestartFail, SetExecutionMode, CancelTaskRun, CancelInDb, Shutdown
<1>. QED
  BY <1>1, <1>2, <1>3, <1>4 DEF Next, vars

(* While a run of every active group is counted, a free slot leaves room below the
   limit of every owner. *)
LEMMA FreeSlotIsCapacity ==
  ASSUME SlotInv, LimitsAreWide, NEW g \in Groups, SlotFree(g)
  PROVE  HasCapacity(g)
<1>. DEFINE o == OwnerOf[g]
            A == {h \in Groups \ AgentGroups : OwnerOf[h] = o /\ Active(h)}
            F == {f \in frames : f.jid \in A}
            jidOf == [f \in F |-> f.jid]
<1>1. IsFiniteSet(F) /\ Cardinality(F) <= Cardinality(frames) /\ IsFiniteSet(frames)
  <2>1. F \in SUBSET frames
    OBVIOUS
  <2>. HIDE DEF F
  <2>. QED
    BY <2>1, FS_Subset DEF SlotInv
<1>2. jidOf \in Surjection(F, A)
  <2>1. jidOf \in [F -> A]
    OBVIOUS
  <2>2. \A h \in A : \E f \in F : f.jid = h
    BY DEF SlotInv, OneFlaggedRunner
  <2>3. \A h \in A : \E f \in F : jidOf[f] = h
    BY <2>2
  <2>. HIDE DEF F, A, jidOf
  <2>. QED
    BY <2>1, <2>3 DEF Surjection
<1>3. IsFiniteSet(A) /\ Cardinality(A) <= Cardinality(F)
  <2>. HIDE DEF F, A, jidOf
  <2>. QED
    BY <1>1, <1>2, FS_Surjection
<1>4. Cardinality(frames) = containerCount + hostCount
  <2>. DEFINE H == {f \in frames : f.host}
              C == {f \in frames : ~f.host}
  <2>1. H \cup C = frames /\ H \cap C = {}
    OBVIOUS
  <2>2. IsFiniteSet(H) /\ IsFiniteSet(C) /\ Cardinality(H) \in Nat /\ Cardinality(C) \in Nat
    BY HostSplit DEF SlotInv
  <2>3. hostCount = Cardinality(H) /\ containerCount = Cardinality(C)
    BY DEF SlotInv, SlotAccounting
  <2>. HIDE DEF H, C
  <2>4. Cardinality(H \cup C) = Cardinality(H) + Cardinality(C) - Cardinality(H \cap C)
    BY <2>2, FS_Union
  <2>5. Cardinality(H \cap C) = 0
    BY <2>1, FS_EmptySet
  <2>6. Cardinality(frames) = Cardinality(H) + Cardinality(C) - 0
    BY <2>1, <2>4, <2>5, Zenon
  <2>. QED
    BY <2>2, <2>3, <2>6
<1>5. Cardinality(A) \in Nat /\ Cardinality(F) \in Nat /\ Cardinality(frames) \in Nat
  <2>. HIDE DEF F, A
  <2>. QED
    BY <1>1, <1>3, FS_CardinalityType
<1>6. o \in Owners /\ UserLimit[o] \in Nat /\ MaxContainers + MaxHosts <= UserLimit[o]
  BY ConstantsAssumption DEF LimitsAreWide
<1>7. /\ containerCount <= MaxContainers /\ hostCount <= MaxHosts
      /\ containerCount \in Int /\ hostCount \in Int /\ MaxContainers \in Nat /\ MaxHosts \in Nat
  BY ConstantsAssumption DEF SlotInv, SlotAccounting, TypeOK
<1>8. containerCount + hostCount < MaxContainers + MaxHosts
  BY <1>7 DEF SlotFree
<1>9. UserActive(o) = Cardinality(A)
  BY DEF UserActive
<1>. HIDE DEF o, A, F
<1>10. UserActive(o) < UserLimit[o]
  BY <1>1, <1>3, <1>4, <1>5, <1>6, <1>7, <1>8, <1>9
<1>. QED
  BY <1>10 DEF HasCapacity, SlotFree, o

(* What a start does to the keys and the slots of all groups *)
LEMMA StartOccupies ==
  ASSUME SlotInv, NEW g \in Groups, NEW w \in Work, Start(g, w), hostMode' = hostMode,
         NEW h \in Groups
  PROVE  /\ KeyOf[h] = KeyOf[g] => KeyBusy(h)'
         /\ KeyBusy(h) => KeyBusy(h)'
         /\ SlotFree(h)' => SlotFree(h)
         /\ hostMode[h] = hostMode[g] /\ LastSlot(g) => ~SlotFree(h)'
<1>. TypeOK
  BY DEF SlotInv
<1>1. Active(g)' /\ \A k \in Groups : Active(k) => Active(k)'
  BY StartKeeps
<1>2. KeyOf[h] = KeyOf[g] => KeyBusy(h)'
  BY <1>1 DEF KeyBusy, ActiveSiblings
<1>3. KeyBusy(h) => KeyBusy(h)'
  BY <1>1 DEF KeyBusy, ActiveSiblings
<1>4. IF hostMode[g] THEN hostCount' = hostCount + 1 /\ containerCount' = containerCount
      ELSE containerCount' = containerCount + 1 /\ hostCount' = hostCount
  BY DEF Start
<1>5. containerCount \in Int /\ hostCount \in Int /\ MaxContainers \in Nat /\ MaxHosts \in Nat
  BY ConstantsAssumption DEF TypeOK
<1>6. SlotFree(h)' => SlotFree(h)
  BY <1>4, <1>5 DEF SlotFree
<1>7. hostMode[h] = hostMode[g] /\ LastSlot(g) => ~SlotFree(h)'
  BY <1>4, <1>5 DEF SlotFree, LastSlot
<1>. QED
  BY <1>2, <1>3, <1>6, <1>7

(* What has no work gets none by steps that only take work away. *)
LEMMA WorkKept ==
  ASSUME NEW h \in Groups, pendingTasks'[h] = pendingTasks[h], pendingMsgs'[h] => pendingMsgs[h],
         retryTimer[h] => retryTimer'[h], cancelled \subseteq cancelled', HasWork(h)'
  PROVE  HasWork(h)
BY DEF HasWork, NoneLive, MessagesDue

LEMMA LifecycleKept ==
  ASSUME UNCHANGED <<lifecycle, hostMode>>, NEW h \in Groups
  PROVE  (KeyBusy(h)' <=> KeyBusy(h)) /\ (SlotFree(h)' <=> SlotFree(h))
BY DEF lifecycle, KeyBusy, ActiveSiblings, Active, SlotFree

(* The runs stay flagged and counted as they are, as long as no key has two. *)
LEMMA FlaggedStep ==
  ASSUME SlotInv, ModesStay, FramesFlagged, OneRunPerKey, [Next]_vars
  PROVE  FramesFlagged'
<1>. TypeOK /\ ScanOpen
  BY DEF SlotInv
<1>1. hostMode' = hostMode /\ LifecycleStep
  BY ModesFixed, Lifecycle
<1>2. CASE UNCHANGED lifecycle
  BY <1>1, <1>2 DEF lifecycle, FramesFlagged, Active
<1>3. ASSUME NEW g \in Groups, NEW w \in Work, Starts(g, w)
      PROVE  FramesFlagged'
  <2>1. PICK i \in FrameIds :
          frames' = frames \cup {[id |-> i, jid |-> g, host |-> hostMode[g], work |-> w]}
    BY <1>3 DEF Starts, Start
  <2>2. Active(g)' /\ \A k \in Groups : Active(k) => Active(k)'
    BY <1>3, StartKeeps DEF Starts
  <2>3. \A f \in frames : f.jid \in Groups
    BY DEF TypeOK
  <2>. QED
    BY <1>1, <2>1, <2>2, <2>3 DEF FramesFlagged
<1>4. ASSUME NEW f \in frames, Ends(f)
      PROVE  FramesFlagged'
  <2>1. running' = [running EXCEPT ![f.jid] = Idle] /\ frames' = frames \ {f}
    BY <1>4 DEF Ends
  <2>2. \A e \in frames' : e.jid # f.jid /\ e \in frames
    BY <2>1 DEF OneRunPerKey
  <2>3. \A e \in frames' : running'[e.jid] = running[e.jid]
    BY <2>1, <2>2 DEF TypeOK
  <2>. QED
    BY <1>1, <2>2, <2>3 DEF FramesFlagged, Active
<1>. QED
  BY <1>1, <1>2, <1>3, <1>4 DEF LifecycleStep

(* A check for messages leaves nothing that could start and does not. *)
LEMMA MessageCheckConserves ==
  ASSUME SlotInv, LimitsAreWide, ~shuttingDown, hostMode' = hostMode, cancelled \subseteq cancelled',
         NEW g \in Groups, MessageCheck(g), NEW h \in Groups, ~Startable(h),
         h # g => (retryTimer[h] => retryTimer'[h])
  PROVE  ~Startable(h)'
<1>. TypeOK
  BY DEF SlotInv
<1>1. CASE /\ KeyBusy(g) \/ ~HasCapacity(g)
           /\ pendingMsgs' = [pendingMsgs EXCEPT ![g] = TRUE]
           /\ UNCHANGED <<lifecycle, pendingTasks>>
  <2>1. (KeyBusy(h)' <=> KeyBusy(h)) /\ (SlotFree(h)' <=> SlotFree(h))
    BY <1>1, LifecycleKept
  <2>2. CASE h = g
    BY <1>1, <2>1, <2>2, FreeSlotIsCapacity DEF Startable
  <2>3. CASE h # g
    <3>1. pendingMsgs'[h] = pendingMsgs[h]
      BY <1>1, <2>3 DEF TypeOK
    <3>. QED
      BY <1>1, <2>1, <2>3, <3>1, WorkKept DEF Startable
  <2>. QED
    BY <2>2, <2>3
<1>2. CASE Start(g, Messages) /\ UNCHANGED pendingTasks
  <2>1. Messages \in Work
    BY DEF Work
  <2>2. h # g => (pendingMsgs'[h] => pendingMsgs[h])
    BY <1>2, <2>1, StartKeeps
  <2>. QED
    BY <1>2, <2>1, <2>2, StartOccupies, WorkKept DEF Startable
<1>. QED
  BY <1>1, <1>2 DEF MessageCheck, Refuses

(* So does the start of what a group has pending. *)
LEMMA StartPendingOccupies ==
  ASSUME SlotInv, hostMode' = hostMode, cancelled \subseteq cancelled', UNCHANGED retryTimer,
         NEW g \in Groups, StartPending(g), NEW h \in Groups, Startable(h)'
  PROVE  /\ Startable(h) /\ h # g /\ KeyOf[h] # KeyOf[g]
         /\ ~(hostMode[h] = hostMode[g] /\ LastSlot(g))
<1>. TypeOK
  BY DEF SlotInv
<1>1. PICK w \in Work : Start(g, w)
  <2>1. CASE StartFirstLive(g)
    <3>1. PICK k \in DOMAIN pendingTasks[g] : Start(g, pendingTasks[g][k])
      BY <2>1 DEF StartFirstLive
    <3>2. pendingTasks[g] \in Seq(Tasks \cup {Recovery})
      BY DEF TypeOK
    <3>3. pendingTasks[g][k] \in Work
      BY <3>1, <3>2 DEF Work
    <3>. QED
      BY <3>1, <3>3
  <2>. QED
    BY <2>1 DEF StartPending, Work
<1>2. KeyOf[h] # KeyOf[g] /\ ~KeyBusy(h) /\ SlotFree(h) /\ ~(hostMode[h] = hostMode[g] /\ LastSlot(g))
  BY <1>1, StartOccupies DEF Startable
<1>3. h # g
  BY <1>2
<1>4. pendingTasks'[h] = pendingTasks[h]
  <2>1. \E q : pendingTasks' = [pendingTasks EXCEPT ![g] = q]
    BY DEF StartPending, StartFirstLive
  <2>. QED
    BY <1>3, <2>1 DEF TypeOK
<1>5. pendingMsgs'[h] => pendingMsgs[h]
  BY <1>1, <1>3, StartKeeps
<1>. QED
  BY <1>2, <1>3, <1>4, <1>5, WorkKept DEF Startable

(* A group without work has none when its cancelled tasks are dropped. *)
LEMMA EmptiedConserves ==
  ASSUME TypeOK, cancelled \subseteq cancelled', UNCHANGED <<lifecycle, pendingMsgs, retryTimer, hostMode>>,
         NEW g \in Groups, ~MessagesDue(g), pendingTasks' = [pendingTasks EXCEPT ![g] = <<>>],
         NEW h \in Groups, Startable(h)'
  PROVE  Startable(h) /\ h # g
<1>1. pendingTasks'[g] = <<>> /\ (h # g => pendingTasks'[h] = pendingTasks[h])
  BY DEF TypeOK
<1>2. h # g
  BY <1>1 DEF Startable, HasWork, NoneLive, MessagesDue
<1>. QED
  BY <1>1, <1>2, LifecycleKept, WorkKept DEF Startable

(* A run ends: its key is free, its slot is, and nothing else has changed. *)
LEMMA EndReadies ==
  ASSUME SlotInv, FramesFlagged, OneRunPerKey, hostMode' = hostMode, cancelled \subseteq cancelled',
         NEW f \in frames, NEW ok \in BOOLEAN, RunEnd(f, ok),
         \A h \in Groups : ~Startable(h)
  PROVE  DrainReady'
<1>. DEFINE g == f.jid
<1>. TypeOK
  BY DEF SlotInv
<1>0. g \in Groups /\ f.host = hostMode[g] /\ Ends(f)
  BY DEF TypeOK, FramesFlagged, RunEnd, Ends, HeldHostSlot
<1>1. /\ containerCount \in Int /\ hostCount \in Int /\ MaxContainers \in Nat /\ MaxHosts \in Nat
      /\ containerCount <= MaxContainers /\ hostCount <= MaxHosts
  BY ConstantsAssumption DEF TypeOK, SlotInv, SlotAccounting
<1>2. running'[g] = Idle /\ \A h \in Groups : h # g => running'[h] = running[h]
  BY <1>0 DEF Ends, TypeOK
<1>3. \A h \in Groups : Active(h) /\ KeyOf[h] = KeyOf[g] => h = g
  BY <1>0 DEF SlotInv, OneFlaggedRunner, FramesFlagged
<1>4. ~KeyBusy(g)'
  BY <1>2, <1>3 DEF KeyBusy, ActiveSiblings, Active
<1>5. SlotFree(g)'
  BY <1>0, <1>1 DEF SlotFree, Ends
<1>6. ASSUME NEW h \in Groups, Startable(h)', KeyOf[h] # KeyOf[g]
      PROVE  hostMode[h] = hostMode[g] /\ LastSlot(g)'
  <2>0. h # g
    BY <1>6
  <2>1. ~KeyBusy(h)
    BY <1>2, <1>6 DEF Startable, KeyBusy, ActiveSiblings, Active
  <2>2. pendingTasks'[h] = pendingTasks[h]
    BY <2>0 DEF RunEnd, RecoverUnconsumedIpc, TypeOK
  <2>3. pendingMsgs'[h] = pendingMsgs[h]
    BY <2>0 DEF RunEnd, RecoverUnconsumedIpc, TypeOK
  <2>4. retryTimer[h] => retryTimer'[h]
    BY <1>0, <2>0 DEF RunEnd, retry, Succeeds, ScheduleRetry, TypeOK
  <2>5. HasWork(h)
    BY <1>6, <2>2, <2>3, <2>4, WorkKept DEF Startable
  <2>6. ~SlotFree(h) /\ SlotFree(h)'
    BY <1>6, <2>1, <2>5 DEF Startable
  <2>7. hostMode[h] \in BOOLEAN /\ hostMode[g] \in BOOLEAN
    BY <1>0 DEF TypeOK
  <2>8. CASE hostMode[g] = TRUE
    <3>1. hostCount' = hostCount - 1 /\ containerCount' = containerCount
      BY <1>0, <2>8 DEF Ends
    <3>2. hostMode[h] = TRUE
      BY <2>6, <2>7, <3>1 DEF SlotFree
    <3>3. ~(hostCount < MaxHosts)
      BY <2>6, <3>2 DEF SlotFree
    <3>4. hostCount' + 1 >= MaxHosts
      BY <1>1, <3>1, <3>3
    <3>. QED
      BY <2>8, <3>2, <3>4 DEF LastSlot
  <2>9. CASE hostMode[g] = FALSE
    <3>1. containerCount' = containerCount - 1 /\ hostCount' = hostCount
      BY <1>0, <2>9 DEF Ends
    <3>2. hostMode[h] = FALSE
      BY <2>6, <2>7, <3>1 DEF SlotFree
    <3>3. ~(containerCount < MaxContainers)
      BY <2>6, <3>2 DEF SlotFree
    <3>4. containerCount' + 1 >= MaxContainers
      BY <1>1, <3>1, <3>3
    <3>. QED
      BY <2>9, <3>2, <3>4 DEF LastSlot
  <2>. QED
    BY <2>7, <2>8, <2>9
<1>7. pc'.jids = {g}
  BY DEF RunEnd
<1>. QED
  BY <1>4, <1>5, <1>6, <1>7 DEF DrainReady

(* Steps that leave the runs alone and give no group work *)
LEMMA QuietConserves ==
  ASSUME ScanReaches, pc = Quiet, pc' = Quiet, UNCHANGED <<lifecycle, hostMode>>, ~shuttingDown,
         \A h \in Groups : HasWork(h)' => HasWork(h) \/ KeyBusy(h)
  PROVE  DrainReady' /\ ScanReaches'
<1>1. \A h \in Groups : ~Startable(h)
  BY DEF ScanReaches, Quiet
<1>2. \A h \in Groups : ~Startable(h)'
  BY <1>1, LifecycleKept DEF Startable
<1>. QED
  BY <1>2 DEF DrainReady, ScanReaches, Quiet

(* A sequence from which one element was taken has no other elements. *)
LEMMA RemovalKeepsElements ==
  ASSUME NEW S, NEW q \in Seq(S), NEW i \in 1 .. Len(q)
  PROVE  LET rest == SubSeq(q, 1, i - 1) \o SubSeq(q, i + 1, Len(q))
         IN  \A j \in DOMAIN rest : \E k \in DOMAIN q : rest[j] = q[k]
<1>. DEFINE R == {q[k] : k \in DOMAIN q}
            front == SubSeq(q, 1, i - 1)
            back  == SubSeq(q, i + 1, Len(q))
<1>1. Len(q) \in Nat /\ DOMAIN q = 1 .. Len(q)
  BY LenProperties
<1>2. (\A k \in 1 .. i - 1 : q[k] \in R) /\ (\A k \in i + 1 .. Len(q) : q[k] \in R)
  BY <1>1
<1>. HIDE DEF R
<1>3. front \in Seq(R)
  BY <1>1, <1>2, SubSeqProperties
<1>4. back \in Seq(R)
  BY <1>1, <1>2, SubSeqProperties
<1>. HIDE DEF front, back
<1>5. front \o back \in Seq(R)
  BY <1>3, <1>4, ConcatProperties
<1>6. \A j \in DOMAIN (front \o back) : (front \o back)[j] \in R
  BY <1>5, LenProperties
<1>. QED
  BY <1>6 DEF R, front, back

LEMMA ConservingStep ==
  ASSUME SlotInv, PendingTracked, ModesStay, LimitsAreWide, OneRunPerKey, ConservingInv, [Next]_vars
  PROVE  DrainReady' /\ ScanReaches'
<1>. SUFFICES ASSUME ~shuttingDown' PROVE DrainReady' /\ ScanReaches'
  BY DEF DrainReady, ScanReaches
<1>. TypeOK /\ ScanOpen /\ FramesFlagged /\ DrainReady /\ ScanReaches
  BY DEF SlotInv, ConservingInv
<1>0. ~shuttingDown /\ hostMode' = hostMode /\ cancelled \subseteq cancelled'
  BY Lifecycle, ModesFixed, CancelledGrows
<1>1. pc = Quiet => \A h \in Groups : ~Startable(h)
  BY <1>0 DEF ScanReaches, Quiet
<1>2. ASSUME pc = Quiet, pc' = Quiet, \A h \in Groups : ~Startable(h)'
      PROVE  DrainReady' /\ ScanReaches'
  BY <1>2 DEF DrainReady, ScanReaches, Quiet
<1>3. ASSUME NEW g \in Groups, EnqueueMessageCheck(g) PROVE DrainReady' /\ ScanReaches'
  <2>1. pc = Quiet /\ pc' = Quiet /\ UNCHANGED retryTimer /\ MessageCheck(g)
    BY <1>3 DEF EnqueueMessageCheck, Request, retry
  <2>2. \A h \in Groups : ~Startable(h)'
    BY <1>0, <1>1, <2>1, MessageCheckConserves
  <2>. QED
    BY <1>2, <2>1, <2>2
<1>4. ASSUME NEW g \in Groups, RetryFires(g) PROVE DrainReady' /\ ScanReaches'
  <2>1. pc = Quiet /\ pc' = Quiet /\ MessageCheck(g) /\ retryTimer' = [retryTimer EXCEPT ![g] = FALSE]
    BY <1>4 DEF RetryFires
  <2>2. \A h \in Groups : h # g => (retryTimer[h] => retryTimer'[h])
    BY <2>1 DEF TypeOK
  <2>3. \A h \in Groups : ~Startable(h)'
    BY <1>0, <1>1, <2>1, <2>2, MessageCheckConserves
  <2>. QED
    BY <1>2, <2>1, <2>3
<1>5. ASSUME NEW t \in Groups, RestartFinish(t) PROVE DrainReady' /\ ScanReaches'
  <2>1. /\ pc = Quiet /\ pc' = Quiet /\ UNCHANGED retryTimer
        /\ MessageCheck(restartFor[t]) /\ restartFor[t] \in Groups
    BY <1>5 DEF RestartFinish, retry, TypeOK
  <2>2. \A h \in Groups : ~Startable(h)'
    BY <1>0, <1>1, <2>1, MessageCheckConserves
  <2>. QED
    BY <1>2, <2>1, <2>2
<1>6. ASSUME NEW g \in Groups, NEW t \in Tasks, EnqueueTask(g, t) PROVE DrainReady' /\ ScanReaches'
  <2>1. pc = Quiet /\ pc' = Quiet /\ UNCHANGED retryTimer
    BY <1>6 DEF EnqueueTask, Request, retry
  <2>2. CASE UNCHANGED <<lifecycle, pending>>
    <3>1. \A h \in Groups : HasWork(h)' => HasWork(h)
      BY <1>0, <2>1, <2>2, WorkKept DEF pending
    <3>. QED
      BY <1>0, <2>1, <2>2, <3>1, QuietConserves
  <2>3. CASE /\ KeyBusy(g) \/ ~HasCapacity(g)
             /\ pendingTasks' = [pendingTasks EXCEPT ![g] = Append(@, t)]
             /\ UNCHANGED <<lifecycle, pendingMsgs>>
    <3>1. ASSUME NEW h \in Groups PROVE ~Startable(h)'
      <4>1. (KeyBusy(h)' <=> KeyBusy(h)) /\ (SlotFree(h)' <=> SlotFree(h))
        BY <1>0, <2>3, LifecycleKept
      <4>2. CASE h = g
        BY <2>3, <4>1, <4>2, FreeSlotIsCapacity DEF Startable
      <4>3. CASE h # g
        <5>1. pendingTasks'[h] = pendingTasks[h]
          BY <2>3, <4>3 DEF TypeOK
        <5>. QED
          BY <1>0, <1>1, <2>1, <2>3, <4>1, <5>1, WorkKept DEF Startable
      <4>. QED
        BY <4>2, <4>3
    <3>. QED
      BY <1>2, <2>1, <3>1
  <2>4. CASE Start(g, t) /\ UNCHANGED pendingTasks
    <3>1. ASSUME NEW h \in Groups PROVE ~Startable(h)'
      <4>1. t \in Work
        BY DEF Work
      <4>2. h # g => (pendingMsgs'[h] => pendingMsgs[h])
        BY <2>4, <4>1, StartKeeps
      <4>. QED
        BY <1>0, <1>1, <2>1, <2>4, <4>1, <4>2, StartOccupies, WorkKept DEF Startable
    <3>. QED
      BY <1>2, <2>1, <3>1
  <2>. QED
    BY <1>6, <2>2, <2>3, <2>4 DEF EnqueueTask
<1>7. ASSUME NEW f \in frames, NEW ok \in BOOLEAN, RunEnd(f, ok) PROVE DrainReady' /\ ScanReaches'
  <2>1. pc = Quiet /\ pc'.op = "drainGroup"
    BY <1>7 DEF RunEnd
  <2>2. DrainReady'
    BY <1>0, <1>1, <1>7, <2>1, EndReadies
  <2>. QED
    BY <2>1, <2>2 DEF ScanReaches
<1>8. ASSUME NEW g \in Groups, DrainGroup(g) PROVE DrainReady' /\ ScanReaches'
  <2>1. pc.op = "drainGroup" /\ g \in pc.jids /\ UNCHANGED <<retryTimer, cancelled>>
    BY <1>8 DEF DrainGroup, retry, setting
  <2>2. /\ ~KeyBusy(g) /\ HasCapacity(g)
        /\ \A h \in Groups :
             Startable(h) => KeyOf[h] = KeyOf[g] \/ (hostMode[h] = hostMode[g] /\ LastSlot(g))
    BY <1>0, <2>1, FreeSlotIsCapacity DEF DrainReady
  <2>3. CASE StartPending(g) /\ pc' = Quiet
    <3>1. \A h \in Groups : ~Startable(h)'
      BY <1>0, <2>1, <2>2, <2>3, StartPendingOccupies
    <3>. QED
      BY <2>3, <3>1 DEF DrainReady, ScanReaches, Quiet
  <2>4. CASE /\ NoneLive(g) /\ ~MessagesDue(g)
             /\ pendingTasks' = [pendingTasks EXCEPT ![g] = <<>>]
             /\ pc' = ScanOf(waiting \ {g})
             /\ UNCHANGED <<lifecycle, pendingMsgs>>
    <3>1. ASSUME NEW h \in Groups, Startable(h)' PROVE h \in waiting \ {g}
      <4>1. Startable(h) /\ h # g
        BY <1>0, <2>1, <2>4, <3>1, EmptiedConserves
      <4>2. ~Active(h)
        BY <4>1 DEF Startable, KeyBusy, ActiveSiblings
      <4>3. HasPending(h) /\ ~(pendingTasks[h] = <<>> /\ retryTimer[h])
        BY <4>1 DEF Startable, HasWork, NoneLive, MessagesDue, HasPending
      <4>4. pc = [op |-> "drainGroup", jids |-> {g}]
        BY <1>8 DEF DrainGroup
      <4>5. h \notin pc.jids
        BY <4>1, <4>4
      <4>6. Tracked(h)
        BY <1>0, <4>3, <4>5 DEF PendingTracked
      <4>. QED
        BY <4>1, <4>2, <4>3, <4>6 DEF Tracked
    <3>2. pc'.jids = waiting \ {g} /\ pc'.op # "drainGroup"
      BY <2>4 DEF ScanOf, Quiet
    <3>. QED
      BY <3>1, <3>2 DEF DrainReady, ScanReaches
  <2>. QED
    BY <1>0, <1>8, <2>2, <2>3, <2>4 DEF DrainGroup, Refuses
<1>9. ASSUME NEW g \in Groups, DrainWaiting(g) PROVE DrainReady' /\ ScanReaches'
  <2>1. /\ pc.op = "drainWaiting" /\ pc'.jids = pc.jids \ {g} /\ pc'.op # "drainGroup"
        /\ UNCHANGED <<retryTimer, cancelled>>
    BY <1>9 DEF DrainWaiting, ScanOf, Quiet, retry, setting
  <2>2. \A h \in Groups : Startable(h) => h \in pc.jids
    BY <1>0, <2>1 DEF ScanReaches
  <2>3. ASSUME NEW h \in Groups, Startable(h)' PROVE h \in pc.jids /\ h # g
    <3>1. CASE ~(Passes(g) /\ HasCapacity(g)) /\ UNCHANGED <<lifecycle, pending>>
      <4>1. HasWork(h)' => HasWork(h)
        BY <1>0, <2>1, <3>1, WorkKept DEF pending
      <4>2. Startable(h)
        BY <1>0, <2>3, <3>1, <4>1, LifecycleKept DEF Startable
      <4>3. Passes(h) /\ HasCapacity(h)
        BY <4>2, FreeKeyPasses, FreeSlotIsCapacity DEF Startable
      <4>. QED
        BY <2>2, <3>1, <4>2, <4>3
    <3>2. CASE StartPending(g)
      BY <1>0, <2>1, <2>2, <2>3, <3>2, StartPendingOccupies
    <3>3. CASE /\ ~MessagesDue(g)
               /\ pendingTasks' = [pendingTasks EXCEPT ![g] = <<>>]
               /\ UNCHANGED <<lifecycle, pendingMsgs>>
      BY <1>0, <2>1, <2>2, <2>3, <3>3, EmptiedConserves
    <3>. QED
      BY <1>9, <3>1, <3>2, <3>3 DEF DrainWaiting
  <2>. QED
    BY <2>1, <2>3 DEF DrainReady, ScanReaches
<1>10. ASSUME NEW g \in Groups, RequestGracefulRestart(g) PROVE DrainReady' /\ ScanReaches'
  <2>1. /\ pc = Quiet /\ pc' = Quiet /\ Active(g)
        /\ UNCHANGED <<lifecycle, pendingTasks, retryTimer, cancelled>>
        /\ pendingMsgs' = [pendingMsgs EXCEPT ![g] = TRUE]
    BY <1>10 DEF RequestGracefulRestart, Control, retry, setting
  <2>2. ASSUME NEW h \in Groups, HasWork(h)' PROVE HasWork(h) \/ KeyBusy(h)
    <3>1. CASE h = g
      BY <2>1, <3>1 DEF KeyBusy, ActiveSiblings
    <3>2. CASE h # g
      <4>1. pendingMsgs'[h] = pendingMsgs[h]
        BY <2>1, <3>2 DEF TypeOK
      <4>. QED
        BY <1>0, <2>1, <2>2, <4>1, WorkKept
    <3>. QED
      BY <3>1, <3>2
  <2>. QED
    BY <1>0, <2>1, <2>2, QuietConserves
<1>11. ASSUME NEW g \in Groups, InterruptQuery(g) PROVE DrainReady' /\ ScanReaches'
  <2>1. pc = Quiet /\ pc' = Quiet /\ UNCHANGED <<lifecycle, pending, cancelled>>
    BY <1>11 DEF InterruptQuery, Control, setting
  <2>2. PICK t \in Groups : Active(t) /\ retryTimer' = [retryTimer EXCEPT ![t] = FALSE]
    BY <1>11 DEF InterruptQuery, ActiveSiblings
  <2>3. ASSUME NEW h \in Groups, HasWork(h)' PROVE HasWork(h) \/ KeyBusy(h)
    <3>1. CASE h = t
      BY <2>2, <3>1 DEF KeyBusy, ActiveSiblings
    <3>2. CASE h # t
      <4>1. retryTimer'[h] = retryTimer[h]
        BY <2>2, <3>2 DEF TypeOK
      <4>. QED
        BY <1>0, <2>1, <2>3, <4>1, WorkKept DEF pending
    <3>. QED
      BY <3>1, <3>2
  <2>. QED
    BY <1>0, <2>1, <2>3, QuietConserves
<1>12. ASSUME NEW g \in Groups, StopGroup(g) PROVE DrainReady' /\ ScanReaches'
  <2>1. pc = Quiet /\ pc' = Quiet /\ UNCHANGED <<lifecycle, cancelled>>
    BY <1>12 DEF StopGroup, Control, setting
  <2>2. PICK t \in Groups :
          /\ pendingMsgs' = [k \in Groups |-> pendingMsgs[k] /\ k \notin {g, t}]
          /\ pendingTasks' = [k \in Groups |-> IF k \in {g, t} THEN <<>> ELSE pendingTasks[k]]
          /\ retryTimer' = [k \in Groups |-> retryTimer[k] /\ k \notin {g, t}]
    BY <1>12 DEF StopGroup
  <2>3. ASSUME NEW h \in Groups, HasWork(h)' PROVE HasWork(h)
    <3>1. h \notin {g, t}
      BY <2>2, <2>3 DEF HasWork, NoneLive, MessagesDue
    <3>. QED
      BY <1>0, <2>2, <2>3, <3>1, WorkKept
  <2>. QED
    BY <1>0, <2>1, <2>3, QuietConserves
<1>13. ASSUME NEW g \in Groups, NEW t \in Tasks, CancelTaskRun(g, t)
       PROVE  DrainReady' /\ ScanReaches'
  <2>1. pc = Quiet /\ pc' = Quiet /\ UNCHANGED <<lifecycle, pendingMsgs, retryTimer, cancelled>>
    BY <1>13 DEF CancelTaskRun, Control, retry, setting
  <2>2. ASSUME NEW h \in Groups, HasWork(h)' PROVE HasWork(h)
    <3>1. PICK i \in DOMAIN pendingTasks[g] :
            pendingTasks' = [pendingTasks EXCEPT ![g] =
              SubSeq(pendingTasks[g], 1, i - 1) \o SubSeq(pendingTasks[g], i + 1, Len(pendingTasks[g]))]
      BY <1>13 DEF CancelTaskRun
    <3>2. CASE h # g
      <4>1. pendingTasks'[h] = pendingTasks[h]
        BY <3>1, <3>2 DEF TypeOK
      <4>. QED
        BY <1>0, <2>1, <2>2, <4>1, WorkKept
    <3>3. CASE h = g
      <4>. DEFINE q == pendingTasks[g]
                  rest == SubSeq(q, 1, i - 1) \o SubSeq(q, i + 1, Len(q))
      <4>1. q \in TaskSeq /\ i \in 1 .. Len(q)
        BY DEF TypeOK, TaskSeq
      <4>2. pendingTasks'[g] = rest
        BY <3>1 DEF TypeOK
      <4>3. \A j \in DOMAIN rest : \E k \in DOMAIN q : rest[j] = q[k]
        <5>. HIDE DEF q
        <5>. QED
          BY <4>1, RemovalKeepsElements DEF TaskSeq
      <4>4. MessagesDue(h)' => MessagesDue(h)
        BY <2>1 DEF MessagesDue
      <4>5. ~NoneLive(h)' => ~NoneLive(h)
        <5>. HIDE DEF rest
        <5>. QED
          BY <2>1, <3>3, <4>2, <4>3 DEF NoneLive
      <4>. QED
        BY <2>2, <4>4, <4>5 DEF HasWork
    <3>. QED
      BY <3>2, <3>3
  <2>. QED
    BY <1>0, <2>1, <2>2, QuietConserves
<1>14. ASSUME NEW g \in Groups,
              \/ RegisterProcess(g) \/ RunnerReadsIpc(g) \/ RestartBegin(g) \/ RestartFail(g)
              \/ \E marked \in BOOLEAN : PipeMessage(g, marked)
       PROVE  DrainReady' /\ ScanReaches'
  <2>1. pc = Quiet /\ pc' = Quiet /\ UNCHANGED <<lifecycle, pending, retryTimer>>
    BY <1>14 DEF RegisterProcess, RunnerReadsIpc, RestartBegin, RestartFail, PipeMessage, Request,
       Control, retry
  <2>2. \A h \in Groups : HasWork(h)' => HasWork(h)
    BY <1>0, <2>1, WorkKept DEF pending
  <2>. QED
    BY <1>0, <2>1, <2>2, QuietConserves
<1>15. ASSUME NEW t \in Tasks, CancelInDb(t) PROVE DrainReady' /\ ScanReaches'
  <2>1. pc = Quiet /\ pc' = Quiet /\ UNCHANGED <<lifecycle, pending, retryTimer>>
    BY <1>15 DEF CancelInDb, Control, retry
  <2>2. \A h \in Groups : HasWork(h)' => HasWork(h)
    BY <1>0, <2>1, WorkKept DEF pending
  <2>. QED
    BY <1>0, <2>1, <2>2, QuietConserves
<1>16. ~Shutdown /\ \A g \in Groups : ~SetExecutionMode(g)
  BY DEF Shutdown, SetExecutionMode, ModesStay
<1>17. CASE UNCHANGED vars
  <2>1. UNCHANGED <<lifecycle, pending, retryTimer, hostMode, pc, cancelled, shuttingDown>>
    BY <1>17 DEF vars, retry, setting
  <2>. USE DEF lifecycle, pending
  <2>2. \A h \in Groups : (Startable(h)' <=> Startable(h)) /\ (KeyBusy(h)' <=> KeyBusy(h))
                          /\ (SlotFree(h)' <=> SlotFree(h)) /\ (LastSlot(h)' <=> LastSlot(h))
    BY <2>1 DEF Startable, HasWork, NoneLive, MessagesDue, KeyBusy, ActiveSiblings, Active, SlotFree, LastSlot
  <2>3. pc.jids \in SUBSET Groups
    BY DEF TypeOK
  <2>. QED
    BY <2>1, <2>2, <2>3 DEF DrainReady, ScanReaches
<1>. QED
  BY <1>3, <1>4, <1>5, <1>6, <1>7, <1>8, <1>9, <1>10, <1>11, <1>12, <1>13, <1>14, <1>15,
     <1>16, <1>17 DEF Next, Drain, RunnerStep, RequestStep, ControlStep

LEMMA ConservingInit == Init => OneRunPerKey /\ ConservingInv
<1>. SUFFICES ASSUME Init PROVE OneRunPerKey /\ ConservingInv
  OBVIOUS
<1>1. frames = {} /\ pc.op = "idle"
  BY DEF Init, Quiet
<1>2. ASSUME NEW h \in Groups PROVE ~HasWork(h)
  BY DEF Init, HasWork, NoneLive, MessagesDue
<1>. QED
  BY <1>1, <1>2 DEF OneRunPerKey, ConservingInv, FramesFlagged, DrainReady, ScanReaches, Startable

(* A scan that is over has left nothing that could start. *)
LEMMA ConservingConserves == ConservingInv => WorkConserving
<1>. SUFFICES ASSUME ConservingInv, pc = Quiet, ~shuttingDown, NEW g \in Groups,
                     ~NoneLive(g) \/ MessagesDue(g), ~KeyBusy(g)
              PROVE  ~HasCapacity(g)
  BY DEF WorkConserving
<1>1. ~Startable(g)
  BY DEF ConservingInv, ScanReaches, Quiet
<1>. QED
  BY <1>1 DEF Startable, HasWork, SlotFree, HasCapacity

(* With one slot of each kind, the code that lets a group pass beside its own run does
   no harm: that run, of the same mode, holds the slot. *)
LEMMA OneRunStep ==
  ASSUME SlotInv, MaxContainers <= 1, MaxHosts <= 1, FramesFlagged, OneRunPerKey, [Next]_vars
  PROVE  OneRunPerKey'
<1>. TypeOK /\ ScanOpen
  BY DEF SlotInv
<1>1. LifecycleStep
  BY Lifecycle
<1>2. CASE UNCHANGED lifecycle
  BY <1>2 DEF lifecycle, OneRunPerKey
<1>3. ASSUME NEW g \in Groups, NEW w \in Work, Starts(g, w)
      PROVE  OneRunPerKey'
  <2>1. PICK i \in FrameIds :
          frames' = frames \cup {[id |-> i, jid |-> g, host |-> hostMode[g], work |-> w]}
    BY <1>3 DEF Starts, Start
  <2>2. ASSUME NEW e \in frames, KeyOf[e.jid] = KeyOf[g] PROVE FALSE
    <3>. DEFINE H == {f \in frames : f.host}
                C == {f \in frames : ~f.host}
    <3>1. e.jid = g /\ e.host = hostMode[g]
      BY <1>3, <2>2 DEF Starts, Passes, ActiveSiblings, FramesFlagged, TypeOK
    <3>2. IsFiniteSet(H) /\ IsFiniteSet(C) /\ Cardinality(H) \in Nat /\ Cardinality(C) \in Nat
      BY HostSplit DEF SlotInv
    <3>3. hostCount = Cardinality(H) /\ containerCount = Cardinality(C)
      BY DEF SlotInv, SlotAccounting
    <3>4. IF hostMode[g] THEN e \in H ELSE e \in C
      BY <3>1
    <3>. HIDE DEF H, C
    <3>5. IF hostMode[g] THEN Cardinality(H) # 0 ELSE Cardinality(C) # 0
      BY <3>2, <3>4, FS_EmptySet
    <3>6. IF hostMode[g] THEN hostCount < MaxHosts ELSE containerCount < MaxContainers
      BY <1>3 DEF Starts, HasCapacity
    <3>. QED
      BY <3>2, <3>3, <3>5, <3>6, ConstantsAssumption
  <2>. QED
    BY <2>1, <2>2 DEF OneRunPerKey
<1>4. ASSUME NEW f \in frames, Ends(f)
      PROVE  OneRunPerKey'
  BY <1>4 DEF Ends, OneRunPerKey
<1>. QED
  BY <1>1, <1>2, <1>3, <1>4 DEF LifecycleStep

(* Whatever the number of slots and groups: as long as no key has two runs, every end
   of a run wakes all that may start, and no slot is idle beside work it could take. *)
THEOREM EndsWakeWaitingWork ==
  ASSUME ModesStay, LimitsAreWide
  PROVE  Spec /\ []OneRunPerKey => []WorkConserving
<1>1. Init => PendingTracked
  BY DEF Init, PendingTracked, HasPending
<1>2. SlotInv /\ PendingTracked /\ OneRunPerKey /\ ConservingInv /\ [Next]_vars => ConservingInv'
  BY FlaggedStep, ConservingStep DEF ConservingInv
<1>. QED
  BY <1>1, <1>2, SlotInvInit, SlotInvStep, PendingStep, ConservingInit, ConservingConserves, PTL
     DEF Spec

(* With one slot of each kind a key never has two runs, and work is conserved. *)
THEOREM OneSlotConserves ==
  ASSUME ModesStay, LimitsAreWide, MaxContainers <= 1, MaxHosts <= 1
  PROVE  Spec => [](OneRunPerKey /\ WorkConserving)
<1>1. SlotInv /\ FramesFlagged /\ OneRunPerKey /\ [Next]_vars => FramesFlagged' /\ OneRunPerKey'
  BY FlaggedStep, OneRunStep
<1>2. Init => FramesFlagged
  BY ConservingInit DEF ConservingInv
<1>3. Spec => []OneRunPerKey
  BY <1>1, <1>2, SlotInvInit, SlotInvStep, ConservingInit, PTL DEF Spec
<1>. QED
  BY <1>3, EndsWakeWaitingWork, PTL
=============================================================================
