-------------------------- MODULE IssueRunsProofs --------------------------
(***************************************************************************)
(* What IssueRuns keeps for any number of runs, requests, edits and        *)
(* restarts.  The invariant has a part for the rows of runs, one for the   *)
(* requests, and one for each property; what the steps do to the requests  *)
(* is summed up once, in the lemma RequestsStep.                           *)
(***************************************************************************)
EXTENDS IssueRuns, SequenceTheorems, TLAPS

RowsOK ==
  /\ issue \in IssueStatuses
  /\ status \in [Runs -> RunStatuses \cup {None}]
  /\ seen \in [Runs -> IssueStatuses \cup {None}]
  /\ stale \subseteq Running
  /\ waiting \subseteq Created
  /\ Executing \subseteq Created \ waiting
  /\ elsewhere \subseteq waiting \cup Executing
  /\ canceling \subseteq Created \ waiting
  /\ edits \in 0..MaxEdits
  /\ restarts \in 0..MaxRestarts

Record == [kind : Kinds, run : Runs, status : RequestStatuses]

RequestsOK ==
  /\ requests \in Seq(Record)
  /\ Len(requests) <= MaxRequests
  /\ \A q \in DOMAIN requests : requests[q].run \in Created

(* A run that is held for approval has asked for nothing else. *)
HeldOK ==
  /\ HeldRunsDoNotRun
  /\ \A p, q \in DOMAIN requests :
       requests[p].kind = "approval" /\ requests[q].run = requests[p].run
         => requests[q].kind = "approval"

(* Only runs that were executed have asked: none that is held. *)
AskedOK ==
  /\ asked \subseteq Created
  /\ \A p \in DOMAIN requests : requests[p].kind = "approval" => requests[p].run \notin asked

(* A canceled run has no task and no process left, but for the autopilot's. *)
CanceledOK ==
  \A r \in Runs : status[r] = "canceled" /\ r \notin elsewhere => r \notin waiting \cup Executing

IssueInv == RowsOK /\ RequestsOK /\ HeldOK /\ AskedOK /\ CanceledOK /\ AwaitingHasRequest

LEMMA FunctionIsSeq ==
  ASSUME NEW S, NEW n \in Nat, NEW f \in [1..n -> S]
  PROVE  f \in Seq(S)
<1>1. f \in UNION {[1..m -> S] : m \in Nat}
  BY Zenon
<1>. QED
  BY <1>1, SeqDef, Zenon

LEMMA TypeParts == RowsOK /\ RequestsOK /\ AskedOK => TypeOK
<1>. SUFFICES ASSUME RowsOK, RequestsOK, AskedOK PROVE TypeOK
  OBVIOUS
<1>. DEFINE Typed == [kind : Kinds, run : Created, status : RequestStatuses]
<1>1. /\ Len(requests) \in Nat
      /\ requests \in [1..Len(requests) -> Record]
      /\ DOMAIN requests = 1..Len(requests)
  BY LenProperties DEF RequestsOK
<1>2. \A q \in 1..Len(requests) : requests[q] \in Typed
  BY <1>1 DEF RequestsOK, Record
<1>3. requests \in [1..Len(requests) -> Typed]
  BY <1>1, <1>2
<1>4. requests \in Seq(Typed)
  BY <1>1, <1>3, FunctionIsSeq
<1>. QED
  BY <1>4 DEF TypeOK, RowsOK, RequestsOK, AskedOK

-----------------------------------------------------------------------------
(* The requests *)

(* What a step leaves of the requests that there are: their runs and kinds. *)
Kept ==
  /\ requests' \in Seq(Record)
  /\ Len(requests') <= MaxRequests
  /\ DOMAIN requests \subseteq DOMAIN requests'
  /\ \A q \in DOMAIN requests :
       requests'[q].run = requests[q].run /\ requests'[q].kind = requests[q].kind

LEMMA CreateRequestKeeps ==
  ASSUME RequestsOK, NEW r \in Runs, NEW k \in Kinds, CreateRequest(r, k)
  PROVE  /\ Kept
         /\ \A q \in DOMAIN requests : requests'[q] = requests[q]
         /\ \E q :
              /\ DOMAIN requests' = DOMAIN requests \cup {q}
              /\ q \notin DOMAIN requests
              /\ requests'[q].run = r /\ requests'[q].kind = k
              /\ requests'[q].status = "pending"
<1>. DEFINE new == [kind |-> k, run |-> r, status |-> "pending"]
<1>1. new \in Record
  BY DEF Record, RequestStatuses
<1>2. requests \in Seq(Record) /\ requests' = Append(requests, new) /\ Len(requests) < MaxRequests
  BY DEF RequestsOK, CreateRequest
<1>. HIDE DEF new
<1>3. /\ requests' \in Seq(Record)
      /\ Len(requests') = Len(requests) + 1
      /\ \A q \in 1..Len(requests) : requests'[q] = requests[q]
      /\ requests'[Len(requests) + 1] = new
  BY <1>1, <1>2
<1>4. /\ Len(requests) \in Nat /\ DOMAIN requests = 1..Len(requests)
      /\ DOMAIN requests' = 1..Len(requests')
  BY <1>2, <1>3, LenProperties
<1>5. DOMAIN requests' = DOMAIN requests \cup {Len(requests) + 1} /\ Len(requests) + 1 \notin DOMAIN requests
  BY <1>3, <1>4
<1>6. Len(requests') <= MaxRequests
  BY <1>2, <1>3, <1>4, BoundsAssumption
<1>7. Kept /\ \A q \in DOMAIN requests : requests'[q] = requests[q]
  BY <1>3, <1>4, <1>5, <1>6 DEF Kept
<1>. QED
  BY <1>3, <1>5, <1>7 DEF new

LEMMA UpdateRequestKeeps ==
  ASSUME RequestsOK, NEW q \in DOMAIN requests, NEW s \in RequestStatuses, UpdateRequest(q, s)
  PROVE  /\ Kept
         /\ DOMAIN requests' = DOMAIN requests
         /\ \A p \in DOMAIN requests :
              requests'[p].status = IF p = q THEN s ELSE requests[p].status
<1>1. /\ requests \in Seq(Record) /\ DOMAIN requests = 1..Len(requests)
      /\ requests \in [1..Len(requests) -> Record]
  BY LenProperties DEF RequestsOK
<1>2. [requests[q] EXCEPT !.status = s] \in Record
  BY <1>1 DEF Record
<1>3. requests' = [requests EXCEPT ![q] = [requests[q] EXCEPT !.status = s]]
  BY <1>1 DEF UpdateRequest
<1>4. /\ requests' \in Seq(Record) /\ Len(requests') = Len(requests)
      /\ DOMAIN requests' = 1..Len(requests')
      /\ \A p \in 1..Len(requests) :
           requests'[p] = IF p = q THEN [requests[q] EXCEPT !.status = s] ELSE requests[p]
  BY <1>1, <1>2, <1>3, ExceptSeq, LenProperties
<1>5. \A p \in DOMAIN requests :
        /\ requests'[p].run = requests[p].run /\ requests'[p].kind = requests[p].kind
        /\ requests'[p].status = IF p = q THEN s ELSE requests[p].status
  BY <1>1, <1>4 DEF Record
<1>. QED
  BY <1>1, <1>4, <1>5 DEF Kept, RequestsOK

LEMMA ReconcileKeeps ==
  ASSUME RequestsOK, NEW E \in SUBSET Expirable, Reconcile(E)
  PROVE  /\ Kept
         /\ DOMAIN requests' = DOMAIN requests
         /\ \A p \in DOMAIN requests :
              requests'[p].status = IF p \in E THEN "expired" ELSE requests[p].status
<1>1. /\ Len(requests) \in Nat /\ DOMAIN requests = 1..Len(requests)
      /\ requests \in [1..Len(requests) -> Record]
  BY LenProperties DEF RequestsOK
<1>2. requests' = [p \in DOMAIN requests |->
                     IF p \in E THEN [requests[p] EXCEPT !.status = "expired"] ELSE requests[p]]
  BY DEF Reconcile
<1>3. \A p \in DOMAIN requests :
        /\ requests'[p] \in Record
        /\ requests'[p].run = requests[p].run /\ requests'[p].kind = requests[p].kind
        /\ requests'[p].status = IF p \in E THEN "expired" ELSE requests[p].status
  BY <1>1, <1>2 DEF Record, RequestStatuses
<1>4. requests' \in [1..Len(requests) -> Record]
  BY <1>1, <1>2, <1>3
<1>5. requests' \in Seq(Record)
  BY <1>1, <1>4, FunctionIsSeq
<1>6. DOMAIN requests' = DOMAIN requests /\ Len(requests') = Len(requests)
  BY <1>1, <1>4, <1>5, LenProperties
<1>. QED
  BY <1>3, <1>5, <1>6 DEF Kept, RequestsOK

-----------------------------------------------------------------------------
(* The rows of runs *)

Decides(q) ==
  \/ Reply(q)
  \/ \E delivered \in BOOLEAN, copy \in IssueStatuses : DecidePermission(q, delivered, copy)
  \/ \E reject \in BOOLEAN : DecideApproval(q, reject)

LEMMA SetStatusKeeps ==
  ASSUME RowsOK, NEW r \in Runs, NEW s \in RunStatuses, SetStatus(r, s)
  PROVE  /\ status' \in [Runs -> RunStatuses \cup {None}]
         /\ Created' = Created \cup {r}
         /\ stale' = stale \ {r} /\ stale' \subseteq Running'
         /\ status'[r] = s
         /\ \A t \in Runs \ {r} : status'[t] = status[t]
BY DEF RowsOK, SetStatus, Created, Running, RunStatuses, None

LEMMA SeenKeeps ==
  ASSUME RowsOK, NEW r \in Runs, NEW i \in IssueStatuses \cup {None}, seen' = [seen EXCEPT ![r] = i]
  PROVE  /\ seen' \in [Runs -> IssueStatuses \cup {None}]
         /\ Executing' = IF i = None THEN Executing \ {r} ELSE Executing \cup {r}
BY DEF RowsOK, Executing

LEMMA RowsStep ==
  ASSUME IssueInv, [Next]_vars
  PROVE  RowsOK' /\ Created \subseteq Created'
<1>. USE DEF IssueInv
<1>0. RowsOK
  OBVIOUS
<1>1. \A r \in Runs : Begin(r) => RowsOK' /\ Created \subseteq Created'
  <2>. SUFFICES ASSUME NEW r \in Runs, Begin(r) PROVE RowsOK' /\ Created \subseteq Created'
    OBVIOUS
  <2>1. SetStatus(r, "running") /\ "running" \in RunStatuses
    BY DEF Begin, RunStatuses
  <2>2. issue \in IssueStatuses \cup {None} /\ issue # None
    BY DEF RowsOK, IssueStatuses, None
  <2>3. Executing' = Executing \cup {r} /\ seen' \in [Runs -> IssueStatuses \cup {None}]
    BY <2>2, SeenKeeps DEF Begin
  <2>. QED
    BY <2>1, <2>3, SetStatusKeeps DEF Begin, RowsOK, bounds, IssueStatuses
<1>2. \A r \in Runs : Stopped(r) \/ Cancel(r) \/ CancelExecuting(r)
        => RowsOK' /\ Created \subseteq Created'
  <2>. SUFFICES ASSUME NEW r \in Runs, Stopped(r) \/ Cancel(r) \/ CancelExecuting(r)
                PROVE  RowsOK' /\ Created \subseteq Created'
    OBVIOUS
  <2>1. Executing' = Executing /\ "canceled" \in RunStatuses
    BY DEF Stopped, Cancel, CancelExecuting, Executing, RunStatuses
  <2>2. CASE Stopped(r) /\ r \in Executing
    BY <2>1, <2>2 DEF Stopped, RowsOK, Created, Running, bounds
  <2>3. CASE Stopped(r) /\ r \notin Executing
    BY <2>1, <2>3, SetStatusKeeps DEF Stopped, RowsOK, bounds
  <2>4. CASE Cancel(r)
    <3>1. r \in Created
      BY <2>4 DEF Cancel, Cancelable, Created, None
    <3>. QED
      BY <2>1, <2>4, <3>1, SetStatusKeeps DEF Cancel, RowsOK, bounds
  <2>5. CASE CancelExecuting(r)
    BY <2>1, <2>5 DEF CancelExecuting, RowsOK, Created, Running, bounds
  <2>. QED
    BY <2>2, <2>3, <2>4, <2>5
<1>3. \A r \in Runs : AskUser(r) \/ Output(r) \/ Lapse(r) => RowsOK' /\ Created \subseteq Created'
  BY DEF AskUser, Output, Lapse, RowsOK, Created, Running, Executing, bounds
<1>4. \A r \in Runs : AskPermission(r) \/ TakeQuestion(r) => RowsOK' /\ Created \subseteq Created'
  <2>. SUFFICES ASSUME NEW r \in Runs, AskPermission(r) \/ TakeQuestion(r)
                PROVE  RowsOK' /\ Created \subseteq Created'
    OBVIOUS
  <2>1. SetStatus(r, "awaiting_input") /\ "awaiting_input" \in RunStatuses
    BY DEF AskPermission, TakeQuestion, RunStatuses
  <2>2. Executing' = Executing /\ issue' \in IssueStatuses
    BY DEF AskPermission, TakeQuestion, Executing, RowsOK, IssueStatuses
  <2>. QED
    BY <2>1, <2>2, SetStatusKeeps DEF AskPermission, TakeQuestion, RowsOK, bounds
<1>5. \A r \in Runs : EndByException(r) \/ (\E ok \in BOOLEAN : End(r, ok))
        => RowsOK' /\ Created \subseteq Created'
  <2>. SUFFICES ASSUME NEW r \in Runs, EndByException(r) \/ (\E ok \in BOOLEAN : End(r, ok))
                PROVE  RowsOK' /\ Created \subseteq Created'
    OBVIOUS
  <2>1. /\ Executing' = Executing \ {r}
        /\ seen' \in [Runs -> IssueStatuses \cup {None}]
        /\ elsewhere' = elsewhere \ {r}
    BY SeenKeeps DEF EndByException, End, Leave
  <2>2. issue' \in IssueStatuses
    BY DEF EndByException, End, RowsOK, IssueStatuses
  <2>3. /\ r \in Executing
        /\ UNCHANGED <<waiting, canceling, edits, restarts>>
    BY DEF EndByException, End, bounds
  <2>4. \/ UNCHANGED <<status, stale>>
        \/ \E s \in RunStatuses : SetStatus(r, s)
    BY DEF EndByException, End, RunStatuses
  <2>5. CASE UNCHANGED <<status, stale>>
    BY <2>1, <2>2, <2>3, <2>5 DEF RowsOK, Created, Running
  <2>6. CASE \E s \in RunStatuses : SetStatus(r, s)
    BY <2>1, <2>2, <2>3, <2>6, SetStatusKeeps DEF RowsOK
  <2>. QED
    BY <2>4, <2>5, <2>6
<1>6. \A r \in Runs :
        DriveForApproval(r) \/ DriveBlocked(r) \/ Drive(r) \/ (\E auto \in BOOLEAN : StartRun(r, auto))
          => RowsOK' /\ Created \subseteq Created'
  <2>. SUFFICES ASSUME NEW r \in Runs,
                       DriveForApproval(r) \/ DriveBlocked(r) \/ Drive(r)
                         \/ (\E auto \in BOOLEAN : StartRun(r, auto))
                PROVE  RowsOK' /\ Created \subseteq Created'
    OBVIOUS
  <2>1. /\ r \notin Created
        /\ \E s \in RunStatuses : SetStatus(r, s)
    BY DEF DriveForApproval, DriveBlocked, Drive, StartRun, CreateIssueAgentRun, IsNext, RunStatuses
  <2>2. /\ Executing' = Executing /\ UNCHANGED <<seen, canceling, edits, restarts>>
        /\ issue' \in IssueStatuses
    BY DEF DriveForApproval, DriveBlocked, Drive, StartRun, Executing, RowsOK, IssueStatuses, bounds
  <2>3. /\ waiting' = waiting \/ waiting' = waiting \cup {r}
        /\ elsewhere' = elsewhere \/ (elsewhere' = elsewhere \cup {r} /\ waiting' = waiting \cup {r})
    BY DEF DriveForApproval, DriveBlocked, Drive, StartRun
  <2>. QED
    BY <2>1, <2>2, <2>3, SetStatusKeeps DEF RowsOK
<1>7. \A q \in DOMAIN requests :
        Decides(q) => RowsOK' /\ Created \subseteq Created'
  <2>. SUFFICES ASSUME NEW q \in DOMAIN requests, Decides(q)
                PROVE  RowsOK' /\ Created \subseteq Created'
    OBVIOUS
  <2>1. requests[q].run \in Runs \cap Created
    BY DEF RequestsOK, Created
  <2>2. /\ Executing' = Executing
        /\ UNCHANGED <<seen, waiting, elsewhere, canceling, edits, restarts>>
        /\ issue' \in IssueStatuses
    BY DEF Decides, Reply, DecidePermission, DecideApproval, Executing, RowsOK, IssueStatuses, bounds
  <2>3. \/ UNCHANGED <<status, stale>>
        \/ \E s \in RunStatuses : SetStatus(requests[q].run, s)
    BY DEF Decides, Reply, DecidePermission, DecideApproval, RunStatuses
  <2>4. CASE UNCHANGED <<status, stale>>
    BY <2>2, <2>4 DEF RowsOK, Created, Running
  <2>5. CASE \E s \in RunStatuses : SetStatus(requests[q].run, s)
    BY <2>1, <2>2, <2>5, SetStatusKeeps DEF RowsOK
  <2>. QED
    BY <2>3, <2>4, <2>5
<1>8. \A E \in SUBSET Expirable : Reconcile(E) => RowsOK' /\ Created \subseteq Created'
  <2>. SUFFICES ASSUME NEW E \in SUBSET Expirable, Reconcile(E)
                PROVE  RowsOK' /\ Created \subseteq Created'
    OBVIOUS
  <2>1. /\ status' \in [Runs -> RunStatuses \cup {None}]
        /\ Created' = Created
    BY DEF Reconcile, RowsOK, RunStatuses, Created, Running, None
  <2>2. Executing' = Executing /\ issue' \in IssueStatuses
    BY DEF Reconcile, RowsOK, IssueStatuses, Executing
  <2>. QED
    BY <2>1, <2>2 DEF Reconcile, RowsOK, bounds
<1>9. Restart => RowsOK' /\ Created \subseteq Created'
  BY BoundsAssumption DEF Restart, RowsOK, Created, Running, Executing
<1>10. \A s \in IssueStatuses : UpdateIssue(s) => RowsOK' /\ Created \subseteq Created'
  BY BoundsAssumption DEF UpdateIssue, RowsOK, Created, Running, Executing
<1>11. UNCHANGED vars => RowsOK' /\ Created \subseteq Created'
  BY DEF vars, RowsOK, Created, Running, Executing
<1>. DEFINE Goal == RowsOK' /\ Created \subseteq Created'
<1>. HIDE DEF Goal
<1>12. ASSUME ServerNext PROVE Goal
  <2>1. ASSUME NEW r \in Runs,
               \/ Begin(r) \/ Stopped(r) \/ Output(r)
               \/ AskPermission(r) \/ AskUser(r) \/ TakeQuestion(r)
        PROVE  Goal
    BY <2>1, <1>1, <1>2, <1>3, <1>4 DEF Goal
  <2>2. ASSUME NEW r \in Runs, EndByException(r) \/ (\E ok \in BOOLEAN : End(r, ok))
        PROVE  Goal
    BY <2>2, <1>5 DEF Goal
  <2>3. ASSUME NEW r \in Runs, Drive(r) \/ DriveForApproval(r) \/ DriveBlocked(r) \/ Lapse(r)
        PROVE  Goal
    BY <2>3, <1>3, <1>6 DEF Goal
  <2>4. ASSUME \E E \in SUBSET Expirable : Reconcile(E)
        PROVE  Goal
    BY <2>4, <1>8 DEF Goal
  <2>. QED
    BY <1>9, <1>12, <2>1, <2>2, <2>3, <2>4 DEF ServerNext, Goal
<1>13. ASSUME UserNext PROVE Goal
  <2>1. ASSUME NEW r \in Runs, NEW auto \in BOOLEAN, StartRun(r, auto)
        PROVE  Goal
    BY <2>1, <1>6 DEF Goal
  <2>2. ASSUME NEW r \in Runs, Cancel(r) \/ CancelExecuting(r)
        PROVE  Goal
    BY <2>2, <1>2 DEF Goal
  <2>3. ASSUME NEW q \in DOMAIN requests, Decides(q)
        PROVE  Goal
    BY <2>3, <1>7 DEF Goal
  <2>4. ASSUME NEW s \in IssueStatuses, UpdateIssue(s)
        PROVE  Goal
    BY <2>4, <1>10 DEF Goal
  <2>. QED
    BY <1>13, <2>1, <2>2, <2>3, <2>4 DEF UserNext, Decides
<1>. QED
  BY <1>11, <1>12, <1>13 DEF Next, Goal

-----------------------------------------------------------------------------
(* The steps, by what they do to the requests *)

Asks(r) == AskPermission(r) \/ TakeQuestion(r) \/ DriveForApproval(r)

Others ==
  \/ \E r \in Runs : Begin(r) \/ Stopped(r) \/ AskUser(r) \/ Output(r) \/ Lapse(r) \/ DriveBlocked(r)
  \/ \E r \in Runs : EndByException(r) \/ (\E ok \in BOOLEAN : End(r, ok))
  \/ \E r \in Runs, auto \in BOOLEAN : StartRun(r, auto)
  \/ \E r \in Runs : Cancel(r) \/ CancelExecuting(r)
  \/ \E s \in IssueStatuses : UpdateIssue(s)
  \/ Restart

LEMMA Steps ==
  [Next]_vars <=> \/ \E r \in Runs : Asks(r)
                  \/ \E q \in DOMAIN requests : Decides(q)
                  \/ \E r \in Runs : Drive(r)
                  \/ \E E \in SUBSET Expirable : Reconcile(E)
                  \/ Others
                  \/ UNCHANGED vars
BY DEF Next, ServerNext, UserNext, Asks, Decides, Others

LEMMA OthersKeep == Others \/ UNCHANGED vars => UNCHANGED requests
BY DEF Others, vars, Begin, Stopped, AskUser, Output, Lapse, DriveBlocked, EndByException, End, StartRun,
       Cancel, CancelExecuting, UpdateIssue, Restart

(* The driver takes up no issue with a run that waits, so it never uses an answer. *)
LEMMA DriveKeeps == \A r \in Runs : RequestsOK /\ Drive(r) => UNCHANGED requests
<1>. SUFFICES ASSUME NEW r \in Runs, RequestsOK, Drive(r) PROVE UNCHANGED requests
  OBVIOUS
<1>1. Inherited = {}
  BY DEF Drive, Drivable, Inherited, IsLast, Created
<1>. QED
  BY <1>1 DEF Drive

LEMMA RequestsStep ==
  ASSUME IssueInv, [Next]_vars
  PROVE  RequestsOK'
<1>. USE DEF IssueInv
<1>1. Created \subseteq Created'
  BY RowsStep
<1>2. CASE \E r \in Runs : Asks(r)
  <2>1. PICK r \in Runs : Asks(r)
    BY <1>2
  <2>2. PICK k \in Kinds : CreateRequest(r, k)
    BY <2>1 DEF Asks, AskPermission, TakeQuestion, DriveForApproval, Kinds
  <2>3. r \in Created'
    BY <2>1, SetStatusKeeps
    DEF Asks, AskPermission, TakeQuestion, DriveForApproval, CreateIssueAgentRun, RunStatuses
  <2>. QED
    <3>1. Kept
      BY <2>2, CreateRequestKeeps
    <3>2. PICK n : /\ DOMAIN requests' = DOMAIN requests \cup {n}
                   /\ n \notin DOMAIN requests
                   /\ requests'[n].run = r /\ requests'[n].kind = k
                   /\ requests'[n].status = "pending"
      BY <2>2, CreateRequestKeeps
    <3>. QED
      BY <1>1, <2>3, <3>1, <3>2 DEF Kept, RequestsOK
<1>3. CASE \E q \in DOMAIN requests : Decides(q)
  <2>1. PICK q \in DOMAIN requests : UpdateRequest(q, "answered")
    BY <1>3 DEF Decides, Reply, DecidePermission, DecideApproval
  <2>2. "answered" \in RequestStatuses
    BY DEF RequestStatuses
  <2>. QED
    BY <1>1, <2>1, <2>2, UpdateRequestKeeps DEF Kept, RequestsOK
<1>4. CASE \E E \in SUBSET Expirable : Reconcile(E)
  BY <1>1, <1>4, ReconcileKeeps DEF Kept, RequestsOK
<1>5. CASE UNCHANGED requests
  BY <1>1, <1>5 DEF RequestsOK
<1>. QED
  BY <1>2, <1>3, <1>4, <1>5, Steps, OthersKeep, DriveKeeps

-----------------------------------------------------------------------------
(* Runs that are held *)

LEMMA HeldRunStep ==
  ASSUME IssueInv, [Next]_vars, NEW p \in DOMAIN requests, requests[p].kind = "approval",
         NEW h \in Runs, h = requests[p].run
  PROVE  status'[h] \in {"awaiting_input", "canceled"} /\ h \notin waiting' \cup Executing'
<1>. DEFINE Goal == status'[h] \in {"awaiting_input", "canceled"} /\ h \notin waiting' \cup Executing'
<1>. USE DEF IssueInv
<1>1. /\ status[h] \in {"awaiting_input", "canceled"}
      /\ h \notin waiting /\ seen[h] = None
      /\ h \in Created
      /\ h \notin asked
      /\ \A q \in RequestsOf(h) : requests[q].kind = "approval"
  BY DEF HeldOK, AskedOK, HeldRunsDoNotRun, Executing, RequestsOK, RequestsOf
<1>2. \A r \in Runs, s \in RunStatuses :
        SetStatus(r, s) => status'[h] = IF r = h THEN s ELSE status[h]
  BY DEF SetStatus, RowsOK
<1>3. ASSUME NEW r \in Runs, Asks(r) PROVE Goal
  <2>1. r # h /\ \E s \in RunStatuses : SetStatus(r, s)
    BY <1>1, <1>3
    DEF Asks, AskPermission, TakeQuestion, DriveForApproval, CreateIssueAgentRun, IsNext, Executing, RunStatuses
  <2>2. UNCHANGED <<waiting, seen>>
    BY <1>3 DEF Asks, AskPermission, TakeQuestion, DriveForApproval
  <2>. QED
    BY <1>1, <1>2, <2>1, <2>2 DEF Executing
<1>4. ASSUME NEW q \in DOMAIN requests, Decides(q) PROVE Goal
  <2>1. UNCHANGED <<waiting, seen>>
    BY <1>4 DEF Decides, Reply, DecidePermission, DecideApproval
  <2>2. requests[q].kind = "permission" => requests[q].run # h
    BY <1>1 DEF RequestsOf
  <2>3. requests[q].run \in Runs /\ "running" \in RunStatuses /\ "canceled" \in RunStatuses
    BY DEF RequestsOK, Created, RunStatuses
  <2>4. status'[h] \in {status[h], "canceled"}
    BY <1>2, <1>4, <2>2, <2>3 DEF Decides, Reply, DecidePermission, DecideApproval
  <2>. QED
    BY <1>1, <2>1, <2>4 DEF Executing
<1>5. ASSUME NEW r \in Runs, Drive(r) \/ DriveBlocked(r) \/ (\E auto \in BOOLEAN : StartRun(r, auto))
      PROVE  Goal
  <2>1. r # h /\ \E s \in RunStatuses : SetStatus(r, s)
    BY <1>1, <1>5 DEF Drive, DriveBlocked, StartRun, CreateIssueAgentRun, IsNext, RunStatuses
  <2>2. seen' = seen /\ waiting' \subseteq waiting \cup {r}
    BY <1>5 DEF Drive, DriveBlocked, StartRun
  <2>. QED
    BY <1>1, <1>2, <2>1, <2>2 DEF Executing
<1>6. ASSUME NEW E \in SUBSET Expirable, Reconcile(E) PROVE Goal
  <2>1. h \notin stale /\ RequestsOf(h) \cap E = {}
    BY <1>1 DEF RowsOK, Running, Expirable
  <2>. QED
    BY <1>1, <1>6, <2>1 DEF Reconcile, Executing
<1>7. ASSUME NEW r \in Runs, Begin(r) \/ EndByException(r) \/ (\E ok \in BOOLEAN : End(r, ok))
      PROVE  Goal
  <2>1. r # h
    BY <1>1, <1>7 DEF Begin, EndByException, End, Executing
  <2>2. UNCHANGED status \/ \E s \in RunStatuses : SetStatus(r, s)
    BY <1>7 DEF Begin, EndByException, End, RunStatuses
  <2>3. waiting' \subseteq waiting /\ seen'[h] = seen[h]
    BY <1>7, <2>1 DEF Begin, EndByException, End, Leave, RowsOK
  <2>. QED
    BY <1>1, <1>2, <2>1, <2>2, <2>3 DEF Executing
<1>8. ASSUME NEW r \in Runs, Stopped(r) \/ Cancel(r) \/ CancelExecuting(r) PROVE Goal
  <2>1. UNCHANGED status \/ SetStatus(r, "canceled")
    BY <1>8 DEF Stopped, Cancel, CancelExecuting
  <2>2. waiting' \subseteq waiting /\ seen' = seen
    BY <1>8 DEF Stopped, Cancel, CancelExecuting
  <2>. QED
    BY <1>1, <1>2, <2>1, <2>2 DEF Executing, RunStatuses
<1>9. ASSUME \/ \E r \in Runs : AskUser(r) \/ Output(r) \/ Lapse(r)
             \/ \E s \in IssueStatuses : UpdateIssue(s)
             \/ Restart
             \/ UNCHANGED vars
      PROVE  Goal
  <2>1. status' = status /\ waiting' \subseteq waiting /\ seen'[h] = None
    BY <1>1, <1>9 DEF AskUser, Output, Lapse, UpdateIssue, Restart, vars
  <2>. QED
    BY <1>1, <2>1 DEF Executing
<1>. HIDE DEF Goal
<1>10. ASSUME Others PROVE Goal
  BY <1>5, <1>7, <1>8, <1>9, <1>10 DEF Others
<1>11. Goal
  BY <1>3, <1>4, <1>5, <1>6, <1>9, <1>10, Steps
<1>. QED
  BY <1>11 DEF Goal

LEMMA HeldStep ==
  ASSUME IssueInv, [Next]_vars
  PROVE  HeldOK'
<1>. USE DEF IssueInv
<1>1. \A p \in DOMAIN requests : requests[p].run \in Runs /\ requests[p].run \in Created
  BY DEF RequestsOK, Created
<1>2. \A p \in DOMAIN requests : requests[p].kind = "approval" =>
        /\ status'[requests[p].run] \in {"awaiting_input", "canceled"}
        /\ requests[p].run \notin waiting' \cup Executing'
  BY <1>1, HeldRunStep
<1>3. CASE Kept /\ DOMAIN requests' = DOMAIN requests
  BY <1>2, <1>3 DEF Kept, HeldOK, HeldRunsDoNotRun
<1>4. CASE UNCHANGED requests
  BY <1>2, <1>4 DEF HeldOK, HeldRunsDoNotRun
<1>5. ASSUME NEW r \in Runs, Asks(r) PROVE HeldOK'
  <2>1. PICK k \in Kinds : /\ CreateRequest(r, k)
                           /\ k = "approval" => DriveForApproval(r)
                           /\ k # "approval" => r \in Executing \cup asked
    BY <1>5 DEF Asks, AskPermission, TakeQuestion, DriveForApproval, Kinds
  <2>2. Kept
    BY <2>1, CreateRequestKeeps
  <2>3. PICK n : /\ DOMAIN requests' = DOMAIN requests \cup {n}
                 /\ n \notin DOMAIN requests
                 /\ requests'[n].run = r /\ requests'[n].kind = k
                 /\ requests'[n].status = "pending"
    BY <2>1, CreateRequestKeeps
  <2>4. CASE k = "approval"
    <3>1. /\ r \notin Created /\ SetStatus(r, "awaiting_input")
          /\ UNCHANGED <<waiting, seen>>
      BY <2>1, <2>4 DEF DriveForApproval, CreateIssueAgentRun, IsNext
    <3>2. status'[r] = "awaiting_input" /\ r \notin waiting' \cup Executing'
      BY <3>1 DEF SetStatus, RowsOK, Executing
    <3>3. \A q \in DOMAIN requests : requests'[q].run # r
      BY <1>1, <2>2, <3>1 DEF Kept
    <3>. QED
      BY <1>2, <2>2, <2>3, <3>2, <3>3 DEF Kept, HeldOK, HeldRunsDoNotRun
  <2>5. CASE k # "approval"
    <3>1. \A p \in DOMAIN requests : requests[p].kind = "approval" => requests[p].run # r
      BY <2>1, <2>5 DEF HeldOK, AskedOK, HeldRunsDoNotRun
    <3>. QED
      BY <1>2, <2>2, <2>3, <2>5, <3>1 DEF Kept, HeldOK, HeldRunsDoNotRun
  <2>. QED
    BY <2>4, <2>5
<1>6. ASSUME NEW q \in DOMAIN requests, Decides(q) PROVE HeldOK'
  <2>1. UpdateRequest(q, "answered") /\ "answered" \in RequestStatuses
    BY <1>6 DEF Decides, Reply, DecidePermission, DecideApproval, RequestStatuses
  <2>. QED
    BY <1>3, <2>1, UpdateRequestKeeps
<1>7. ASSUME NEW E \in SUBSET Expirable, Reconcile(E) PROVE HeldOK'
  BY <1>3, <1>7, ReconcileKeeps
<1>. QED
  BY <1>4, <1>5, <1>6, <1>7, Steps, OthersKeep, DriveKeeps

-----------------------------------------------------------------------------
(* Questions on their way *)

LEMMA AskedGrows == [Next]_vars => asked' \subseteq asked \cup Executing
<1>1. ASSUME Others \/ UNCHANGED vars PROVE asked' \subseteq asked \cup Executing
  BY <1>1
  DEF Others, vars, Begin, Stopped, AskUser, Output, Lapse, DriveBlocked, EndByException, End,
      StartRun, Cancel, CancelExecuting, UpdateIssue, Restart
<1>2. \A r \in Runs : Asks(r) \/ Drive(r) => asked' \subseteq asked
  BY DEF Asks, AskPermission, TakeQuestion, DriveForApproval, Drive
<1>3. \A q \in DOMAIN requests : Decides(q) => asked' = asked
  BY DEF Decides, Reply, DecidePermission, DecideApproval
<1>4. \A E \in SUBSET Expirable : Reconcile(E) => asked' = asked
  BY DEF Reconcile
<1>. QED
  BY <1>1, <1>2, <1>3, <1>4, Steps

LEMMA AskedStep ==
  ASSUME IssueInv, [Next]_vars
  PROVE  AskedOK'
<1>. USE DEF IssueInv
<1>1. asked' \subseteq asked \cup Executing
  BY AskedGrows
<1>2. asked' \subseteq Created'
  BY <1>1, RowsStep DEF AskedOK, RowsOK
<1>3. \A p \in DOMAIN requests : requests[p].kind = "approval" => requests[p].run \notin asked'
  BY <1>1 DEF HeldOK, HeldRunsDoNotRun, AskedOK
<1>4. CASE Kept /\ DOMAIN requests' = DOMAIN requests
  BY <1>2, <1>3, <1>4 DEF Kept, AskedOK
<1>5. CASE UNCHANGED requests
  BY <1>2, <1>3, <1>5 DEF AskedOK
<1>6. ASSUME NEW r \in Runs, Asks(r) PROVE AskedOK'
  <2>1. PICK k \in Kinds : CreateRequest(r, k) /\ (k = "approval" => DriveForApproval(r))
    BY <1>6 DEF Asks, AskPermission, TakeQuestion, DriveForApproval, Kinds
  <2>2. Kept
    BY <2>1, CreateRequestKeeps
  <2>3. PICK n : /\ DOMAIN requests' = DOMAIN requests \cup {n}
                 /\ n \notin DOMAIN requests
                 /\ requests'[n].run = r /\ requests'[n].kind = k
                 /\ requests'[n].status = "pending"
    BY <2>1, CreateRequestKeeps
  <2>4. k = "approval" => r \notin asked'
    BY <1>1, <2>1 DEF DriveForApproval, CreateIssueAgentRun, IsNext, AskedOK, RowsOK
  <2>. QED
    BY <1>2, <1>3, <2>2, <2>3, <2>4 DEF Kept, AskedOK
<1>7. ASSUME NEW q \in DOMAIN requests, Decides(q) PROVE AskedOK'
  <2>1. UpdateRequest(q, "answered") /\ "answered" \in RequestStatuses
    BY <1>7 DEF Decides, Reply, DecidePermission, DecideApproval, RequestStatuses
  <2>. QED
    BY <1>4, <2>1, UpdateRequestKeeps
<1>8. ASSUME NEW E \in SUBSET Expirable, Reconcile(E) PROVE AskedOK'
  BY <1>4, <1>8, ReconcileKeeps
<1>. QED
  BY <1>5, <1>6, <1>7, <1>8, Steps, OthersKeep, DriveKeeps

-----------------------------------------------------------------------------
(* Canceled runs *)

LEMMA CanceledRunStep ==
  ASSUME IssueInv, [Next]_vars, NEW c \in Runs, status[c] = "canceled", c \notin elsewhere \cup asked,
         ~(\E q \in RequestsOf(c) : Pending(q) /\ requests[q].kind = "permission")
  PROVE  status'[c] = "canceled"
<1>. DEFINE Goal == status'[c] = "canceled"
<1>. USE DEF IssueInv
<1>1. c \in Created /\ c \notin waiting \cup Executing /\ c \notin stale
  BY DEF CanceledOK, RowsOK, Running, Created, None
<1>2. \A r \in Runs, s \in RunStatuses :
        SetStatus(r, s) => status'[c] = IF r = c THEN s ELSE status[c]
  BY DEF SetStatus, RowsOK
<1>3. ASSUME NEW r \in Runs,
             \/ Asks(r) \/ Drive(r) \/ DriveBlocked(r) \/ (\E auto \in BOOLEAN : StartRun(r, auto))
             \/ Begin(r) \/ EndByException(r) \/ (\E ok \in BOOLEAN : End(r, ok))
      PROVE  Goal
  <2>1. r # c
    BY <1>1, <1>3
    DEF Asks, AskPermission, TakeQuestion, DriveForApproval, Drive, DriveBlocked, StartRun, Begin,
        EndByException, End, CreateIssueAgentRun, IsNext
  <2>2. UNCHANGED status \/ \E s \in RunStatuses : SetStatus(r, s)
    BY <1>3
    DEF Asks, AskPermission, TakeQuestion, DriveForApproval, Drive, DriveBlocked, StartRun, Begin,
        EndByException, End, CreateIssueAgentRun, RunStatuses
  <2>. QED
    BY <1>2, <2>1, <2>2
<1>4. ASSUME NEW q \in DOMAIN requests, Decides(q) PROVE Goal
  <2>1. requests[q].run \in Runs /\ "running" \in RunStatuses /\ "canceled" \in RunStatuses
    BY DEF RequestsOK, Created, RunStatuses
  <2>2. Pending(q) /\ requests[q].kind = "permission" => requests[q].run # c
    BY DEF RequestsOf
  <2>. QED
    BY <1>2, <1>4, <2>1, <2>2 DEF Decides, Reply, DecidePermission, DecideApproval
<1>5. ASSUME NEW E \in SUBSET Expirable, Reconcile(E) PROVE Goal
  BY <1>1, <1>5 DEF Reconcile
<1>6. ASSUME NEW r \in Runs, Stopped(r) \/ Cancel(r) \/ CancelExecuting(r) PROVE Goal
  <2>1. UNCHANGED status \/ SetStatus(r, "canceled")
    BY <1>6 DEF Stopped, Cancel, CancelExecuting
  <2>. QED
    BY <1>2, <2>1 DEF RunStatuses
<1>7. ASSUME \/ \E r \in Runs : AskUser(r) \/ Output(r) \/ Lapse(r)
             \/ \E s \in IssueStatuses : UpdateIssue(s)
             \/ Restart
             \/ UNCHANGED vars
      PROVE  Goal
  BY <1>7 DEF AskUser, Output, Lapse, UpdateIssue, Restart, vars
<1>. HIDE DEF Goal
<1>8. ASSUME Others PROVE Goal
  BY <1>3, <1>6, <1>7, <1>8 DEF Others
<1>9. Goal
  BY <1>3, <1>4, <1>5, <1>7, <1>8, Steps
<1>. QED
  BY <1>9 DEF Goal

LEMMA CanceledStep ==
  ASSUME IssueInv, [Next]_vars
  PROVE  CanceledOK'
<1>. USE DEF IssueInv
<1>0. RowsOK /\ CanceledOK /\ Executing \cap waiting = {}
  BY DEF RowsOK
<1>1. ASSUME NEW r \in Runs, Begin(r) PROVE CanceledOK'
  BY <1>0, <1>1 DEF Begin, SetStatus, RowsOK, CanceledOK, Executing
<1>2. ASSUME NEW r \in Runs, EndByException(r) \/ (\E ok \in BOOLEAN : End(r, ok)) PROVE CanceledOK'
  <2>1. \/ UNCHANGED status
        \/ \E s \in {"success", "error"} : SetStatus(r, s)
    BY <1>2 DEF EndByException, End
  <2>2. r \in Executing /\ Leave(r) /\ waiting' = waiting
    BY <1>2 DEF EndByException, End
  <2>3. seen'[r] = None /\ \A t \in Runs \ {r} : seen'[t] = seen[t]
    BY <2>2 DEF Leave, RowsOK
  <2>4. \A t \in Runs \ {r} : status'[t] = status[t]
    BY <2>1 DEF SetStatus, RowsOK
  <2>. QED
    BY <1>0, <2>2, <2>3, <2>4 DEF Leave, CanceledOK, Executing
<1>3. ASSUME NEW r \in Runs,
             Asks(r) \/ Drive(r) \/ DriveBlocked(r) \/ (\E auto \in BOOLEAN : StartRun(r, auto))
      PROVE  CanceledOK'
  <2>1. CASE AskPermission(r) \/ TakeQuestion(r)
    BY <1>0, <2>1 DEF AskPermission, TakeQuestion, SetStatus, RowsOK, CanceledOK, Executing
  <2>2. CASE Drive(r) \/ DriveBlocked(r) \/ DriveForApproval(r) \/ (\E auto \in BOOLEAN : StartRun(r, auto))
    <3>1. r \notin Created /\ seen' = seen
      BY <2>2 DEF Drive, DriveBlocked, DriveForApproval, StartRun, CreateIssueAgentRun, IsNext
    <3>2. r \notin waiting \cup Executing
      BY <3>1 DEF RowsOK
    <3>3. \/ SetStatus(r, "canceled") /\ UNCHANGED <<waiting, elsewhere>>
          \/ /\ SetStatus(r, "queued") \/ SetStatus(r, "awaiting_input")
             /\ waiting' \subseteq waiting \cup {r}
             /\ elsewhere \subseteq elsewhere'
             /\ elsewhere' \subseteq elsewhere \cup {r}
      BY <2>2 DEF Drive, DriveBlocked, DriveForApproval, StartRun, CreateIssueAgentRun
    <3>. QED
      BY <1>0, <3>1, <3>2, <3>3 DEF SetStatus, RowsOK, CanceledOK, Executing
  <2>. QED
    BY <1>3, <2>1, <2>2 DEF Asks
<1>4. ASSUME NEW q \in DOMAIN requests, Decides(q) PROVE CanceledOK'
  <2>1. requests[q].run \in Runs
    BY DEF RequestsOK, Created
  <2>2. UNCHANGED <<waiting, elsewhere, seen>>
    BY <1>4 DEF Decides, Reply, DecidePermission, DecideApproval
  <2>3. CASE UNCHANGED status
    BY <1>0, <2>2, <2>3 DEF CanceledOK, Executing
  <2>4. CASE SetStatus(requests[q].run, "running")
    BY <1>0, <2>1, <2>2, <2>4 DEF SetStatus, RowsOK, CanceledOK, Executing
  <2>5. CASE SetStatus(requests[q].run, "canceled") /\ requests[q].kind = "approval"
    <3>1. requests[q].run \notin waiting \cup Executing
      BY <2>5 DEF HeldOK, HeldRunsDoNotRun
    <3>. QED
      BY <1>0, <2>1, <2>2, <2>5, <3>1 DEF SetStatus, RowsOK, CanceledOK, Executing
  <2>. QED
    BY <1>4, <2>3, <2>4, <2>5 DEF Decides, Reply, DecidePermission, DecideApproval
<1>5. ASSUME NEW E \in SUBSET Expirable, Reconcile(E) PROVE CanceledOK'
  <2>1. \A t \in Runs : status'[t] = "canceled" => status[t] = "canceled"
    BY <1>5 DEF Reconcile
  <2>. QED
    BY <1>0, <1>5, <2>1 DEF Reconcile, CanceledOK, Executing
<1>6. ASSUME NEW r \in Runs, Stopped(r) \/ Cancel(r) \/ CancelExecuting(r) PROVE CanceledOK'
  <2>1. CASE Stopped(r)
    BY <1>0, <2>1 DEF Stopped, SetStatus, RowsOK, CanceledOK, Executing
  <2>2. CASE Cancel(r)
    BY <1>0, <2>2 DEF Cancel, SetStatus, RowsOK, CanceledOK, Executing
  <2>3. CASE CancelExecuting(r)
    BY <1>0, <2>3 DEF CancelExecuting, CanceledOK, Executing
  <2>. QED
    BY <1>6, <2>1, <2>2, <2>3
<1>7. ASSUME \/ \E r \in Runs : AskUser(r) \/ Output(r) \/ Lapse(r)
             \/ \E s \in IssueStatuses : UpdateIssue(s)
             \/ Restart
             \/ UNCHANGED vars
      PROVE  CanceledOK'
  BY <1>0, <1>7 DEF AskUser, Output, Lapse, UpdateIssue, Restart, vars, CanceledOK, Executing
<1>8. ASSUME Others PROVE CanceledOK'
  BY <1>1, <1>2, <1>3, <1>6, <1>7, <1>8 DEF Others
<1>. QED
  BY <1>3, <1>4, <1>5, <1>7, <1>8, Steps

-----------------------------------------------------------------------------
(* Runs that wait for an answer *)

LEMMA AwaitingStep ==
  ASSUME IssueInv, [Next]_vars
  PROVE  AwaitingHasRequest'
<1>. USE DEF IssueInv
<1>0. \A r \in Runs, s \in RunStatuses :
        SetStatus(r, s) => \A t \in Runs : status'[t] = IF t = r THEN s ELSE status[t]
  BY DEF SetStatus, RowsOK
<1>1. ASSUME NEW r \in Runs, Asks(r) PROVE AwaitingHasRequest'
  <2>1. SetStatus(r, "awaiting_input") /\ "awaiting_input" \in RunStatuses
    BY <1>1 DEF Asks, AskPermission, TakeQuestion, DriveForApproval, CreateIssueAgentRun, RunStatuses
  <2>2. PICK k \in Kinds : CreateRequest(r, k)
    BY <1>1 DEF Asks, AskPermission, TakeQuestion, DriveForApproval, Kinds
  <2>3. \A q \in DOMAIN requests : q \in DOMAIN requests' /\ requests'[q] = requests[q]
    BY <2>2, CreateRequestKeeps DEF Kept
  <2>4. PICK n : /\ DOMAIN requests' = DOMAIN requests \cup {n}
                 /\ n \notin DOMAIN requests
                 /\ requests'[n].run = r /\ requests'[n].kind = k
                 /\ requests'[n].status = "pending"
    BY <2>2, CreateRequestKeeps
  <2>. QED
    BY <1>0, <2>1, <2>3, <2>4 DEF AwaitingHasRequest, RequestsOf
<1>2. ASSUME NEW q \in DOMAIN requests, Decides(q) PROVE AwaitingHasRequest'
  <2>1. UpdateRequest(q, "answered") /\ "answered" \in RequestStatuses
    BY <1>2 DEF Decides, Reply, DecidePermission, DecideApproval, RequestStatuses
  <2>2. \A t \in Runs : status'[t] = "awaiting_input" => status[t] = "awaiting_input"
    <3>1. requests[q].run \in Runs /\ "running" \in RunStatuses /\ "canceled" \in RunStatuses
      BY DEF RequestsOK, Created, RunStatuses
    <3>. QED
      BY <1>0, <1>2, <3>1 DEF Decides, Reply, DecidePermission, DecideApproval
  <2>3. /\ Kept /\ DOMAIN requests' = DOMAIN requests
        /\ \A p \in DOMAIN requests : requests'[p].status \in {requests[p].status, "answered"}
    BY <2>1, UpdateRequestKeeps
  <2>. QED
    BY <2>2, <2>3 DEF AwaitingHasRequest, RequestsOf, Kept
<1>3. ASSUME NEW E \in SUBSET Expirable, Reconcile(E) PROVE AwaitingHasRequest'
  <2>1. \A t \in Runs : status'[t] = "awaiting_input" =>
          status[t] = "awaiting_input" /\ RequestsOf(t) \cap E = {}
    BY <1>3 DEF Reconcile
  <2>2. /\ Kept /\ DOMAIN requests' = DOMAIN requests
        /\ \A p \in DOMAIN requests : p \notin E => requests'[p].status = requests[p].status
    BY <1>3, ReconcileKeeps
  <2>. QED
    BY <2>1, <2>2 DEF AwaitingHasRequest, RequestsOf, Kept
<1>4. ASSUME UNCHANGED requests,
             \A t \in Runs : status'[t] = "awaiting_input" => status[t] = "awaiting_input"
      PROVE  AwaitingHasRequest'
  BY <1>4 DEF AwaitingHasRequest, RequestsOf
<1>5. ASSUME NEW r \in Runs, UNCHANGED requests,
             UNCHANGED status \/ \E s \in RunStatuses \ {"awaiting_input"} : SetStatus(r, s)
      PROVE  AwaitingHasRequest'
  BY <1>0, <1>4, <1>5
<1>6. ASSUME NEW r \in Runs, Drive(r) PROVE AwaitingHasRequest'
  <2>1. UNCHANGED requests /\ SetStatus(r, "queued")
    BY <1>6, DriveKeeps DEF Drive, CreateIssueAgentRun
  <2>. QED
    BY <1>5, <2>1 DEF RunStatuses
<1>7. ASSUME NEW r \in Runs,
             \/ Begin(r) \/ Stopped(r) \/ AskUser(r) \/ Output(r) \/ Lapse(r) \/ DriveBlocked(r)
             \/ EndByException(r) \/ (\E ok \in BOOLEAN : End(r, ok))
             \/ (\E auto \in BOOLEAN : StartRun(r, auto)) \/ Cancel(r) \/ CancelExecuting(r)
      PROVE  AwaitingHasRequest'
  <2>1. /\ UNCHANGED requests
        /\ UNCHANGED status \/ \E s \in RunStatuses \ {"awaiting_input"} : SetStatus(r, s)
    BY <1>7
    DEF Begin, Stopped, AskUser, Output, Lapse, DriveBlocked, EndByException, End, StartRun, Cancel,
        CancelExecuting, CreateIssueAgentRun, RunStatuses
  <2>. QED
    BY <1>5, <2>1
<1>8. ASSUME Others \/ UNCHANGED vars PROVE AwaitingHasRequest'
  <2>1. ASSUME (\E s \in IssueStatuses : UpdateIssue(s)) \/ Restart \/ UNCHANGED vars
        PROVE  AwaitingHasRequest'
    BY <1>4, <2>1 DEF UpdateIssue, Restart, vars
  <2>. QED
    BY <1>7, <1>8, <2>1 DEF Others
<1>. QED
  BY <1>1, <1>2, <1>3, <1>6, <1>8, Steps

-----------------------------------------------------------------------------
(* The theorems *)

LEMMA IssueInit == Init => IssueInv
<1>. SUFFICES ASSUME Init PROVE IssueInv
  OBVIOUS
<1>1. RequestsOK /\ HeldOK
  BY BoundsAssumption, EmptySeq DEF Init, RequestsOK, HeldOK, HeldRunsDoNotRun
<1>2. AskedOK
  BY EmptySeq DEF Init, AskedOK
<1>3. RowsOK
  BY BoundsAssumption
  DEF Init, RowsOK, IssueStatuses, Running, Created, Executing, None
<1>. QED
  BY <1>1, <1>2, <1>3 DEF Init, IssueInv, CanceledOK, AwaitingHasRequest, None

LEMMA IssueStep == IssueInv /\ [Next]_vars => IssueInv'
BY RowsStep, RequestsStep, HeldStep, AskedStep, CanceledStep, AwaitingStep DEF IssueInv

LEMMA IssueHolds == Spec => []IssueInv
BY IssueInit, IssueStep, PTL DEF Spec

(* The types hold: an executing run is not in the queue, requests belong to runs that
   exist, and only rows that are queued or running are found silent. *)
THEOREM TypesHold == Spec => []TypeOK
<1>1. IssueInv => TypeOK
  BY TypeParts DEF IssueInv
<1>. QED
  BY <1>1, IssueHolds, PTL

(* A run that is held for approval is never queued, running or executing. *)
THEOREM HeldRunsDoNotRunHolds == Spec => []HeldRunsDoNotRun
<1>1. IssueInv => HeldRunsDoNotRun
  BY DEF IssueInv, HeldOK
<1>. QED
  BY <1>1, IssueHolds, PTL

(* A run that waits for an answer has asked something that is open or answered. *)
THEOREM AwaitingHasRequestHolds == Spec => []AwaitingHasRequest
<1>1. IssueInv => AwaitingHasRequest
  BY DEF IssueInv
<1>. QED
  BY <1>1, IssueHolds, PTL

(* A canceled run stays canceled, but for the autopilot's tasks, for a permission that
   is decided late, and for a question that is read late. *)
THEOREM CanceledStaysHolds == Spec => CanceledStays
<1>1. IssueInv /\ [Next]_vars
        => [\A r \in Runs :
              status[r] = "canceled" /\ r \notin elsewhere \cup asked
                /\ ~(\E q \in RequestsOf(r) : Pending(q) /\ requests[q].kind = "permission")
              => status'[r] = "canceled"]_vars
  BY CanceledRunStep
<1>. QED
  BY <1>1, IssueHolds, PTL DEF Spec, CanceledStays
=============================================================================
