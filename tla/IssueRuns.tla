----------------------------- MODULE IssueRuns -----------------------------
(* Runs of agents on one issue that names an executor: users, agents, the autopilot
   and the driver create runs, the queue executes them, agents ask and users decide,
   the reconciler reaps rows that give no sign of life and requests that are too old.
   Everybody reads and writes the same rows, the run itself from a copy of the issue
   that it took when it began.

   Sources: src/src/issue-runner.ts, issue-auto-driver.ts, issue-run-reconciler.ts,
   routes/issues.ts, routes/autopilots.ts, db.ts and the issue calls of index.ts. *)
EXTENDS Naturals, FiniteSets, Sequences

CONSTANTS
  MaxRuns,      \* bound: rows of runs
  MaxRequests,  \* bound: questions to the user, and those on their way
  MaxEdits,     \* bound: changes of the issue's status by hand
  MaxRestarts   \* bound: restarts of the server

ASSUME BoundsAssumption ==
  /\ MaxRuns \in Nat
  /\ MaxRequests \in Nat
  /\ MaxEdits \in Nat
  /\ MaxRestarts \in Nat

Runs == 1..MaxRuns  \* in the order of created_at

(* "closed" stands for done and canceled, which set closed_at. *)
IssueStatuses == {"todo", "in_progress", "waiting_for_human", "review", "closed"}
RunStatuses == {"queued", "running", "awaiting_input", "success", "error", "canceled", "lost"}
RequestStatuses == {"pending", "answered", "consumed", "expired"}

(* "approval" stands for the driver's own permission request, whose payload names no
   token and which never expires. *)
Kinds == {"permission", "clarification", "approval"}
None == "none"

VARIABLES
  issue,      \* the issue's status
  status,     \* of each row of issue_agent_runs; None: there is no such row
  stale,      \* rows queued or running of which nothing was seen for 90 seconds
  waiting,    \* runs whose task is in the queue
  elsewhere,  \* tasks, waiting or executing, that the autopilot queued under its own jid
  seen,       \* of each executing run, the status its copy of the issue shows
  canceling,  \* runs whose cancellation waits for their process to stop
  asked,      \* runs of which a file with a question lies unread
  requests,   \* rows of issue_agent_requests, in the order of their creation
  edits, restarts  \* counters of the bounds

vars ==
  <<issue, status, stale, waiting, elsewhere, seen, canceling, asked, requests, edits, restarts>>
bounds == <<edits, restarts>>

Created == {r \in Runs : status[r] # None}
Running == {r \in Runs : status[r] \in {"queued", "running"}}
Executing == {r \in Runs : seen[r] # None}

TypeOK ==
  /\ issue \in IssueStatuses
  /\ status \in [Runs -> RunStatuses \cup {None}]
  /\ seen \in [Runs -> IssueStatuses \cup {None}]
  /\ stale \subseteq Running
  /\ waiting \subseteq Created
  /\ Executing \subseteq Created \ waiting
  /\ elsewhere \subseteq waiting \cup Executing
  /\ canceling \subseteq Created \ waiting
  /\ asked \subseteq Created
  /\ requests \in Seq([kind : Kinds, run : Created, status : RequestStatuses])
  /\ Len(requests) <= MaxRequests
  /\ edits \in 0..MaxEdits
  /\ restarts \in 0..MaxRestarts

Init ==
  /\ issue = "todo"
  /\ status = [r \in Runs |-> None]
  /\ seen = [r \in Runs |-> None]
  /\ stale = {} /\ waiting = {} /\ elsewhere = {} /\ canceling = {} /\ asked = {}
  /\ requests = <<>>
  /\ edits = 0 /\ restarts = 0

-----------------------------------------------------------------------------
(* The rows *)

IsNext(r) == r \notin Created /\ 1..(r - 1) \subseteq Created
IsLast(r) == r \in Created /\ Created \subseteq 1..r

RequestsOf(r) == {q \in DOMAIN requests : requests[q].run = r}

(* A row in a new status is not taken for silent: for one that is set to running the
   time since it was last seen may be over at once, in the step Lapse. *)
SetStatus(r, s) ==
  /\ status' = [status EXCEPT ![r] = s]
  /\ stale' = stale \ {r}

CreateIssueAgentRun(r, s) == IsNext(r) /\ SetStatus(r, s)

(* A request is stored, and its run is set to wait for it whatever the row's status
   is. *)
CreateRequest(r, kind) ==
  /\ Len(requests) < MaxRequests
  /\ requests' = Append(requests, [kind |-> kind, run |-> r, status |-> "pending"])

UpdateRequest(q, s) == requests' = [requests EXCEPT ![q].status = s]

-----------------------------------------------------------------------------
(* Users, the autopilot and the queue *)

(* A run is started by hand, on an issue in any state, for a fix or a review, or by the
   autopilot. *)
StartRun(r, auto) ==
  /\ CreateIssueAgentRun(r, "queued")
  /\ waiting' = waiting \cup {r}
  /\ elsewhere' = IF auto THEN elsewhere \cup {r} ELSE elsewhere
  /\ UNCHANGED <<issue, seen, canceling, asked, requests, bounds>>

(* The status is edited by a user, by the agent's issue_update or when a resolution is
   applied. *)
UpdateIssue(s) ==
  /\ edits < MaxEdits /\ s # issue
  /\ issue' = s
  /\ edits' = edits + 1
  /\ UNCHANGED <<status, stale, waiting, elsewhere, seen, canceling, asked, requests, restarts>>

(* Mutant: the queue starts a task that it does not take out of its list. *)
BeginAgain(r) ==
  /\ r \in waiting
  /\ seen' = [seen EXCEPT ![r] = issue]
  /\ SetStatus(r, "running")
  /\ issue' = IF issue = "todo" THEN "in_progress" ELSE issue
  /\ UNCHANGED <<waiting, elsewhere, canceling, asked, requests, bounds>>

(* The queue starts the task: the row is set to running whatever became of it. *)
Begin(r) ==
  /\ r \in waiting
  /\ waiting' = waiting \ {r}
  /\ seen' = [seen EXCEPT ![r] = issue]
  /\ SetStatus(r, "running")
  /\ issue' = IF issue = "todo" THEN "in_progress" ELSE issue
  /\ UNCHANGED <<elsewhere, canceling, asked, requests, bounds>>

Cancelable(r) == status[r] \in {"queued", "running", "awaiting_input", "lost"}

(* Mutant: the row is canceled, the task stays in the queue. *)
CancelRowOnly(r) ==
  /\ Cancelable(r)
  /\ r \in Executing => r \in elsewhere
  /\ SetStatus(r, "canceled")
  /\ UNCHANGED <<issue, waiting, elsewhere, seen, canceling, asked, requests, bounds>>

(* A task found in the queue is taken out. One that nobody finds under the issue's jid,
   because it is not there any more or is the autopilot's, is left alone. *)
Cancel(r) ==
  /\ Cancelable(r)
  /\ r \in Executing => r \in elsewhere
  /\ waiting' = IF r \in elsewhere THEN waiting ELSE waiting \ {r}
  /\ SetStatus(r, "canceled")
  /\ UNCHANGED <<issue, elsewhere, seen, canceling, asked, requests, bounds>>

CancelExecuting(r) ==
  /\ Cancelable(r)
  /\ r \in Executing \ elsewhere
  /\ canceling' = canceling \cup {r}
  /\ UNCHANGED <<issue, status, stale, waiting, elsewhere, seen, asked, requests, bounds>>

(* The process is gone, or it is not within ten seconds of the kill: then the row keeps
   its status. *)
Stopped(r) ==
  /\ r \in canceling
  /\ canceling' = canceling \ {r}
  /\ IF r \in Executing THEN UNCHANGED <<status, stale>> ELSE SetStatus(r, "canceled")
  /\ UNCHANGED <<issue, waiting, elsewhere, seen, asked, requests, bounds>>

-----------------------------------------------------------------------------
(* The run *)

(* Every frame of output touches the row. *)
Output(r) ==
  /\ r \in Executing \cap stale
  /\ stale' = stale \ {r}
  /\ UNCHANGED <<issue, status, waiting, elsewhere, seen, canceling, asked, requests, bounds>>

(* A permission request in the output. The issue's status is compared in the copy that
   the run took. *)
AskPermission(r) ==
  /\ r \in Executing
  /\ CreateRequest(r, "permission")
  /\ SetStatus(r, "awaiting_input")
  /\ issue' = IF seen[r] # "waiting_for_human" THEN "waiting_for_human" ELSE issue
  /\ UNCHANGED <<waiting, elsewhere, seen, canceling, asked, bounds>>

(* The agent's tool ask_user writes a file. *)
AskUser(r) ==
  /\ r \in Executing
  /\ Cardinality(asked) + Len(requests) < MaxRequests
  /\ asked' = asked \cup {r}
  /\ UNCHANGED <<issue, status, stale, waiting, elsewhere, seen, canceling, requests, bounds>>

(* The server reads the file, at any time later: whether the run still executes, has
   ended or is canceled, its row waits for input. Another file may be left: the agent
   asks again when it got no answer in time, and a file is deleted only after it was
   handled. *)
TakeQuestion(r) ==
  /\ r \in asked
  /\ asked' \in {asked, asked \ {r}}
  /\ CreateRequest(r, "clarification")
  /\ SetStatus(r, "awaiting_input")
  /\ issue' = "waiting_for_human"
  /\ UNCHANGED <<waiting, elsewhere, seen, canceling, bounds>>

Leave(r) ==
  /\ seen' = [seen EXCEPT ![r] = None]
  /\ elsewhere' = elsewhere \ {r}

(* The agent is done. Whether the issue goes to review is decided by the copy. *)
End(r, ok) ==
  /\ r \in Executing
  /\ Leave(r)
  /\ IF status[r] \in {"canceled", "awaiting_input"}
       THEN UNCHANGED <<status, stale, issue>>
       ELSE /\ SetStatus(r, IF ok THEN "success" ELSE "error")
            /\ issue' = IF ok /\ seen[r] \in {"todo", "in_progress"} THEN "review" ELSE issue
  /\ UNCHANGED <<waiting, canceling, asked, requests, bounds>>

(* An exception ends the run, also one that waits for an answer. *)
EndByException(r) ==
  /\ r \in Executing
  /\ Leave(r)
  /\ IF status[r] = "canceled" THEN UNCHANGED <<status, stale>> ELSE SetStatus(r, "error")
  /\ UNCHANGED <<issue, waiting, canceling, asked, requests, bounds>>

-----------------------------------------------------------------------------
(* Decisions *)

Pending(q) == q \in DOMAIN requests /\ requests[q].status = "pending"

(* A reply, to a decision's route or as a comment, is recorded; the driver is to start
   the run that uses it. *)
Reply(q) ==
  /\ Pending(q) /\ requests[q].kind = "clarification"
  /\ UpdateRequest(q, "answered")
  /\ UNCHANGED <<issue, status, stale, waiting, elsewhere, seen, canceling, asked, bounds>>

(* A decision for the agent goes to its daemon, and the row is running again, whatever
   it was. When the daemon's connection refuses it, the request is answered already.
   The issue's status is compared in a copy, read before the request's body was: it may
   be any that the issue had meanwhile. *)
DecidePermission(q, delivered, copy) ==
  /\ Pending(q) /\ requests[q].kind = "permission"
  /\ UpdateRequest(q, "answered")
  /\ IF delivered
       THEN /\ SetStatus(requests[q].run, "running")
            /\ issue' = IF copy = "waiting_for_human" THEN "in_progress" ELSE issue
       ELSE UNCHANGED <<status, stale, issue>>
  /\ UNCHANGED <<waiting, elsewhere, seen, canceling, asked, bounds>>

(* Mutant: an approval is taken for the agent's own permission request. *)
DecideApprovalAsPermission(q, reject) ==
  /\ Pending(q) /\ requests[q].kind = "approval"
  /\ UpdateRequest(q, "answered")
  /\ SetStatus(requests[q].run, "running")
  /\ issue' = IF issue = "waiting_for_human" THEN "in_progress" ELSE issue
  /\ UNCHANGED <<waiting, elsewhere, seen, canceling, asked, bounds>>

(* The driver's request for approval. To approve it takes a token of the run, which its
   payload does not name: every approval is refused before it is recorded, and the
   branch that would put the approved run into the queue is never reached. A reply
   settles nothing. *)
DecideApproval(q, reject) ==
  /\ Pending(q) /\ requests[q].kind = "approval"
  /\ UpdateRequest(q, "answered")
  /\ IF reject THEN SetStatus(requests[q].run, "canceled") ELSE UNCHANGED <<status, stale>>
  /\ UNCHANGED <<issue, waiting, elsewhere, seen, canceling, asked, bounds>>

(* Mutant: an issue with a lost run is not offered to the driver. *)
DrivableUnlessLost ==
  /\ \A r \in Runs : status[r] \notin {"queued", "running", "awaiting_input", "lost"}
  /\ \/ issue = "todo"
     \/ issue = "waiting_for_human" /\ \E q \in DOMAIN requests : requests[q].status = "answered"

-----------------------------------------------------------------------------
(* The driver and the reconciler *)

Drivable ==
  /\ \A r \in Runs : status[r] \notin {"queued", "running", "awaiting_input"}
  /\ \/ issue = "todo"
     \/ issue = "waiting_for_human" /\ \E q \in DOMAIN requests : requests[q].status = "answered"

(* The answers that are inherited by the next run: those to its predecessor, when that
   one waits for them. *)
Inherited ==
  {q \in DOMAIN requests :
     requests[q].status = "answered" /\ IsLast(requests[q].run)
       /\ status[requests[q].run] = "awaiting_input"}

Resumes == Inherited # {} \/ \E r \in Created : IsLast(r) /\ status[r] = "lost"

(* A run that resumes the last one, or that the policy lets pass. *)
Drive(r) ==
  /\ Drivable
  /\ CreateIssueAgentRun(r, "queued")
  /\ waiting' = waiting \cup {r}
  /\ issue' = IF issue = "waiting_for_human" THEN "in_progress" ELSE issue
  /\ IF Inherited = {}
       THEN UNCHANGED requests
       ELSE \E q \in Inherited : UpdateRequest(q, "consumed")
  /\ UNCHANGED <<elsewhere, seen, canceling, asked, bounds>>

(* The policy wants approval: the run is held. *)
DriveForApproval(r) ==
  /\ Drivable /\ ~Resumes
  /\ CreateIssueAgentRun(r, "awaiting_input")
  /\ CreateRequest(r, "approval")
  /\ issue' = "waiting_for_human"
  /\ UNCHANGED <<waiting, elsewhere, seen, canceling, asked, bounds>>

(* The policy blocks the run, or wants a manual review. *)
DriveBlocked(r) ==
  /\ Drivable /\ ~Resumes
  /\ CreateIssueAgentRun(r, "canceled")
  /\ issue' = "waiting_for_human"
  /\ UNCHANGED <<waiting, elsewhere, seen, canceling, asked, requests, bounds>>

Expirable == {q \in DOMAIN requests : Pending(q) /\ requests[q].kind # "approval"}

(* One tick of the reconciler, at which the requests E are more than five hours old. *)
Reconcile(E) ==
  /\ E \subseteq Expirable
  /\ stale # {} \/ E # {}
  /\ requests' = [q \in DOMAIN requests |->
                    IF q \in E THEN [requests[q] EXCEPT !.status = "expired"] ELSE requests[q]]
  /\ status' = [r \in Runs |->
                  IF r \in stale THEN "lost"
                  ELSE IF status[r] = "awaiting_input" /\ RequestsOf(r) \cap E # {} THEN "error"
                  ELSE status[r]]
  /\ issue' = IF \/ issue = "waiting_for_human"
                 \/ issue = "in_progress" /\ stale # {}
                THEN "todo" ELSE issue
  /\ stale' = {}
  /\ UNCHANGED <<waiting, elsewhere, seen, canceling, asked, bounds>>

(* Mutant: only running rows, not queued ones, are looked at. *)
LapseRunning(r) ==
  /\ r \in Running \ stale /\ status[r] = "running"
  /\ stale' = stale \cup {r}
  /\ UNCHANGED <<issue, status, waiting, elsewhere, seen, canceling, asked, requests, bounds>>

(* Ninety seconds pass without a sign of life. *)
Lapse(r) ==
  /\ r \in Running \ stale
  /\ stale' = stale \cup {r}
  /\ UNCHANGED <<issue, status, waiting, elsewhere, seen, canceling, asked, requests, bounds>>

(* The server stops and starts: the rows remain, tasks and requests in progress do not. *)
Restart ==
  /\ restarts < MaxRestarts
  /\ restarts' = restarts + 1
  /\ waiting' = {} /\ elsewhere' = {} /\ canceling' = {}
  /\ seen' = [r \in Runs |-> None]
  /\ UNCHANGED <<issue, status, stale, asked, requests, edits>>

-----------------------------------------------------------------------------
ServerNext ==
  \/ \E r \in Runs : Begin(r) \/ Stopped(r) \/ Output(r) \/ AskPermission(r)
  \/ \E r \in Runs : AskUser(r) \/ TakeQuestion(r)
  \/ \E r \in Runs : EndByException(r) \/ (\E ok \in BOOLEAN : End(r, ok))
  \/ \E r \in Runs : Drive(r) \/ DriveForApproval(r) \/ DriveBlocked(r) \/ Lapse(r)
  \/ \E E \in SUBSET Expirable : Reconcile(E)
  \/ Restart

UserNext ==
  \/ \E r \in Runs, auto \in BOOLEAN : StartRun(r, auto)
  \/ \E s \in IssueStatuses : UpdateIssue(s)
  \/ \E r \in Runs : Cancel(r) \/ CancelExecuting(r)
  \/ \E q \in DOMAIN requests :
       \/ Reply(q)
       \/ \E delivered \in BOOLEAN, copy \in IssueStatuses : DecidePermission(q, delivered, copy)
       \/ \E reject \in BOOLEAN : DecideApproval(q, reject)

Next == ServerNext \/ UserNext

Spec == Init /\ [][Next]_vars

(* The driver and the reconciler tick, the queue starts what it holds, every run ends
   at the latest by its time limit, and time passes for rows that nobody works on. *)
Fairness ==
  /\ WF_vars(\E r \in Runs : Drive(r) \/ DriveForApproval(r) \/ DriveBlocked(r))
  /\ WF_vars(Reconcile({}))
  /\ \A r \in Runs :
       /\ WF_vars(Begin(r))
       /\ WF_vars(EndByException(r) \/ End(r, TRUE) \/ End(r, FALSE))
       /\ WF_vars(r \notin Executing /\ Lapse(r))

FairSpec == Spec /\ Fairness

-----------------------------------------------------------------------------
(* Properties *)

(* A run that is held for approval does not run: it is neither queued nor executing,
   and its row says that it waits or is canceled, whatever users decide, cancel or let
   expire and whoever else works on the issue. *)
HeldRunsDoNotRun ==
  \A q \in DOMAIN requests : requests[q].kind = "approval" =>
    LET r == requests[q].run
    IN status[r] \in {"awaiting_input", "canceled"} /\ r \notin waiting \cup Executing

(* No run waits for an answer that cannot come any more: it has asked something that is
   open or answered. *)
AwaitingHasRequest ==
  \A r \in Runs : status[r] = "awaiting_input" =>
    \E q \in RequestsOf(r) : requests[q].status \in {"pending", "answered"}

(* A canceled run stays canceled, whatever its process, its output, the reconciler and
   the server's restarts do; unless the queue holds it under the autopilot's jid, where
   cancellation does not find it, the permission it asked for is decided later, or a
   question that it asked was not read yet. *)
CanceledStays ==
  [][\A r \in Runs :
       status[r] = "canceled" /\ r \notin elsewhere \cup asked
         /\ ~(\E q \in RequestsOf(r) : Pending(q) /\ requests[q].kind = "permission")
       => status'[r] = "canceled"]_vars

(* An issue to do is taken up, also after runs that were lost and restarts of the
   server; unless a run of it waits for an answer. *)
TodoServed ==
  (issue = "todo") ~> \/ issue # "todo"
                      \/ \E r \in Runs : status[r] = "awaiting_input"
                      \/ Created = Runs

(* No row stays queued or running for ever: its run ends, or it is found lost. *)
RunsSettle ==
  \A r \in Runs : (r \in Running) ~> (r \notin Running)

(* The description of the agent's tool ask_user promises that the run resumes once the
   user has replied: a later run is created. It is not: as long as the row of the run
   that asked waits for input, the driver is not offered the issue. *)
AnswersResume ==
  \A r \in Runs :
    (\E q \in RequestsOf(r) : requests[q].kind = "clarification" /\ requests[q].status = "answered")
      ~> ((\E later \in Created : later > r) \/ Created = Runs)
=============================================================================
