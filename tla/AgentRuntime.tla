---------------------------- MODULE AgentRuntime ----------------------------
(***************************************************************************)
(* The daemon's end of an agent link (client/octodeck-daemon/internal):    *)
(* the loop that dials, serves and loses connections (node, uplink), the   *)
(* pool of runs (state/runtime_state.go), the supervisor of the process    *)
(* that executes runs (agentruntime/supervisor.go), and the update that    *)
(* waits for the pool (update/update.go).                                  *)
(*                                                                         *)
(* Pool, supervisor and child process belong to a connection.  A request   *)
(* is reserved in the pool, then a goroutine starts the child if there is  *)
(* none, writes the request to its stdin and waits for the child's         *)
(* acknowledgement; the result follows in a notification of its own.       *)
(***************************************************************************)
EXTENDS LinkWire, FiniteSets

CONSTANTS
  Nowhere,      \* connection of a run that has not arrived
  MaxRestarts   \* runtimePolicy.maxRestarts, where it is not 0 (no limit)

ASSUME RuntimeAssumption == Nowhere \notin Conns /\ MaxRestarts \in Nat \ {0}

VARIABLES
  via,          \* per run: the connection it arrived by
  pool,         \* runs with an entry in the pool of their connection
  stage,        \* per run: how far the goroutine of Handle is
  job,          \* per run: what the child makes of it
  child,        \* connections whose supervisor has a child process
  crashCount,   \* per connection
  updates,      \* connections whose update waits for the mutex
  draining      \* the connection whose pool refuses runs and the update waits for

daemon == <<conn, via, pool, stage, job, child, crashCount, updates, draining>>

Stages == {"none", "starting", "backoff", "writing", "calling", "acked", "failed", "reported",
           "unread", "dead"}
Jobs == {"none", "asked", "running", "ok", "failed", "lost"}

RuntimeTypeOK ==
  /\ conn \in [Conns -> {"none", "dialing", "up", "gone"}]
  /\ via \in [Runs -> Conns \cup {Nowhere}]
  /\ pool \in SUBSET Runs
  /\ stage \in [Runs -> Stages]
  /\ job \in [Runs -> Jobs]
  /\ child \in SUBSET Conns
  /\ crashCount \in [Conns -> Nat]
  /\ updates \in SUBSET Conns
  /\ draining \in SUBSET Conns

RuntimeInit ==
  /\ conn = [c \in Conns |-> "none"]
  /\ via = [r \in Runs |-> Nowhere]
  /\ pool = {}
  /\ stage = [r \in Runs |-> "none"]
  /\ job = [r \in Runs |-> "none"]
  /\ child = {}
  /\ crashCount = [c \in Conns |-> 0]
  /\ updates = {}
  /\ draining = {}

Working(r) == job[r] \in {"asked", "running"}
RunsOf(c) == {r \in Runs : via[r] = c}

(* Send: the frame goes over the connection that the run arrived by. *)
Report(c, t, r) == up' = Sent(up, c, t, r)

-----------------------------------------------------------------------------
(* Connections *)

(* Dial: one connection at a time. *)
Dial(c) ==
  /\ \A d \in Conns : conn[d] = IF d < c THEN "gone" ELSE "none"
  /\ conn' = [conn EXCEPT ![c] = "dialing"]
  /\ up' = Sent(up, c, "hello", NoRun)
  /\ UNCHANGED <<down, via, pool, stage, job, child, crashCount, updates, draining>>

HandleHelloAck(c) ==
  /\ conn[c] = "dialing"
  /\ Arrives(down, c, "hello_ack")
  /\ down' = Taken(down, c)
  /\ conn' = [conn EXCEPT ![c] = "up"]
  /\ UNCHANGED <<up, via, pool, stage, job, child, crashCount, updates, draining>>

(* A process of connection c ends: what it works on is lost, and what it has
   written and the supervisor has not read may be (cmd.Wait closes the pipe). *)
ChildEnds(c) ==
  /\ child' = child \ {c}
  /\ job' = [r \in Runs |-> IF via[r] = c /\ Working(r) THEN "lost" ELSE job[r]]
  /\ \E S \in SUBSET {r \in RunsOf(c) : stage[r] = "acked" /\ job[r] \in {"ok", "failed"}} :
       stage' = [r \in Runs |-> IF r \in S THEN "unread" ELSE stage[r]]

(* The read loop ends: the network fails, or the server says goodbye.  OnLoopExit
   cancels the pool's runs and closes the supervisor.  What was on its way is lost. *)
LoopExit(c) ==
  /\ conn[c] \in {"dialing", "up"}
  /\ conn' = [conn EXCEPT ![c] = "gone"]
  /\ ChildEnds(c)
  /\ down' = [down EXCEPT ![c] = <<>>]
  /\ UNCHANGED <<up, via, pool, crashCount, updates, draining>>

-----------------------------------------------------------------------------
(* Runs *)

(* Mutant: a run is accepted without a reservation. *)
HandleRunUnreserved(c) ==
  /\ conn[c] = "up"
  /\ Arrives(down, c, "run")
  /\ LET r == Head(down[c])[2] IN
       /\ via' = [via EXCEPT ![r] = c]
       /\ stage' = [stage EXCEPT ![r] = "starting"]
  /\ down' = Taken(down, c)
  /\ UNCHANGED <<up, conn, pool, job, child, crashCount, updates, draining>>

(* Handle: Reserve fails while the pool drains; a request may be invalid. *)
HandleRun(c) ==
  /\ conn[c] = "up"
  /\ Arrives(down, c, "run")
  /\ LET r == Head(down[c])[2] IN
       /\ via' = [via EXCEPT ![r] = c]
       /\ \/ /\ c \notin draining
             /\ pool' = pool \cup {r}
             /\ stage' = [stage EXCEPT ![r] = "starting"]
             /\ UNCHANGED up
          \/ /\ stage' = [stage EXCEPT ![r] = "failed"]
             /\ Report(c, "failed", r)
             /\ UNCHANGED pool
  /\ down' = Taken(down, c)
  /\ UNCHANGED <<conn, job, child, crashCount, updates, draining>>

(* CancelRun: agent.cancel is an RPC too, and may start a child if there is none.
   What it cancels, GoroutineFails and ChildFinishes may do at any time. *)
HandleCancel(c) ==
  /\ conn[c] = "up"
  /\ Arrives(down, c, "cancel")
  /\ down' = Taken(down, c)
  /\ \/ UNCHANGED child
     \/ crashCount[c] < MaxRestarts /\ child' = child \cup {c}
  /\ UNCHANGED <<up, conn, via, pool, stage, job, crashCount, updates, draining>>

(* ensureStarted, called by Handle and again by call: a child is there, or is
   started within the restart budget, or the goroutine waits to start one. *)
EnsureStarted(r) ==
  /\ stage[r] = "starting"
  /\ LET c == via[r] IN
     \/ /\ c \in child \/ crashCount[c] < MaxRestarts
        /\ child' = child \cup {c}
        /\ \E next \in {"starting", "writing"} : stage' = [stage EXCEPT ![r] = next]
     \/ /\ c \notin child /\ crashCount[c] \in 1 .. MaxRestarts - 1
        /\ stage' = [stage EXCEPT ![r] = "backoff"]
        /\ UNCHANGED child
  /\ UNCHANGED <<wire, conn, via, pool, job, crashCount, updates, draining>>

(* The wait is over: the budget is not looked at again. *)
BackoffEnds(r) ==
  /\ stage[r] = "backoff"
  /\ child' = child \cup {via[r]}
  /\ \E next \in {"starting", "writing"} : stage' = [stage EXCEPT ![r] = next]
  /\ UNCHANGED <<wire, conn, via, pool, job, crashCount, updates, draining>>

(* call writes to the stdin it finds when it has taken the lock again. *)
Write(r) ==
  /\ stage[r] = "writing"
  /\ via[r] \in child
  /\ stage' = [stage EXCEPT ![r] = "calling"]
  /\ job' = [job EXCEPT ![r] = "asked"]
  /\ UNCHANGED <<wire, conn, via, pool, child, crashCount, updates, draining>>

(* The child answers that it has accepted the run. *)
ReadAck(r) ==
  /\ stage[r] = "calling"
  /\ job[r] \in {"running", "ok", "failed"}
  /\ stage' = [stage EXCEPT ![r] = "acked"]
  /\ UNCHANGED <<wire, conn, via, pool, job, child, crashCount, updates, draining>>

(* Mutant: the run's entry stays in the pool. *)
GoroutineFailsReserved(r) ==
  /\ \/ stage[r] = "starting" /\ via[r] \notin child
     \/ stage[r] \in {"backoff", "writing", "calling"}
  /\ stage' = [stage EXCEPT ![r] = "failed"]
  /\ Report(via[r], "failed", r)
  /\ UNCHANGED <<down, conn, via, pool, job, child, crashCount, updates, draining>>

(* sendAgentRunErr: the child cannot be started or written to, it exits, the
   context ends while the goroutine waits, or ten seconds pass without an answer. *)
GoroutineFails(r) ==
  /\ \/ stage[r] = "starting" /\ via[r] \notin child
     \/ stage[r] \in {"backoff", "writing", "calling"}
  /\ stage' = [stage EXCEPT ![r] = "failed"]
  /\ pool' = pool \ {r}
  /\ Report(via[r], "failed", r)
  /\ UNCHANGED <<down, conn, via, job, child, crashCount, updates, draining>>

(* Mutant: whatever the child says, the run is reported as done. *)
ReadResultAsOk(r) ==
  /\ stage[r] \in {"acked", "failed"}
  /\ job[r] \in {"ok", "failed"}
  /\ stage' = [stage EXCEPT ![r] = "reported"]
  /\ pool' = pool \ {r}
  /\ Report(via[r], "ok", r)
  /\ UNCHANGED <<down, conn, via, job, child, crashCount, updates, draining>>

(* The notification agent.run.result, read after the answer to the request. *)
ReadResult(r) ==
  /\ stage[r] \in {"acked", "failed"}
  /\ job[r] \in {"ok", "failed"}
  /\ stage' = [stage EXCEPT ![r] = "reported"]
  /\ pool' = pool \ {r}
  /\ Report(via[r], job[r], r)
  /\ UNCHANGED <<down, conn, via, job, child, crashCount, updates, draining>>

-----------------------------------------------------------------------------
(* The child process *)

ChildAccepts(r) ==
  /\ job[r] = "asked"
  /\ job' = [job EXCEPT ![r] = "running"]
  /\ UNCHANGED <<wire, conn, via, pool, stage, child, crashCount, updates, draining>>

(* handleChildRun: the run succeeds, or it fails, times out or is cancelled. *)
ChildFinishes(r) ==
  /\ job[r] = "running"
  /\ \E end \in {"ok", "failed"} : job' = [job EXCEPT ![r] = end]
  /\ UNCHANGED <<wire, conn, via, pool, stage, child, crashCount, updates, draining>>

(* The process ends by itself: pending RPCs fail, acknowledged runs do not. *)
ChildExits(c) ==
  /\ c \in child
  /\ crashCount' = [crashCount EXCEPT ![c] = @ + 1]
  /\ ChildEnds(c)
  /\ UNCHANGED <<wire, conn, via, pool, updates, draining>>

-----------------------------------------------------------------------------
(* The daemon's own process *)

DaemonEnds ==
  /\ conn' = [c \in Conns |-> IF conn[c] = "none" THEN "none" ELSE "gone"]
  /\ pool' = {}
  /\ stage' = [r \in Runs |-> IF stage[r] = "none" THEN "none" ELSE "dead"]
  /\ job' = [r \in Runs |-> IF Working(r) THEN "lost" ELSE job[r]]
  /\ child' = {}
  /\ crashCount' = [c \in Conns |-> 0]
  /\ updates' = {}
  /\ draining' = {}
  /\ down' = [c \in Conns |-> <<>>]
  /\ UNCHANGED <<up, via>>

(* The process is killed, or the device goes down. *)
DaemonCrashes == DaemonEnds

(* The child has exited since ensureStarted returned: stdin is nil, and writing
   to it ends the daemon. *)
WritePanics(r) ==
  /\ stage[r] = "writing"
  /\ via[r] \notin child
  /\ DaemonEnds

(* The update has a goroutine of its own. *)
HandleUpdate(c) ==
  /\ conn[c] = "up"
  /\ Arrives(down, c, "update")
  /\ down' = Taken(down, c)
  /\ updates' = updates \cup {c}
  /\ UNCHANGED <<up, conn, via, pool, stage, job, child, crashCount, draining>>

(* UpdateBinaryGracefully, one at a time: SetDraining. *)
BeginUpdate(c) ==
  /\ c \in updates /\ draining = {}
  /\ updates' = updates \ {c}
  /\ draining' = {c}
  /\ UNCHANGED <<wire, conn, via, pool, stage, job, child, crashCount>>

(* The goroutine of Handle works on the run, or the child does. *)
Busy(r) == stage[r] \in {"starting", "backoff", "writing", "calling", "acked"}

(* Mutant: the update does not wait for the pool. *)
PoolIdleAlways(c) == TRUE

PoolIdle(c) == pool \cap RunsOf(c) = {}

(* The pool is idle: the update restarts the daemon, or fails. *)
UpdateRestarts(c) ==
  /\ c \in draining
  /\ PoolIdle(c)
  /\ DaemonEnds

UpdateFails(c) ==
  /\ c \in draining
  /\ PoolIdle(c)
  /\ draining' = {}
  /\ UNCHANGED <<wire, conn, via, pool, stage, job, child, crashCount, updates>>

ConnectionStep ==
  \E c \in Conns : \/ Dial(c) \/ HandleHelloAck(c) \/ LoopExit(c) \/ HandleRun(c)
                   \/ HandleCancel(c) \/ ChildExits(c)

UpdateStep ==
  \E c \in Conns : HandleUpdate(c) \/ BeginUpdate(c) \/ UpdateRestarts(c) \/ UpdateFails(c)

WorkStep ==
  \E r \in Runs : \/ EnsureStarted(r) \/ BackoffEnds(r) \/ Write(r) \/ WritePanics(r)
                  \/ ReadAck(r) \/ GoroutineFails(r) \/ ReadResult(r)
                  \/ ChildAccepts(r) \/ ChildFinishes(r)

DaemonStep == ConnectionStep \/ WorkStep \/ UpdateStep \/ DaemonCrashes
=============================================================================
