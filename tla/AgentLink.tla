----------------------------- MODULE AgentLink -----------------------------
(***************************************************************************)
(* The server's end of an agent link: the sessions of a daemon's           *)
(* connections and the registry of the current one (src/src/agent-link/    *)
(* session.ts, registry.ts), the controllers that wait for the answers of  *)
(* runs (run-rpc.ts), and the driver of a run, runViaAgentRuntime          *)
(* (src/src/backends/agent-link-driver.ts).                                *)
(*                                                                         *)
(* The driver of a run registers a controller and sends the request in one *)
(* step.  It may be told of the end of the run from four sides: a result,  *)
(* the end of the session, a failed send, or its own timer.  Each begins a *)
(* finalize(), which awaits the delivery of the outcome to the chat before *)
(* it settles the run.                                                     *)
(***************************************************************************)
EXTENDS LinkWire, FiniteSets

CONSTANT NoConn

ASSUME LinkAssumption == NoConn \notin Conns

VARIABLES
  sess,         \* state of the session of each connection
  registered,   \* the connection whose session is in the map sessions
  sentOn,       \* per run: the connection of its request
  controllers,  \* agentControllers: runs with a controller
  timer,        \* per run: "armed" until timeoutMs, then "grace" for 5 s
  emitting,     \* per run: outcomes whose finalize() awaits onOutput
  answers,      \* per run: outcomes for which finalize() was called
  outcome       \* per run: what its promise resolved to

drivers == <<timer, emitting, answers, outcome>>
server == <<sess, registered, sentOn, controllers, timer, emitting, answers, outcome>>

SessionStates == {"none", "awaiting_hello", "open", "closing", "closed"}
Answers == {"success", "error", "link_offline", "send_failed", "server_timeout"}
Outcomes == Answers \cup {"pending", "offline"}

LinkTypeOK ==
  /\ sess \in [Conns -> SessionStates]
  /\ registered \in Conns \cup {NoConn}
  /\ sentOn \in [Runs -> Conns \cup {NoConn}]
  /\ controllers \in SUBSET Runs
  /\ timer \in [Runs -> {"off", "armed", "grace"}]
  /\ emitting \in [Runs -> SUBSET Answers]
  /\ answers \in [Runs -> SUBSET Answers]
  /\ outcome \in [Runs -> Outcomes]

LinkInit ==
  /\ sess = [c \in Conns |-> "none"]
  /\ registered = NoConn
  /\ sentOn = [r \in Runs |-> NoConn]
  /\ controllers = {}
  /\ timer = [r \in Runs |-> "off"]
  /\ emitting = [r \in Runs |-> {}]
  /\ answers = [r \in Runs |-> {}]
  /\ outcome = [r \in Runs |-> "pending"]

Live(c) == sess[c] \in {"awaiting_hello", "open"}

(* The session isOnline and getSession find: the registered one, when open. *)
Online == registered # NoConn /\ sess[registered] = "open"

-----------------------------------------------------------------------------
(* Sessions *)

(* sendError and close: no frame is read or sent after the last one. *)
Close(c) ==
  /\ sess' = [sess EXCEPT ![c] = "closing"]
  /\ down' = Sent(down, c, "bye", NoRun)

(* Mutant: the replaced session stays as it is. *)
AcceptKeepsOld(c) ==
  /\ sess[c] = "none"
  /\ up[c] # <<>>
  /\ \A d \in Conns : d > c => sess[d] = "none"
  /\ sess' = [sess EXCEPT ![c] = "awaiting_hello"]
  /\ registered' = c
  /\ UNCHANGED <<wire, sentOn, controllers, drivers>>

(* onIncomingSession: a new connection replaces the link's session.
   Connections are accepted in the order they are dialled. *)
Accept(c) ==
  /\ sess[c] = "none"
  /\ up[c] # <<>>
  /\ \A d \in Conns : d > c => sess[d] = "none"
  /\ LET replaced == {d \in Conns : d = registered /\ Live(d)} IN
       /\ sess' = [d \in Conns |-> IF d = c THEN "awaiting_hello"
                                   ELSE IF d \in replaced THEN "closing" ELSE sess[d]]
       /\ down' = IF replaced = {} THEN down ELSE Sent(down, registered, "bye", NoRun)
  /\ registered' = c
  /\ UNCHANGED <<up, sentOn, controllers, drivers>>

(* handleHello: a daemon that is out of date is asked to update itself. *)
HandleHello(c) ==
  /\ sess[c] = "awaiting_hello"
  /\ Arrives(up, c, "hello")
  /\ up' = Taken(up, c)
  /\ sess' = [sess EXCEPT ![c] = "open"]
  /\ \E outdated \in BOOLEAN :
       LET acked == Sent(down, c, "hello_ack", NoRun) IN
       down' = IF outdated THEN Sent(acked, c, "update", NoRun) ELSE acked
  /\ UNCHANGED <<registered, sentOn, controllers, drivers>>

(* The server closes a session: no hello, no heartbeat, a frame it cannot
   read, a fatal error of the daemon, too much to send, disconnectLink. *)
CloseSession(c) ==
  /\ Live(c)
  /\ Close(c)
  /\ UNCHANGED <<up, registered, sentOn, controllers, drivers>>

(* Mutant: the controllers are removed and nobody is told. *)
FailRunsSilently ==
  /\ controllers' = {}
  /\ timer' = [r \in Runs |-> IF r \in controllers /\ timer[r] = "armed"
                              THEN "off" ELSE timer[r]]
  /\ UNCHANGED <<emitting, answers>>

(* failRunsForLink: every controller of the link is removed and told. *)
FailRuns ==
  /\ controllers' = {}
  /\ timer' = [r \in Runs |-> IF r \in controllers /\ timer[r] = "armed"
                              THEN "off" ELSE timer[r]]
  /\ emitting' = [r \in Runs |-> IF r \in controllers THEN emitting[r] \cup {"link_offline"}
                                 ELSE emitting[r]]
  /\ answers' = [r \in Runs |-> IF r \in controllers THEN answers[r] \cup {"link_offline"}
                                ELSE answers[r]]

(* Mutant: a session that was replaced tells the runs of its successor. *)
CleanupAlways(c) ==
  /\ sess[c] \in {"awaiting_hello", "open", "closing"}
  /\ sess' = [sess EXCEPT ![c] = "closed"]
  /\ registered' = IF registered = c THEN NoConn ELSE registered
  /\ FailRuns
  /\ up' = [up EXCEPT ![c] = <<>>]
  /\ UNCHANGED <<down, sentOn, outcome>>

(* cleanup and unregisterSession: the WebSocket has closed or failed, or 100 ms
   have passed since close().  What was on its way is lost.  Only the registered
   session tells its runs. *)
Cleanup(c) ==
  /\ sess[c] \in {"awaiting_hello", "open", "closing"}
  /\ sess' = [sess EXCEPT ![c] = "closed"]
  /\ IF registered = c
       THEN registered' = NoConn /\ FailRuns /\ UNCHANGED outcome
       ELSE UNCHANGED <<registered, controllers, drivers>>
  /\ up' = [up EXCEPT ![c] = <<>>]
  /\ UNCHANGED <<down, sentOn>>

-----------------------------------------------------------------------------
(* Runs *)

(* finalize(): the outcome is logged and handed to onOutput. *)
Finalize(r, o) ==
  /\ answers' = [answers EXCEPT ![r] = @ \cup {o}]
  /\ emitting' = [emitting EXCEPT ![r] = @ \cup {o}]

(* A run for a device that is not online fails at once. *)
Refuse(r) ==
  /\ sentOn[r] = NoConn /\ outcome[r] = "pending"
  /\ ~Online
  /\ outcome' = [outcome EXCEPT ![r] = "offline"]
  /\ UNCHANGED <<wire, sess, registered, sentOn, controllers, timer, emitting, answers>>

(* runViaAgentRuntime, up to its first await: the timer is set, the controller
   registered, the request sent.  A send that fails closes the session. *)
Dispatch(r) ==
  /\ sentOn[r] = NoConn /\ outcome[r] = "pending"
  /\ Online
  /\ sentOn' = [sentOn EXCEPT ![r] = registered]
  /\ controllers' = controllers \cup {r}
  /\ \/ /\ down' = Sent(down, registered, "run", r)
        /\ timer' = [timer EXCEPT ![r] = "armed"]
        /\ UNCHANGED <<sess, emitting, answers>>
     \/ /\ Close(registered)
        /\ Finalize(r, "send_failed")
        /\ UNCHANGED timer
  /\ UNCHANGED <<up, registered, outcome>>

(* Mutant: the controller stays, and a later result or loss is heard too. *)
HandleResultKeeps(c) ==
  /\ sess[c] = "open"
  /\ \E t \in {"ok", "failed"} :
       /\ Arrives(up, c, t)
       /\ LET r == Head(up[c])[2] IN
          IF r \in controllers
            THEN /\ timer' = [timer EXCEPT ![r] = IF @ = "armed" THEN "off" ELSE @]
                 /\ Finalize(r, IF t = "ok" THEN "success" ELSE "error")
            ELSE UNCHANGED <<timer, answers, emitting>>
  /\ up' = Taken(up, c)
  /\ UNCHANGED <<down, sess, registered, sentOn, controllers, outcome>>

(* Mutant: the type of the frame is taken for the outcome. *)
HandleResultRaw(c) ==
  /\ sess[c] = "open"
  /\ \E t \in {"ok", "failed"} :
       /\ Arrives(up, c, t)
       /\ LET r == Head(up[c])[2] IN
          IF r \in controllers
            THEN /\ controllers' = controllers \ {r}
                 /\ timer' = [timer EXCEPT ![r] = IF @ = "armed" THEN "off" ELSE @]
                 /\ Finalize(r, t)
            ELSE UNCHANGED <<controllers, timer, answers, emitting>>
  /\ up' = Taken(up, c)
  /\ UNCHANGED <<down, sess, registered, sentOn, outcome>>

(* deliverAgentRunResult and finish(): a result of a run without a controller
   is dropped. *)
HandleResult(c) ==
  /\ sess[c] = "open"
  /\ \E t \in {"ok", "failed"} :
       /\ Arrives(up, c, t)
       /\ LET r == Head(up[c])[2] IN
          IF r \in controllers
            THEN /\ controllers' = controllers \ {r}
                 /\ timer' = [timer EXCEPT ![r] = IF @ = "armed" THEN "off" ELSE @]
                 /\ Finalize(r, IF t = "ok" THEN "success" ELSE "error")
            ELSE UNCHANGED <<controllers, timer, answers, emitting>>
  /\ up' = Taken(up, c)
  /\ UNCHANGED <<down, sess, registered, sentOn, outcome>>

(* agent.run.cancel goes to the link's open session, whichever that is: at a
   timeout here; an aborted run sends the same frame. *)
Cancel(r) == IF Online THEN down' = Sent(down, registered, "cancel", r) ELSE UNCHANGED down

(* timeoutMs have passed without an answer. *)
TimerFires(r) ==
  /\ timer[r] = "armed"
  /\ timer' = [timer EXCEPT ![r] = "grace"]
  /\ Cancel(r)
  /\ UNCHANGED <<up, sess, registered, sentOn, controllers, emitting, answers, outcome>>

(* Mutant: the timeout cancels the run and waits for its result. *)
GraceWaits(r) ==
  /\ timer[r] = "grace"
  /\ timer' = [timer EXCEPT ![r] = "off"]
  /\ UNCHANGED <<wire, sess, registered, sentOn, controllers, emitting, answers, outcome>>

(* Five more seconds: clearTimeout(timer) did not stop this one. *)
GraceEnds(r) ==
  /\ timer[r] = "grace"
  /\ timer' = [timer EXCEPT ![r] = "off"]
  /\ IF outcome[r] = "pending" THEN Finalize(r, "server_timeout")
                               ELSE UNCHANGED <<answers, emitting>>
  /\ UNCHANGED <<wire, sess, registered, sentOn, controllers, outcome>>

(* onOutput has taken the outcome o: resolveOnce. *)
Emitted(r, o) ==
  /\ o \in emitting[r]
  /\ emitting' = [emitting EXCEPT ![r] = @ \ {o}]
  /\ IF outcome[r] = "pending"
       THEN /\ outcome' = [outcome EXCEPT ![r] = o]
            /\ controllers' = controllers \ {r}
       ELSE UNCHANGED <<outcome, controllers>>
  /\ UNCHANGED <<wire, sess, registered, sentOn, timer, answers>>

SessionStep ==
  \E c \in Conns : \/ Accept(c) \/ HandleHello(c) \/ CloseSession(c) \/ Cleanup(c)
                   \/ HandleResult(c)

RunStep ==
  \E r \in Runs : \/ Refuse(r) \/ Dispatch(r) \/ TimerFires(r) \/ GraceEnds(r)
                  \/ \E o \in Answers : Emitted(r, o)

ServerStep == SessionStep \/ RunStep

(* Timers fire, and what onOutput awaits comes to an end. *)
ServerFairness ==
  \A r \in Runs : /\ WF_server(TimerFires(r))
                  /\ WF_server(GraceEnds(r))
                  /\ WF_server(\E o \in Answers : Emitted(r, o))
=============================================================================
