----------------------------- MODULE RemoteRuns -----------------------------
(***************************************************************************)
(* The server (AgentLink) and the daemon (AgentRuntime), joined by their   *)
(* connections: what becomes of the runs that the server gives a device.   *)
(***************************************************************************)
EXTENDS AgentLink, AgentRuntime

vars == <<wire, server, daemon>>

TypeOK == WireTypeOK /\ LinkTypeOK /\ RuntimeTypeOK

Init == WireInit /\ LinkInit /\ RuntimeInit

Next == \/ ServerStep /\ UNCHANGED daemon
        \/ DaemonStep /\ UNCHANGED server

Spec == Init /\ [][Next]_vars

FairSpec == Spec /\ ServerFairness

-----------------------------------------------------------------------------
(* Safety *)

(* Of all sessions of a link only the registered one may exchange frames:
   onIncomingSession closes the one it replaces. *)
OneSession == \A c \in Conns : Live(c) => registered = c

(* A run is told that its link is offline only when the session that its request
   went to has ended: the end of a replaced session does not fail the runs of its
   successor. *)
LiveRunsNotFailed ==
  \A r \in Runs : "link_offline" \in answers[r] => ~Live(sentOn[r])

(* An outcome is handed to the chat once, except for a run that the server's timer
   or a failed send ended: then a result or the end of the session may be handed
   out as well while the first is being delivered. *)
AnsweredOnce ==
  \A r \in Runs : Cardinality(answers[r]) > 1
                    => answers[r] \cap {"server_timeout", "send_failed"} # {}

(* A run that waits has someone who will end it: a controller, with a timer that
   fires however the link fares. *)
NobodyForgotten ==
  \A r \in Runs : sentOn[r] # NoConn /\ outcome[r] = "pending"
                    => emitting[r] # {} \/ (r \in controllers /\ timer[r] # "off")

(* While a run's goroutine works on it, its entry is in the pool, and so is it
   until its result is read: heartbeats report it, and an update waits for it. *)
WorkIsReserved == \A r \in Runs : Busy(r) => r \in pool

(* An entry leaves the pool when the run's end is reported.  The entry of a run
   whose child dies after it acknowledged the run stays: nobody reports its end. *)
EndsRelease ==
  \A r \in Runs : stage[r] \in {"failed", "reported", "dead"} => r \notin pool

(* A restart for an update ends no run that is under way on the connection whose
   pool was drained. *)
UpdateSparesRuns ==
  [][\A c \in Conns : UpdateRestarts(c) => \A r \in RunsOf(c) : ~Busy(r)]_vars

(* Every run that is sent gets an outcome, whatever becomes of connections, daemon
   and child. *)
SentRunsSettle == \A r \in Runs : sentOn[r] # NoConn ~> outcome[r] # "pending"

(* RunOutcomes: one outcome, and success only for work that was done. *)
Outcome == INSTANCE RunOutcomes WITH
  asked <- {r \in Runs : sentOn[r] # NoConn},
  worked <- {r \in Runs : job[r] = "ok"},
  Pending <- "pending", Success <- "success", Unasked <- "offline",
  Failures <- Answers \ {"success"}

ImplementsRunOutcomes == Outcome!OutcomesSpec

=============================================================================
