------------------------------ MODULE LinkWire ------------------------------
(***************************************************************************)
(* The WebSocket connections between the server and one daemon, and the    *)
(* frames they carry.  A link is a device: the daemon dials one connection *)
(* after another for it.  Connection c is the c-th that the daemon dials.  *)
(* AgentLink is the server's end, AgentRuntime the daemon's.               *)
(***************************************************************************)
EXTENDS Integers, Sequences

CONSTANTS
  Runs,         \* runs of agents, by their runId
  NoRun,
  MaxConns      \* connections that are dialled

ASSUME WireAssumption == NoRun \notin Runs /\ MaxConns \in Nat

VARIABLES
  conn,         \* the daemon's side of each connection
  up,           \* frames of each connection on their way to the server
  down          \* and to the daemon

wire == <<up, down>>

Conns == 1 .. MaxConns

UpFrames == ({"hello"} \X {NoRun}) \cup ({"ok", "failed"} \X Runs)    \* a run's result
DownFrames == ({"hello_ack", "update", "bye"} \X {NoRun}) \cup ({"run", "cancel"} \X Runs)

WireTypeOK == up \in [Conns -> Seq(UpFrames)] /\ down \in [Conns -> Seq(DownFrames)]

WireInit == up = [c \in Conns |-> <<>>] /\ down = [c \in Conns |-> <<>>]

(* The next frame that arrives over c is of type t. *)
Arrives(w, c, t) == w[c] # <<>> /\ Head(w[c])[1] = t

Taken(w, c) == [w EXCEPT ![c] = Tail(@)]

(* What is sent over a connection that is broken is lost. *)
Sent(w, c, t, r) == IF conn[c] = "gone" THEN w ELSE [w EXCEPT ![c] = Append(@, <<t, r>>)]
=============================================================================
