------------------------------ MODULE RunSlots ------------------------------
(***************************************************************************)
(* What the run scheduler promises about slots, whatever its queues,       *)
(* timers and drains do: a run starts only while the server is open, only  *)
(* below the limit of its kind, and only when no other jid of its          *)
(* serialization key is flagged as running; a run that has ended is gone,  *)
(* and its jid is free again.  GroupQueue implements this.                 *)
(***************************************************************************)
EXTENDS Integers, FiniteSets

CONSTANTS Groups, KeyOf, Work, Idle, FrameIds, MaxContainers, MaxHosts

VARIABLES running, frames, shuttingDown

slots == <<running, frames, shuttingDown>>

Limit(host) == IF host THEN MaxHosts ELSE MaxContainers

InUse(host) == Cardinality({f \in frames : f.host = host})

Open ==
  /\ running = [g \in Groups |-> Idle]
  /\ frames = {}
  /\ shuttingDown = FALSE

Acquire(g, w, host) ==
  /\ ~shuttingDown
  /\ InUse(host) < Limit(host)
  /\ \A h \in Groups : running[h] # Idle /\ KeyOf[h] = KeyOf[g] => h = g
  /\ running' = [running EXCEPT ![g] = w]
  /\ \E i \in FrameIds :
       /\ \A f \in frames : f.id # i
       /\ frames' = frames \cup {[id |-> i, jid |-> g, host |-> host, work |-> w]}
  /\ UNCHANGED shuttingDown

Release(f) ==
  /\ f \in frames
  /\ frames' = frames \ {f}
  /\ running' = [running EXCEPT ![f.jid] = Idle]
  /\ UNCHANGED shuttingDown

Close ==
  /\ ~shuttingDown
  /\ shuttingDown' = TRUE
  /\ UNCHANGED <<running, frames>>

Serve ==
  \/ \E g \in Groups, w \in Work, host \in BOOLEAN : Acquire(g, w, host)
  \/ \E f \in frames : Release(f)
  \/ Close

SlotsSpec == Open /\ [][Serve]_slots
=============================================================================
