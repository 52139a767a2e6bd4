---------------------------- MODULE RunOutcomes ----------------------------
(***************************************************************************)
(* What a run on a device is for the rest of the server: it is asked for   *)
(* at most once, the device may do the work, and the run gets one outcome  *)
(* that never changes.  It counts as a success only if the work was done;  *)
(* a run that was not asked for has not been worked on.  RemoteRuns        *)
(* implements this over connections that break and processes that die.     *)
(***************************************************************************)
CONSTANTS Runs, Pending, Success, Unasked, Failures

VARIABLES asked, worked, outcome

results == <<asked, worked, outcome>>

Fresh ==
  /\ asked = {}
  /\ worked = {}
  /\ outcome = [r \in Runs |-> Pending]

Ask(r) ==
  /\ r \notin asked
  /\ outcome[r] = Pending
  /\ asked' = asked \cup {r}
  /\ UNCHANGED <<worked, outcome>>

Work(r) ==
  /\ r \in asked \ worked
  /\ worked' = worked \cup {r}
  /\ UNCHANGED <<asked, outcome>>

Settle(r, o) ==
  /\ outcome[r] = Pending
  /\ \/ o = Unasked /\ r \notin asked
     \/ o \in Failures /\ r \in asked
     \/ o = Success /\ r \in worked
  /\ outcome' = [outcome EXCEPT ![r] = o]
  /\ UNCHANGED <<asked, worked>>

Proceed ==
  \E r \in Runs : Ask(r) \/ Work(r) \/ \E o \in Failures \cup {Success, Unasked} : Settle(r, o)

OutcomesSpec == Fresh /\ [][Proceed]_results
=============================================================================
