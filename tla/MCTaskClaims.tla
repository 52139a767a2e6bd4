----------------------------- MODULE MCTaskClaims -----------------------------
(* Small instances of TaskClaims: one task of every kind. *)
EXTENDS TaskClaims

CONSTANTS t1, q1, q2

(* Nothing tells one jid from another: the task begins under the first. *)
MCInit == Init /\ target[t1] = q1

MCSpec == MCInit /\ [][Next]_vars

MCFairSpec == MCSpec /\ Fairness
=============================================================================
