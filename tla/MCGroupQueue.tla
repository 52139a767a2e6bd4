---------------------------- MODULE MCGroupQueue ----------------------------
(* Small instances of GroupQueue for TLC: a web chat and another owner's IM
   chat that share one workspace, a conversation agent of it, an isolated run,
   and a chat of another workspace. *)
EXTENDS GroupQueue

CONSTANTS web, im, agent, other, run, alice, bob

MCKeyOf == [g \in Groups |-> IF g = im THEN web ELSE g]
MCOwnerOf == [g \in Groups |-> IF g \in {im, other} THEN bob ELSE alice]

NoLimit == [o \in Owners |-> 9]
AliceHasOne == [o \in Owners |-> IF o = alice THEN 1 ELSE 9]

(* Every group runs in containers until its mode is edited. *)
MCInit == Init /\ \A g \in Groups : ~hostMode[g]
MCSpec == MCInit /\ [][Next]_vars
MCFairSpec == MCSpec /\ Fairness /\ ReadFairness
=============================================================================
