-------------------------- MODULE MCMessageDelivery --------------------------
(* Small instances of MessageDelivery: one or two chats and a few messages. *)
EXTENDS MessageDelivery

CONSTANTS a, b

OneChat == [m \in Msgs |-> a]
TwoChats == [m \in Msgs |-> IF m = 2 THEN b ELSE a]

=============================================================================
