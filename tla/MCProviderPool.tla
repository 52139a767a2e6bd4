--------------------------- MODULE MCProviderPool ---------------------------
(* Small instances of ProviderPool for TLC: one chat, one agent in its folder, two
   providers of which the second has twice the weight of the first. *)
EXTENDS ProviderPool, TLC

CONSTANTS c1, a1

MCOwner == a1 :> c1
MCWeight == <<1, 2>>
=============================================================================
