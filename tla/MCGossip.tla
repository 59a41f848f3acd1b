------------------------------- MODULE MCGossip -------------------------------
(* Three nodes: a newcomer that knows the two others, and one node that knows
   two. *)
EXTENDS Gossip

CONSTANTS a, b, j

Nodes == {a, b, j}
(* a and b know each other, j knows them, nobody knows j. *)
Newcomer == [n \in Nodes |-> {a, b} \ {n}]
(* Only a has a list. *)
Star == [n \in Nodes |-> IF n = a THEN {b, j} ELSE {}]
(* a pings j naming b: this draw is fair. *)
AToJOfB == <<a, j, b>>
=============================================================================
