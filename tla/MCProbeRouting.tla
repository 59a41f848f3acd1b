---------------------------- MODULE MCProbeRouting ----------------------------
(* An overlay of three nodes: a line whose far end reaches the web server. *)
EXTENDS ProbeRouting

CONSTANTS a, b, c, w

ThreeNodes == {a, b, c}
OneUrl == {w}

(* a - b - c; only c gets at the web server. *)
LineKnown == [n \in ThreeNodes |-> IF n = b THEN {a, c} ELSE {b}]
EndReach == [n \in ThreeNodes |-> [u \in OneUrl |-> IF n = c THEN "ok" ELSE "refused"]]
(* What browsers ask, and of whom. *)
AskA == {<<a, w>>}

(* The nodes with NoLocalSrv set. *)
NoNodes == {}
OnlyA == {a}

(* Whether a node may put its own name into a response. *)
Draws == BOOLEAN
NoDraw == {FALSE}

Conns4 == 1 .. 4
Conns6 == 1 .. 6
=============================================================================
