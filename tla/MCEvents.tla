------------------------------ MODULE MCEvents ------------------------------
EXTENDS Events, TLC

(* A handler, one that is delegated, and one that is called once. *)
TheHandlers ==
  {[id |-> "f", sel |-> FALSE, one |-> FALSE, ns |-> ""],
   [id |-> "g", sel |-> TRUE, one |-> TRUE, ns |-> "a"]}

Alike == Permutations(Boxes)
=============================================================================
