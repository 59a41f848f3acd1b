---------------------------- MODULE MCCallbacks ----------------------------
EXTENDS Callbacks

(* The lists jQuery itself makes ("memory", "once memory", and $.ready's and
   the ajax request's), and one with each other flag. *)
MCOptions ==
  {{}, {"once"}, {"memory"}, {"once", "memory"}, {"unique", "memory"},
   {"stopOnFalse", "memory"}}
============================================================================
