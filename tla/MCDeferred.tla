----------------------------- MODULE MCDeferred -----------------------------
EXTENDS Deferred, TLC

(* The deferreds made by user code are alike, and so are those in store. *)
Alike == Permutations(Ds \ Pool) \cup Permutations(Pool)
=============================================================================
