-------------------------- MODULE SatisfactionTable --------------------------
(***************************************************************************)
(* The neighbour table of FreeOxy (MaintainNeighborList.java) as a value:  *)
(* a function from the known neighbours to their satisfaction.  The        *)
(* operators are the methods of the class; the modules that keep a table   *)
(* in a variable use them in their actions.                                *)
(***************************************************************************)
EXTENDS Integers, FiniteSets

CONSTANTS
  DefaultSat,     \* Common.DEFAULT_SAT
  MinThreshold    \* minimumThresholdValue

ASSUME SatAssumption ==
  DefaultSat \in Nat /\ MinThreshold \in Nat /\ MinThreshold <= DefaultSat

EmptyTable == [n \in {} |-> DefaultSat]

Put(m, n, v) == [x \in DOMAIN m \cup {n} |-> IF x = n THEN v ELSE m[x]]

Remove(m, n) == [x \in DOMAIN m \ {n} |-> m[x]]

(* Variant: off by one at the threshold. *)
AddNeighborEager(m, Local, n, v) ==
  IF n \in Local THEN m
  ELSE IF n \notin DOMAIN m THEN Put(m, n, DefaultSat)
  ELSE IF v <= MinThreshold THEN Remove(m, n)
  ELSE Put(m, n, v)

(* addNeighbor: the local host is never entered; a new neighbour gets the
   default whatever the value asked for; a known one is dropped when the
   value falls below the threshold. *)
AddNeighbor(m, Local, n, v) ==
  IF n \in Local THEN m
  ELSE IF n \notin DOMAIN m THEN Put(m, n, DefaultSat)
  ELSE IF v < MinThreshold THEN Remove(m, n)
  ELSE Put(m, n, v)

(* getValue: 0 stands for "not a neighbour". *)
GetValue(m, n) == IF n \in DOMAIN m THEN m[n] ELSE 0

Inc(m, Local, n) == AddNeighbor(m, Local, n, GetValue(m, n) + 1)

Dec(m, Local, n) == AddNeighbor(m, Local, n, GetValue(m, n) - 1)

(* getAddress(k): the comparator compares an entry with itself, so the sort
   leaves the HashMap's own order, and the k addresses returned may be any. *)
GetAddress(m, k) ==
  {A \in SUBSET DOMAIN m :
     Cardinality(A) = IF k > Cardinality(DOMAIN m) THEN Cardinality(DOMAIN m)
                                                   ELSE k}
=============================================================================
