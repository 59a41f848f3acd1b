--------------------------- MODULE DocumentReady ---------------------------
(***************************************************************************)
(* jQuery.ready: the functions given to $() are called when the document   *)
(* has been parsed and nobody holds them back.  One counter, readyWait,    *)
(* waits for the document and for every hold.                              *)
(*                                                                         *)
(* The document tells so once, by DOMContentLoaded, by load if that was    *)
(* missed, or by a timer if it was complete before jQuery came.            *)
(***************************************************************************)
EXTENDS Integers

(* dom: the document is there; holds: those made and not released; resolved:
   readyList, to which every $() adds a then(). *)
Parsing == [dom |-> FALSE, holds |-> 0, readyWait |-> 1, isReady |-> FALSE, resolved |-> FALSE]

(* Variant: the abort of a second call also stops one that releases. *)
ReadyAborting(b, wait) ==
  IF b.isReady THEN b
  ELSE LET n == b.readyWait - 1
       IN IF wait THEN [b EXCEPT !.readyWait = n, !.isReady = n = 0, !.resolved = n = 0]
          ELSE [b EXCEPT !.readyWait = n, !.isReady = TRUE, !.resolved = @ \/ n <= 0]

(* jQuery.ready(wait): "abort if there are pending holds or we're already
   ready", remember that the document is, and "wait if need be". *)
Ready(b, wait) ==
  LET n == b.readyWait - 1
  IN IF wait
     THEN IF n # 0 THEN [b EXCEPT !.readyWait = n]
          ELSE [b EXCEPT !.readyWait = n, !.isReady = TRUE, !.resolved = TRUE]
     ELSE IF b.isReady THEN b
          ELSE [b EXCEPT !.readyWait = n, !.isReady = TRUE, !.resolved = @ \/ n <= 0]

(* completed() removes itself from both events, so it is called once. *)
Completed(b) == Ready([b EXCEPT !.dom = TRUE], FALSE)

(* holdReady(true) and holdReady(false). *)
HoldReady(b) == [b EXCEPT !.holds = @ + 1, !.readyWait = @ + 1]
ReleaseReady(b) == Ready([b EXCEPT !.holds = @ - 1], TRUE)
=============================================================================
