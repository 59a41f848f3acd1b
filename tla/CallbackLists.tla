--------------------------- MODULE CallbackLists ---------------------------
(***************************************************************************)
(* jQuery.Callbacks (jquery-3.4.1.js) as a value: the closure's variables  *)
(* are the fields of a record, its methods are operators from record to    *)
(* record.  A callback runs between two of these operators: fire() is cut  *)
(* at every call it makes, and `Advance' leads to the next one, so that    *)
(* whoever keeps the record can call the list again from inside a          *)
(* callback.                                                               *)
(*                                                                         *)
(* index is firingIndex + 1.  memory is <<v>> or, when forgotten, <<>>.    *)
(* alive is FALSE once list is the empty string, which refuses additions.  *)
(***************************************************************************)
EXTENDS Integers, Sequences, FiniteSets

(* createOptions: the flags named in the string, as the set of them. *)
Flags == {"once", "memory", "unique", "stopOnFalse"}

Callbacks ==
  [list |-> <<>>, alive |-> TRUE, queue |-> <<>>, memory |-> <<>>,
   firing |-> FALSE, fired |-> FALSE, locked |-> FALSE, index |-> 0]

Places(c, f) == {i \in DOMAIN c.list : c.list[i] = f}

Has(c, f) == Places(c, f) # {}

(* The end of fire(): forget the value, and spend a locked list. *)
Finish(opt, c) ==
  LET kept == IF "memory" \in opt THEN c.memory ELSE <<>>
  IN [c EXCEPT !.memory = kept,
               !.firing = FALSE,
               !.list   = IF c.locked THEN <<>> ELSE @,
               !.alive  = IF c.locked THEN kept # <<>> ELSE @]

(* Variant: one value per fire(), whatever waits in the queue. *)
AdvanceOnePass(opt, c) ==
  IF c.index < Len(c.list) THEN [c EXCEPT !.index = @ + 1]
  ELSE Finish(opt, [c EXCEPT !.index = 0])

(* The two loops of fire() up to the next callback, which is then
   list[index], or up to the end of fire(), when firing is FALSE.  A pass
   over an empty list calls nothing, so only the last queued value stays. *)
Advance(opt, c) ==
  IF c.index < Len(c.list) THEN [c EXCEPT !.index = @ + 1]
  ELSE IF c.queue # <<>> /\ c.list # <<>>
    THEN [c EXCEPT !.memory = <<Head(c.queue)>>, !.queue = Tail(@), !.index = 1]
  ELSE IF c.queue # <<>>
    THEN Finish(opt, [c EXCEPT !.memory = <<c.queue[Len(c.queue)]>>,
                               !.queue = <<>>, !.index = 0])
  ELSE Finish(opt, [c EXCEPT !.index = 0])

(* fire(), up to its first callback. *)
Start(opt, c) ==
  Advance(opt, [c EXCEPT !.locked = @ \/ "once" \in opt,
                         !.fired = TRUE, !.firing = TRUE,
                         !.memory = <<Head(c.queue)>>, !.queue = Tail(@)])

(* The callback list[index] has returned; isFalse: it returned false. *)
Returned(opt, c, isFalse) ==
  IF isFalse /\ "stopOnFalse" \in opt
  THEN Advance(opt, [c EXCEPT !.index = Len(c.list), !.memory = <<>>])
  ELSE Advance(opt, c)

Push(opt, c, f) ==
  IF "unique" \in opt /\ Has(c, f) THEN c ELSE [c EXCEPT !.list = Append(@, f)]

(* Variant: a value remembered is not replayed. *)
AddQuietly(opt, c, f) == IF ~c.alive THEN c ELSE Push(opt, c, f)

(* add: into a list that remembers a value and is not firing, the addition
   is called at once, from the position it is put at. *)
Add(opt, c, f) ==
  IF ~c.alive THEN c
  ELSE IF c.memory # <<>> /\ ~c.firing
  THEN Start(opt, Push(opt, [c EXCEPT !.index = Len(c.list),
                                      !.queue = Append(@, c.memory[1])], f))
  ELSE Push(opt, c, f)

(* s without f; written as a function of the prefix, where SelectSeq would
   do, for the proofs. *)
PrefixWithout(s, f) ==
  LET kept[i \in 0 .. Len(s)] ==
        IF i = 0 THEN <<>>
        ELSE IF s[i] = f THEN kept[i - 1] ELSE Append(kept[i - 1], s[i])
  IN kept

Without(s, f) == PrefixWithout(s, f)[Len(s)]

(* Variant: the callback that runs does not count as passed. *)
RemoveUnshifted(c, f) ==
  [c EXCEPT !.list  = Without(@, f),
            !.index = @ - Cardinality(Places(c, f) \cap 1..(c.index - 1))]

(* remove: every occurrence goes, and the index moves back by the number of
   those at or before it. *)
Remove(c, f) ==
  IF ~Has(c, f) THEN c
  ELSE [c EXCEPT !.list  = Without(@, f),
                 !.index = @ - Cardinality(Places(c, f) \cap 1..c.index)]

(* empty: firingIndex is left where it was. *)
Empty(c) == IF c.alive THEN [c EXCEPT !.list = <<>>] ELSE c

Disable(c) ==
  [c EXCEPT !.locked = TRUE, !.queue = <<>>,
            !.list = <<>>, !.alive = FALSE, !.memory = <<>>]

(* Variant: the executions waiting are kept. *)
LockLater(c) ==
  IF c.memory = <<>> /\ ~c.firing
  THEN [c EXCEPT !.locked = TRUE, !.list = <<>>, !.alive = FALSE]
  ELSE [c EXCEPT !.locked = TRUE]

Lock(c) ==
  IF c.memory = <<>> /\ ~c.firing
  THEN [c EXCEPT !.locked = TRUE, !.queue = <<>>, !.list = <<>>, !.alive = FALSE]
  ELSE [c EXCEPT !.locked = TRUE, !.queue = <<>>]

(* fireWith: while the list fires, the value waits in the queue. *)
FireWith(opt, c, v) ==
  IF c.locked THEN c
  ELSE LET queued == [c EXCEPT !.queue = Append(@, v)]
       IN IF c.firing THEN queued ELSE Start(opt, queued)
============================================================================
