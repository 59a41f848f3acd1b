----------------------------- MODULE Callbacks -----------------------------
(***************************************************************************)
(* One jQuery.Callbacks list and the code that uses it.  JavaScript runs   *)
(* one thing at a time, but a callback may call the list that is calling   *)
(* it: whenever control is with user code, in a callback or outside, any   *)
(* method may be called.  A callback ends by returning or by throwing, and *)
(* an exception leaves fire() without its last lines.                      *)
(***************************************************************************)
EXTENDS CallbackLists

CONSTANTS
  Fns,        \* the callbacks
  Vals,       \* the values the list is fired with
  Options,    \* the sets of flags a list may be made with
  MaxCalls    \* bound: calls of the list's methods in one behaviour

ASSUME CallbacksAssumption ==
  Options \subseteq SUBSET Flags /\ MaxCalls \in Nat

VARIABLES
  opt,        \* the options the list was made with
  c,          \* the list
  running,    \* <<f>> while the callback f runs
  calls,      \* methods called so far, for the bound
  owed,       \* history: the callbacks this pass has still to call
  got,        \* history: for every callback the last value it was called with
  thrown,     \* history: a callback has thrown
  emptied     \* history: empty() was called while the list was firing

vars == <<opt, c, running, calls, owed, got, thrown, emptied>>

Init ==
  /\ opt \in Options
  /\ c = Callbacks
  /\ running = <<>> /\ calls = 0
  /\ owed = <<>> /\ got = [f \in Fns |-> <<>>]
  /\ thrown = FALSE /\ emptied = FALSE

(* What a pass has still to call, seen from outside fire(): a new pass owes
   the whole list, and a pass that has ended owes nothing. *)
OwedAfterStart(l) == IF l.firing THEN SubSeq(l.list, l.index + 1, Len(l.list))
                     ELSE <<>>

(* The callback the list has come to, called with the value it fires. *)
Enter(l) ==
  IF l.firing
  THEN /\ running' = <<l.list[l.index]>>
       /\ got' = [got EXCEPT ![l.list[l.index]] = l.memory]
  ELSE /\ running' = <<>>
       /\ got' = got

(* A method that may start fire(): it does so when the list was not firing
   and is afterwards, or has fired over an empty list. *)
Begin(next) ==
  /\ c' = next
  /\ IF c.firing THEN UNCHANGED <<running, got>> ELSE Enter(next)

Call ==
  /\ calls < MaxCalls
  /\ calls' = calls + 1
  /\ UNCHANGED <<opt, thrown>>

CallAdd(f) ==
  /\ Call
  /\ Begin(Add(opt, c, f))
  /\ owed' = IF c.firing
             THEN IF c'.list # c.list THEN Append(owed, f) ELSE owed
             ELSE OwedAfterStart(c')
  /\ UNCHANGED emptied

CallRemove(f) ==
  /\ Call
  /\ c' = Remove(c, f)
  /\ owed' = Without(owed, f)
  /\ UNCHANGED <<running, got, emptied>>

CallEmpty ==
  /\ Call
  /\ c' = Empty(c)
  /\ owed' = <<>>
  /\ emptied' = (emptied \/ c.firing)
  /\ UNCHANGED <<running, got>>

CallDisable ==
  /\ Call
  /\ c' = Disable(c)
  /\ owed' = <<>>
  /\ UNCHANGED <<running, got, emptied>>

CallLock ==
  /\ Call
  /\ c' = Lock(c)
  /\ UNCHANGED <<running, got, owed, emptied>>

CallFireWith(v) ==
  /\ Call
  /\ Begin(FireWith(opt, c, v))
  /\ owed' = IF c.firing THEN owed ELSE OwedAfterStart(c')
  /\ UNCHANGED emptied

(* The running callback returns, and fire() goes on: to the next callback
   of the pass, to a pass for the next queued value, or to its end. *)
Return(isFalse) ==
  /\ running # <<>>
  /\ c' = Returned(opt, c, isFalse)
  /\ Enter(c')
  /\ owed' = IF (isFalse /\ "stopOnFalse" \in opt) \/ owed = <<>>
             THEN OwedAfterStart(c') ELSE Tail(owed)
  /\ UNCHANGED <<opt, calls, thrown, emptied>>

Throw ==
  /\ running # <<>>
  /\ running' = <<>> /\ thrown' = TRUE
  /\ UNCHANGED <<opt, c, calls, owed, got, emptied>>

Method ==
  \/ \E f \in Fns : CallAdd(f) \/ CallRemove(f)
  \/ CallEmpty \/ CallDisable \/ CallLock
  \/ \E v \in Vals : CallFireWith(v)

Next ==
  \/ Method
  \/ \E isFalse \in BOOLEAN : Return(isFalse)
  \/ Throw

Spec == Init /\ [][Next]_vars

(* A callback that was entered ends: nothing preempts it. *)
Ends == (\E isFalse \in BOOLEAN : Return(isFalse)) \/ Throw

FairSpec == Spec /\ WF_vars(Ends)

(***************************************************************************)
(* Properties.                                                             *)
(***************************************************************************)
TypeOK ==
  /\ opt \in Options
  /\ c \in [list : Seq(Fns), alive : BOOLEAN, queue : Seq(Vals),
            memory : {<<>>} \cup {<<v>> : v \in Vals},
            firing : BOOLEAN, fired : BOOLEAN, locked : BOOLEAN, index : Nat]
  /\ running \in {<<>>} \cup {<<f>> : f \in Fns}

(* Additions and removals made by the callbacks of a pass neither skip a
   callback of it nor call one twice: what is left of the list behind the
   firing index is what the pass still owes.  empty() inside a callback
   breaks this (firingIndex is left standing), and is left out. *)
PassCallsEach ==
  /\ TypeOK
  /\ running # <<>> /\ ~emptied =>
       owed = SubSeq(c.list, c.index + 1, Len(c.list))

(* Whoever is in a list that remembers a value has been called with that
   value, when it was fired or when it was added: a promise's listeners all
   hear the result, however late they come and whatever the others do to
   the list. *)
MemoryReachesAll ==
  c.memory # <<>> /\ ~c.firing /\ ~emptied
    => \A i \in DOMAIN c.list : got[c.list[i]] = c.memory

(* A locked list, as one made with `once' is from its first firing on,
   fires no other value than the one it had, although it is still firing
   and values were waiting. *)
LockedKeepsItsValue ==
  [][c.locked /\ c.memory # c'.memory => c'.memory = <<>>]_vars

(* A list made with `once' calls all its callbacks, early or late ones,
   with the value of its first firing. *)
OnceOneValue ==
  "once" \in opt =>
    \A a, b \in Fns : got[a] # <<>> /\ got[b] # <<>> => got[a] = got[b]

(* A value fired while the list was firing is not forgotten: the outer
   fire() comes to it once the callbacks of this pass have ended.  When one
   throws instead of returning, `firing' stays TRUE for ever and whatever is
   fired later waits for ever. *)
QueueDrains == c.queue # <<>> ~> (c.queue = <<>> \/ thrown)
============================================================================
