------------------------------ MODULE Deferred ------------------------------
(***************************************************************************)
(* jQuery.Deferred: deferreds with their done, fail and progress lists,    *)
(* the promises made by then() and by when(), and the timer queue through  *)
(* which then() calls its handlers.  One thread runs callbacks to their    *)
(* end, but callbacks nest: `stack' holds what has been entered and not    *)
(* left, the innermost last.  User code is in control outside everything   *)
(* (empty stack), in a user callback of a list that fires, and in a        *)
(* handler or a foreign `then' method that process() has called.           *)
(*                                                                         *)
(* The lists behind then() (tuple[3]) hold closures that only set a timer, *)
(* so they never call user code; they are kept as the set of promises that *)
(* wait for a deferred.                                                    *)
(***************************************************************************)
EXTENDS CallbackLists

CONSTANTS
  Ds,         \* the deferreds
  Pool,       \* those of Ds that then() and when() make
  Fns,        \* user callbacks
  Vals,       \* plain values
  MaxCalls,   \* bound: calls made by user code
  MaxDepth    \* bound: how often one promise may be led on to a thenable

ASSUME DeferredAssumption ==
  /\ IsFiniteSet(Ds) /\ Pool \subseteq Ds
  /\ MaxCalls \in Nat /\ MaxDepth \in Nat

Kinds == {"done", "fail"}
Other(k) == IF k = "done" THEN "fail" ELSE "done"
Outcome(k) == IF k = "done" THEN "resolved" ELSE "rejected"
OptionsOf(k) == IF k = "progress" THEN {"memory"} ELSE {"once", "memory"}

VARIABLES
  state,      \* state of every deferred
  value,      \* what it was settled with
  lists,      \* tuple[2]: its done, fail and progress lists
  waiting,    \* the promises made by its then() that have not been told
  maxDepth,   \* the variable of the then() call that made a promise
  timers,     \* the process() calls set with setTimeout
  stack,      \* what is being executed
  remaining,  \* when(): subordinates of a master not yet resolved
  calls,      \* calls of user code, for the bound
  unused,     \* deferreds not made yet
  parent,     \* history: <<p>> for a promise made by p.then()
  subs,       \* history: the subordinates of a master
  fate,       \* history: what a promise of then() is bound to
  handed,     \* the <<promise, depth>> whose functions a foreign then() has
  called,     \* history: those of them that were called
  threw       \* history: a callback of a list has thrown

rest == <<parent, subs, handed>>
vars == <<state, value, lists, waiting, maxDepth, timers, stack, remaining,
          calls, unused, handed, parent, subs, fate, called, threw>>

Init ==
  /\ state = [d \in Ds |-> "pending"] /\ value = [d \in Ds |-> <<>>]
  /\ lists = [d \in Ds |-> [k \in Kinds \cup {"progress"} |-> Callbacks]]
  /\ waiting = [d \in Ds |-> {}] /\ maxDepth = [d \in Ds |-> 0]
  /\ timers = {} /\ stack = <<>> /\ remaining = [d \in Ds |-> 0]
  /\ calls = 0 /\ unused = Pool /\ handed = {}
  /\ parent = [d \in Ds |-> <<>>] /\ subs = [d \in Ds |-> {}]
  /\ fate = [d \in Ds |-> <<"open">>] /\ called = {} /\ threw = FALSE

Inner == Len(stack)
Top == stack[Inner]
Outer == SubSeq(stack, 1, Inner - 1)
Firing(d, k) == [at |-> "list", d |-> d, k |-> k, busy |-> FALSE]
Process(p) == [at |-> "process", d |-> p, k |-> 0, busy |-> FALSE]
ThenCall(p, n) == [at |-> "then", d |-> p, k |-> n, busy |-> FALSE]
Adopting(m, S) == [at |-> "when", d |-> m, k |-> S, busy |-> TRUE]

(* The callback the innermost list has come to. *)
Current == LET l == lists[Top.d][Top.k] IN l.list[l.index]

UserCode ==
  stack # <<>> =>
    /\ ~Top.busy
    /\ Top.at = "list" => Current \in Fns

(***************************************************************************)
(* Firing lists.  Each of these is a part of an action: it takes the stack *)
(* below what it enters.                                                   *)
(***************************************************************************)

(* The internal callbacks a done or fail list begins with: the other list is
   disabled and progress is locked, then the user's callbacks follow. *)
SettledLists(d, k, v) ==
  [lists[d] EXCEPT ![k] = FireWith(OptionsOf(k), @, v),
                   ![Other(k)] = Disable(@), !.progress = Lock(@)]

Told(d, k, W) == {[p |-> w[1], depth |-> w[2], k |-> k, of |-> d] : w \in W}

(* resolveWith, rejectWith: nothing at all when the list is locked. *)
SettleFrom(ts, d, k, v, below) ==
  IF lists[d][k].locked
  THEN /\ stack' = below /\ timers' = ts
       /\ UNCHANGED <<state, value, lists, waiting>>
  ELSE LET l == SettledLists(d, k, v)
       IN /\ state' = [state EXCEPT ![d] = Outcome(k)]
          /\ value' = [value EXCEPT ![d] = <<v>>]
          /\ lists' = [lists EXCEPT ![d] = l]
          /\ timers' = ts \cup Told(d, k, waiting[d])
          /\ waiting' = [waiting EXCEPT ![d] = {}]
          /\ stack' = IF l[k].firing THEN Append(below, Firing(d, k)) ELSE below

Settle(d, k, v, below) == SettleFrom(timers, d, k, v, below)

(* done, fail, progress: on a list that remembers its value, a call. *)
Listen(d, k, f, below) ==
  LET l == Add(OptionsOf(k), lists[d][k], f)
  IN /\ lists' = [lists EXCEPT ![d][k] = l]
     /\ stack' = IF l.firing /\ ~lists[d][k].firing
                 THEN Append(below, Firing(d, k)) ELSE below

(***************************************************************************)
(* What user code may do.                                                  *)
(***************************************************************************)
Call == UserCode /\ calls < MaxCalls /\ calls' = calls + 1

Resolve(d, k, v) ==
  /\ Call /\ d \notin Pool
  /\ Settle(d, k, v, stack)
  /\ UNCHANGED <<maxDepth, remaining, unused, rest, fate, called, threw>>

(* notifyWith, with the closures of then() that pass progress on left out:
   they notify the promise in turn and settle nothing. *)
Notify(d, v) ==
  /\ Call /\ d \notin Pool
  /\ ~lists[d].progress.locked
  /\ LET l == FireWith({"memory"}, lists[d].progress, v)
     IN /\ lists' = [lists EXCEPT ![d].progress = l]
        /\ stack' = IF l.firing /\ ~lists[d].progress.firing
                    THEN Append(stack, Firing(d, "progress")) ELSE stack
  /\ UNCHANGED <<state, value, waiting, maxDepth, timers, remaining, unused,
                 rest, fate, called, threw>>

AddListener(d, k, f) ==
  /\ Call
  /\ Listen(d, k, f, stack)
  /\ UNCHANGED <<state, value, waiting, maxDepth, timers, remaining, unused,
                 rest, fate, called, threw>>

(* Variant: a promise of a settled deferred waits like any other. *)
AwaitLate(d, p, depth) ==
  /\ waiting' = [waiting EXCEPT ![d] = @ \cup {<<p, depth>>}]
  /\ timers' = timers

(* tuples[i][3].add: told at once when the deferred has been settled. *)
Await(d, p, depth) ==
  IF state[d] = "pending"
  THEN /\ waiting' = [waiting EXCEPT ![d] = @ \cup {<<p, depth>>}]
       /\ timers' = timers
  ELSE /\ timers' = timers \cup
            Told(d, IF state[d] = "resolved" THEN "done" ELSE "fail", {<<p, depth>>})
       /\ waiting' = waiting

Then(d, p) ==
  /\ Call
  /\ p \in unused /\ d \notin unused
  /\ unused' = unused \ {p}
  /\ parent' = [parent EXCEPT ![p] = <<d>>]
  /\ Await(d, p, 0)
  /\ UNCHANGED <<state, value, lists, maxDepth, stack, remaining, handed,
                 subs, fate, called, threw>>

(* Variant: the count starts one too low. *)
CountShort(S) == Cardinality(S) - 1

Count(S) == Cardinality(S)

(* when() of several deferreds: a master that counts them. *)
When(S, m) ==
  /\ Call
  /\ Cardinality(S) > 1 /\ S \cap unused = {} /\ m \in unused
  /\ unused' = unused \ {m}
  /\ subs' = [subs EXCEPT ![m] = S]
  /\ remaining' = [remaining EXCEPT ![m] = Count(S)]
  /\ stack' = Append(stack, Adopting(m, S))
  /\ UNCHANGED <<state, value, lists, waiting, maxDepth, timers, handed,
                 parent, fate, called, threw>>

(* adoptValue of one argument: the callbacks that count it, or reject. *)
Update(m) == [update |-> m]
RejectMaster(m) == [reject |-> m]

(* No user can have added them: the one is a closure of when()'s own, the
   other a method of a deferred of which when() returns the promise() only. *)
ASSUME OwnCallbacks ==
  \A m \in Pool : Update(m) \notin Fns /\ RejectMaster(m) \notin Fns

WhenAdopts(s) ==
  /\ stack # <<>> /\ Top.at = "when" /\ s \in Top.k
  /\ LET new   == [lists[s] EXCEPT
                     !.done = Add({"once", "memory"}, @, Update(Top.d)),
                     !.fail = Add({"once", "memory"}, @, RejectMaster(Top.d))]
         entered == {k \in Kinds : new[k].firing /\ ~lists[s][k].firing}
         below == [stack EXCEPT ![Inner].k = @ \ {s}]
     IN /\ lists' = [lists EXCEPT ![s] = new]
        /\ stack' = below \o [i \in 1..Cardinality(entered) |->
                               Firing(s, CHOOSE k \in entered : TRUE)]
  /\ UNCHANGED <<state, value, waiting, maxDepth, timers, remaining, calls,
                 unused, rest, fate, called, threw>>

(***************************************************************************)
(* How what was entered is left.                                           *)
(***************************************************************************)

(* The innermost list goes on behind the callback it had come to. *)
Proceed ==
  LET l == Returned(OptionsOf(Top.k), lists[Top.d][Top.k], FALSE)
  IN /\ lists' = [lists EXCEPT ![Top.d][Top.k] = l]
     /\ stack' = IF l.firing
                 THEN [stack EXCEPT ![Inner].busy = FALSE]
                 ELSE Outer

CallbackReturns ==
  /\ stack # <<>> /\ Top.at = "list"
  /\ Top.busy \/ Current \in Fns
  /\ Proceed
  /\ UNCHANGED <<state, value, waiting, maxDepth, timers, remaining, calls,
                 unused, rest, fate, called, threw>>

(* An exception goes to the user code that is calling, which may catch it or
   throw it on, or to process(), whose try block catches it; what lies
   between is left as it is, lists still firing. *)
CallbackThrows ==
  /\ stack # <<>> /\ Top.at = "list" /\ ~Top.busy /\ Current \in Fns
  /\ LET catchers == {i \in 1..(Len(stack) - 1) :
                        stack[i].at = "process" \/ ~stack[i].busy}
     IN stack' = IF catchers = {} THEN <<>>
                 ELSE SubSeq(stack, 1, CHOOSE i \in catchers :
                                         \A j \in catchers : j <= i)
  /\ threw' = TRUE
  /\ UNCHANGED <<state, value, lists, waiting, maxDepth, timers, remaining,
                 calls, unused, rest, fate, called>>

(* A callback of when(): counts the subordinate, or rejects the master. *)
InternalRuns ==
  /\ stack # <<>> /\ Top.at = "list" /\ ~Top.busy /\ Current \notin Fns
  /\ LET below == [stack EXCEPT ![Inner].busy = TRUE]
     IN IF "update" \in DOMAIN Current
        THEN LET m == Current.update
             IN /\ remaining' = [remaining EXCEPT ![m] = @ - 1]
                /\ IF remaining[m] = 1
                   THEN Settle(m, "done", CHOOSE v \in Vals : TRUE, below)
                   ELSE stack' = below /\ UNCHANGED <<state, value, lists,
                                                      waiting, timers>>
        ELSE /\ Settle(Current.reject, "fail", lists[Top.d].fail.memory[1], below)
             /\ remaining' = remaining
  /\ UNCHANGED <<maxDepth, calls, unused, rest, fate, called, threw>>

(***************************************************************************)
(* then(): process() of a timer at depth 0, or called at a greater depth   *)
(* by the thenable a handler has returned.                                 *)
(***************************************************************************)

(* Variant: an older resolution is not disregarded. *)
DisregardedNever(p, depth) == FALSE

(* "Ignore double-resolution attempts". *)
Disregarded(p, depth) == depth < maxDepth[p]

(* The timer of a handler given to then(). *)
TimerFires(t) ==
  /\ stack = <<>> /\ t \in timers /\ t.depth = 0
  /\ timers' = timers \ {t}
  /\ stack' = IF Disregarded(t.p, 0) THEN <<>> ELSE <<Process(t.p)>>
  /\ UNCHANGED <<state, value, lists, waiting, maxDepth, remaining, calls,
                 unused, rest, fate, called, threw>>

(* The timer of an adopted promise's then(), which calls Identity or Thrower
   of the promise that follows it. *)
FollowedSettles(t) ==
  /\ stack = <<>> /\ t \in timers /\ t.depth > 0
  /\ IF Disregarded(t.p, t.depth)
     THEN /\ timers' = timers \ {t}
          /\ UNCHANGED <<state, value, lists, waiting, stack>>
     ELSE SettleFrom(timers \ {t}, t.p, t.k, value[t.of][1], <<>>)
  /\ UNCHANGED <<maxDepth, remaining, calls, unused, rest, fate, called, threw>>

(* What is done with a result: `r' is ["plain", v], ["promise", e] or
   ["foreign"], an object of the user's with a then method. *)
ResolveTo(p, n, r, below) ==
  CASE r[1] = "plain" ->
         /\ Settle(p, "done", r[2], below)
         /\ UNCHANGED <<maxDepth, handed>>
    [] r[1] = "promise" ->
         /\ maxDepth' = [maxDepth EXCEPT ![p] = @ + 1]
         /\ Await(r[2], p, maxDepth[p] + 1)
         /\ stack' = below
         /\ UNCHANGED <<state, value, lists, handed>>
    [] r[1] = "foreign" ->
         /\ maxDepth' = [maxDepth EXCEPT ![p] = @ + 1]
         /\ stack' = Append(below, ThenCall(p, n))
         /\ handed' = handed \cup {<<p, maxDepth[p] + 1>>}
         /\ UNCHANGED <<state, value, lists, waiting, timers>>

(* What the result binds the promise to. *)
FateOf(p, r) ==
  CASE r[1] = "plain"   -> <<"settled", "done">>
    [] r[1] = "promise" -> <<"follows", r[2]>>
    [] r[1] = "foreign" -> <<"foreign", maxDepth[p] + 1>>

Results(p) ==
  {<<"plain", v>> : v \in Vals} \cup
  (IF maxDepth[p] = MaxDepth THEN {}
   ELSE {<<"promise", e>> : e \in Ds \ (unused \cup {p})} \cup {<<"foreign">>})

Handled == [stack EXCEPT ![Inner].busy = TRUE]

(* The handler returns. *)
HandlerReturns(r) ==
  /\ stack # <<>> /\ Top.at = "process" /\ ~Top.busy
  /\ r \in Results(Top.d)
  /\ ResolveTo(Top.d, 0, r, Handled)
  /\ fate' = [fate EXCEPT ![Top.d] = FateOf(Top.d, r)]
  /\ UNCHANGED <<remaining, calls, unused, parent, subs, called, threw>>

(* The handler throws, or returns the very promise it decides. *)
HandlerThrows(v) ==
  /\ stack # <<>> /\ Top.at = "process" /\ ~Top.busy
  /\ Settle(Top.d, "fail", v, Handled)
  /\ fate' = [fate EXCEPT ![Top.d] = <<"settled", "fail">>]
  /\ UNCHANGED <<maxDepth, remaining, calls, unused, rest, called, threw>>

(* The foreign then method has returned, or thrown: then the catch block
   rejects unless a later resolution is under way. *)
ForeignThenReturns ==
  /\ stack # <<>> /\ Top.at = "then" /\ ~Top.busy
  /\ stack' = Outer
  /\ UNCHANGED <<state, value, lists, waiting, maxDepth, timers, remaining,
                 calls, unused, rest, fate, called, threw>>

(* Variant: an exception rejects whatever was resolved before it. *)
CatchesAlways(p, n) == TRUE

(* "Ignore post-resolution exceptions". *)
Catches(p, n) == n + 1 >= maxDepth[p]

ForeignThenThrows(v) ==
  /\ stack # <<>> /\ Top.at = "then" /\ ~Top.busy
  /\ LET p == Top.d
         cap == <<p, Top.k + 1>>
     IN /\ IF Catches(p, Top.k)
           THEN Settle(p, "fail", v, Outer)
           ELSE /\ stack' = Outer
                /\ UNCHANGED <<state, value, lists, waiting, timers>>
        /\ fate' = IF cap \in called THEN fate
                   ELSE [fate EXCEPT ![p] = <<"settled", "fail">>]
        /\ called' = called \cup {cap}
  /\ UNCHANGED <<maxDepth, remaining, calls, unused, rest, threw>>

(* The functions a foreign then method was given, called by it at any time
   and any number of times: only the first call counts, and what a later one
   hands on is void. *)
ForeignCalls(p, n, r) ==
  /\ Call
  /\ <<p, n>> \in handed
  /\ r \in Results(p) \cup {<<"reject", v>> : v \in Vals}
  /\ IF Disregarded(p, n)
     THEN UNCHANGED <<state, value, lists, waiting, timers, stack, maxDepth,
                      handed>>
     ELSE IF r[1] = "reject"
     THEN Settle(p, "fail", r[2], stack) /\ UNCHANGED <<maxDepth, handed>>
     ELSE ResolveTo(p, n, r, stack)
  /\ called' = called \cup {<<p, n>>} \cup
                (IF <<p, n>> \in called THEN handed' \ handed ELSE {})
  /\ fate' = IF <<p, n>> \in called THEN fate
             ELSE [fate EXCEPT ![p] = IF r[1] = "reject" THEN <<"settled", "fail">>
                                      ELSE FateOf(p, r)]
  /\ UNCHANGED <<remaining, unused, parent, subs, threw>>

(* process() and when() end. *)
Leave ==
  /\ stack # <<>>
  /\ \/ Top.at = "process" /\ Top.busy
     \/ Top.at = "when" /\ Top.k = {}
  /\ stack' = Outer
  /\ UNCHANGED <<state, value, lists, waiting, maxDepth, timers, remaining,
                 calls, unused, rest, fate, called, threw>>
Next ==
  \/ \E d \in Ds, k \in Kinds, v \in Vals : Resolve(d, k, v)
  \/ \E d \in Ds, v \in Vals : Notify(d, v)
  \/ \E d \in Ds \ unused, k \in Kinds \cup {"progress"}, f \in Fns :
       AddListener(d, k, f)
  \/ \E d \in Ds, p \in Pool : Then(d, p)
  \/ \E S \in SUBSET Ds, m \in Pool : When(S, m)
  \/ \E s \in Ds : WhenAdopts(s)
  \/ CallbackReturns \/ CallbackThrows \/ InternalRuns
  \/ \E t \in timers : TimerFires(t) \/ FollowedSettles(t)
  \/ \E p \in Pool : \E r \in Results(p) : HandlerReturns(r)
  \/ \E v \in Vals : HandlerThrows(v) \/ ForeignThenThrows(v)
  \/ ForeignThenReturns \/ Leave
  \/ \E c \in handed :
       \E r \in Results(c[1]) \cup {<<"reject", v>> : v \in Vals} :
         ForeignCalls(c[1], c[2], r)

Spec == Init /\ [][Next]_vars

(***************************************************************************)
(* Properties.                                                             *)
(***************************************************************************)
Quiet == stack = <<>> /\ timers = {}
Settled(d) == state[d] # "pending"

TypeOK ==
  /\ state \in [Ds -> {"pending", "resolved", "rejected"}]
  /\ \A d \in Ds : /\ value[d] \in {<<>>} \cup {<<v>> : v \in Vals}
                   /\ value[d] = <<>> <=> state[d] = "pending"
  /\ maxDepth \in [Ds -> 0..MaxDepth]
  /\ waiting \in [Ds -> SUBSET (Ds \X (0..MaxDepth))]
  /\ remaining \in [Ds -> 0..Cardinality(Ds)]

(* Whatever its callbacks, handlers and thenables call, however often and in
   whatever order, a deferred is settled once. *)
SettledForGood ==
  [][\A d \in Ds : Settled(d) =>
       state'[d] = state[d] /\ value'[d] = value[d]]_vars

(* A promise made by then() ends as the first word on it said: the result of
   the handler, the first call a foreign thenable makes, the end of the
   promise it was led on to.  The code keeps no "already called" flag: it
   compares depths (lines 3561, 3606 and 3646). *)
EndsAsFirstSaid ==
  \A p \in Pool : parent[p] # <<>> /\ Settled(p) =>
    CASE fate[p][1] = "settled" -> state[p] = Outcome(fate[p][2])
      [] fate[p][1] = "follows" -> state[p] = state[fate[p][2]]
      [] OTHER -> FALSE

(* Nothing is lost on the way: when no code runs and no timer is set, a
   promise of then() whose deferred is settled is settled too, or is bound
   to something that is not. *)
NoPromiseForgotten ==
  Quiet => \A p \in Pool : parent[p] # <<>> /\ Settled(parent[p][1]) =>
    \/ Settled(p)
    \/ fate[p][1] = "follows" /\ ~Settled(fate[p][2])
    \/ fate[p][1] = "foreign" /\ <<p, fate[p][2]>> \notin called

(* Every listener of a settled deferred is called in the end, also one added
   by a listener and one added after the end, unless a listener throws: its
   list then counts as firing for ever and later listeners are only put into
   it. *)
ListenersAllCalled ==
  Quiet /\ ~threw => \A d \in Ds : Settled(d) =>
    \A k \in Kinds : lists[d][k].list = <<>> /\ ~lists[d][k].firing

(* A master is resolved when and only when all it was made of is, and
   rejected when one of them is. *)
MasterCountsAll ==
  /\ TypeOK
  /\ \A m \in Pool : subs[m] # {} =>
       /\ state[m] = "resolved" => \A s \in subs[m] : state[s] = "resolved"
       /\ Quiet /\ ~threw =>
            /\ (\A s \in subs[m] : state[s] = "resolved") => state[m] = "resolved"
            /\ (\E s \in subs[m] : state[s] = "rejected") => state[m] = "rejected"
=============================================================================
