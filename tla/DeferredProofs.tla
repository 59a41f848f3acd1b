--------------------------- MODULE DeferredProofs ---------------------------
(***************************************************************************)
(* What holds of jQuery.Deferred, then() and when() for any deferreds,     *)
(* callbacks, values and number of calls.  The code has no variable for    *)
(* most of it: that a deferred was settled is known from its lists alone,  *)
(* that a list is being fired from what runs on the stack, and what is     *)
(* still to come for a promise from the timers, the frames and the lists   *)
(* of its deferred together.  So the invariant has four parts:             *)
(*   ListsInv  the lists of a deferred and its state,                      *)
(*   StackInv  the frames of what runs and the lists that fire,            *)
(*   PromInv   a promise, what is to come for it, and the first word on it,*)
(*   MastersInv  the count of a master and the subordinates that hold it.  *)
(* For each action there is a lemma on the first two, which every action   *)
(* of the code keeps because it changes one list, one frame and one        *)
(* deferred at a time, and one on the third, where most actions are calm:  *)
(* what is to come only moves on, from a list to a timer to a frame.       *)
(***************************************************************************)
EXTENDS Deferred, TLAPS, WellFoundedInduction, FiniteSetTheorems

(* The least element of a set of numbers, in place of induction. *)
Less == {ss \in Nat \X Nat : ss[1] < ss[2]}

LEMMA NatMin ==
  ASSUME NEW T, T \subseteq Nat, T # {}
  PROVE \E x \in T : \A y \in T : x <= y
<1>1. OpToRel(<, Nat) = Less
  BY Zenon DEF OpToRel, Less
<1>2. IsWellFoundedOn(Less, Nat)
  BY <1>1, NatLessThanWellFounded, Zenon
<1>3. PICK x \in T : \A y \in T : ~(<<y,x>> \in Less)
  BY <1>2, WFMin, Zenon
<1>4. \A a, b \in Nat : a < b => <<a, b>> \in Less
  <2>. TAKE a, b \in Nat
  <2>. HAVE a < b
  <2>1. <<a, b>> \in Nat \X Nat /\ <<a, b>>[1] < <<a, b>>[2]
    OBVIOUS
  <2>. QED  BY <2>1, Zenon DEF Less
<1>5. \A y \in T : ~(y < x)
  BY <1>3, <1>4
<1>. QED  BY <1>5

-----------------------------------------------------------------------------
(* The lists. *)
AllKinds == {"done", "fail", "progress"}
Memories == {<<>>} \cup {<<v>> : v \in Vals}

(* Whose master: what when() puts into the lists of its arguments. *)
Masters == {m \in Pool : subs[m] # {}}
Entries ==
  [k \in AllKinds |->
    CASE k = "done" -> Fns \cup {Update(m) : m \in Masters}
      [] k = "fail" -> Fns \cup {RejectMaster(m) : m \in Masters}
      [] OTHER -> Fns]

ListType(E) ==
  [list : Seq(E), alive : BOOLEAN, queue : Seq(Vals), memory : Memories,
   firing : BOOLEAN, fired : BOOLEAN, locked : BOOLEAN, index : Nat]

Shape(l, E) == l \in ListType(E) /\ l.index <= Len(l.list)

(* A list that fires stands at one of its callbacks. *)
ListOK(l, E) ==
  /\ Shape(l, E)
  /\ l.firing => l.index # 0
  /\ ~l.firing => l.index = 0 /\ l.queue = <<>>

(* A done or a fail list and the state of its deferred: unlocked while that is
   pending; with its value, and spent unless it fires, when that ended as the
   list is for; disabled when it ended otherwise. *)
KindOK(l, k, s, v) ==
  /\ l.queue = <<>>
  /\ s = "pending" => l.memory = <<>> /\ ~l.firing /\ ~l.locked /\ l.alive
  /\ s = Outcome(k) => /\ l.memory = v /\ l.locked /\ l.alive
                       /\ ~l.firing => l.list = <<>>
  /\ s = Outcome(Other(k)) =>
       l.memory = <<>> /\ ~l.firing /\ l.locked /\ ~l.alive /\ l.list = <<>>

DefOK(L, s, v, E) ==
  /\ s \in {"pending", "resolved", "rejected"}
  /\ v \in Memories
  /\ v = <<>> <=> s = "pending"
  /\ DOMAIN L = AllKinds
  /\ \A k \in AllKinds : ListOK(L[k], E[k])
  /\ \A k \in Kinds : KindOK(L[k], k, s, v)

ListsInv ==
  /\ DOMAIN state = Ds /\ DOMAIN value = Ds /\ DOMAIN lists = Ds
  /\ \A d \in Ds : DefOK(lists[d], state[d], value[d], Entries)

-----------------------------------------------------------------------------
LEMMA Fields ==
  ASSUME NEW E, NEW l \in ListType(E)
  PROVE  /\ l.list \in Seq(E) /\ l.index \in Nat /\ l.queue \in Seq(Vals) /\ Len(l.list) \in Nat
         /\ l.memory \in Memories
         /\ l.alive \in BOOLEAN /\ l.locked \in BOOLEAN /\ l.fired \in BOOLEAN /\ l.firing \in BOOLEAN
         /\ l = [list |-> l.list, alive |-> l.alive, queue |-> l.queue, memory |-> l.memory,
                 firing |-> l.firing, fired |-> l.fired, locked |-> l.locked, index |-> l.index]
BY DEF ListType

LEMMA Value ==
  /\ <<>> \in Memories /\ <<>> \in Seq(Vals)
  /\ \A v \in Vals : <<v>> \in Memories /\ <<v>> # <<>>
BY DEF Memories

(* The end of fire(). *)
LEMMA FinishOK ==
  ASSUME NEW E, NEW l \in ListType(E), l.queue = <<>>, l.index = 0, NEW o
  PROVE  /\ ListOK(Finish(o, l), E)
         /\ "memory" \in o /\ l.memory # <<>> /\ l.locked =>
              /\ Finish(o, l).memory = l.memory /\ Finish(o, l).locked
              /\ Finish(o, l).alive /\ Finish(o, l).list = <<>>
         /\ ~Finish(o, l).firing
<1>1. PICK k : k = IF "memory" \in o THEN l.memory ELSE <<>>
  OBVIOUS
<1>2. k \in Memories /\ <<>> \in Seq(E)
  BY <1>1, Fields, Value
<1>3. PICK x, a : /\ x = (IF l.locked THEN <<>> ELSE l.list) /\ x \in Seq(E)
                  /\ a = (IF l.locked THEN k # <<>> ELSE l.alive) /\ a \in BOOLEAN
  BY <1>2, Fields
<1>4. Finish(o, l) = [list |-> x, alive |-> a, queue |-> l.queue, memory |-> k, firing |-> FALSE,
                      fired |-> l.fired, locked |-> l.locked, index |-> l.index]
  <2>1. Finish(o, l) = [l EXCEPT !.memory = k, !.firing = FALSE,
                                 !.list = IF l.locked THEN <<>> ELSE @,
                                 !.alive = IF l.locked THEN k # <<>> ELSE @]
    BY <1>1 DEF Finish
  <2>2. Finish(o, l) = [l EXCEPT !.memory = k, !.firing = FALSE, !.list = x, !.alive = a]
    BY <1>3, <2>1 DEF ListType
  <2>. QED  BY <2>2 DEF ListType
<1>5. Finish(o, l) \in ListType(E)
  BY <1>2, <1>3, <1>4, Fields DEF ListType
<1>6. Len(x) \in Nat
  BY <1>3
<1>. QED  BY <1>1, <1>3, <1>4, <1>5, <1>6 DEF ListOK, Shape

(* fire() from one callback to the next. *)
LEMMA AdvanceOK ==
  ASSUME NEW E, NEW l, Shape(l, E), l.firing, NEW o
  PROVE  /\ ListOK(Advance(o, l), E)
         /\ l.index < Len(l.list) => Advance(o, l) = [l EXCEPT !.index = l.index + 1]
         /\ l.index = Len(l.list) /\ l.queue = <<>> =>
              Advance(o, l) = Finish(o, [l EXCEPT !.index = 0])
<1>0. l \in ListType(E) /\ l.index <= Len(l.list)
  BY DEF Shape
<1>f. /\ l.list \in Seq(E) /\ l.index \in Nat /\ l.queue \in Seq(Vals) /\ Len(l.list) \in Nat
      /\ l.memory \in Memories
      /\ l.alive \in BOOLEAN /\ l.locked \in BOOLEAN /\ l.fired \in BOOLEAN /\ l.firing \in BOOLEAN
  BY <1>0, Fields
<1>1. CASE l.index < Len(l.list)
  <2>1. Advance(o, l) = [l EXCEPT !.index = l.index + 1]
    BY <1>1 DEF Advance
  <2>2. [l EXCEPT !.index = l.index + 1] \in ListType(E)
    BY <1>0, <1>f DEF ListType
  <2>3. /\ [l EXCEPT !.index = l.index + 1].index = l.index + 1
        /\ [l EXCEPT !.index = l.index + 1].firing
        /\ [l EXCEPT !.index = l.index + 1].list = l.list
    BY <1>0 DEF ListType
  <2>. QED  BY <1>1, <1>f, <2>1, <2>2, <2>3 DEF Shape, ListOK
<1>2. CASE l.index = Len(l.list) /\ l.queue # <<>> /\ l.list # <<>>
  <2>. DEFINE r == Advance(o, l)
  <2>1. r = [l EXCEPT !.memory = <<Head(l.queue)>>, !.queue = Tail(l.queue), !.index = 1]
    BY <1>2, <1>f DEF Advance
  <2>0. Head(l.queue) \in Vals /\ Tail(l.queue) \in Seq(Vals)
    BY <1>2, <1>f
  <2>2. PICK v, q : v = Head(l.queue) /\ q = Tail(l.queue) /\ v \in Vals /\ q \in Seq(Vals)
    BY <2>0
  <2>3. r = [list |-> l.list, alive |-> l.alive, queue |-> q, memory |-> <<v>>,
             firing |-> l.firing, fired |-> l.fired, locked |-> l.locked, index |-> 1]
    BY <1>0, <2>1, <2>2 DEF ListType
  <2>. HIDE DEF r
  <2>4. r \in ListType(E)
    BY <1>f, <2>2, <2>3, Value DEF ListType
  <2>5. Len(l.list) # 0
    BY <1>2, <1>f
  <2>6. ListOK(r, E)
    BY <1>f, <2>3, <2>4, <2>5 DEF ListOK, Shape
  <2>. QED  BY <1>2, <2>6 DEF r
<1>3. CASE l.index = Len(l.list) /\ l.queue # <<>> /\ l.list = <<>>
  <2>2. PICK v \in Vals : v = l.queue[Len(l.queue)]
    BY <1>f, <1>3
  <2>. DEFINE m == [l EXCEPT !.memory = <<v>>, !.queue = <<>>, !.index = 0]
  <2>1. Advance(o, l) = Finish(o, m)
    BY <1>f, <1>3, <2>2 DEF Advance
  <2>3. m \in ListType(E) /\ m.queue = <<>> /\ m.index = 0
    BY <1>0, <1>f, Value DEF ListType
  <2>. HIDE DEF m
  <2>4. ListOK(Finish(o, m), E)
    BY <2>3, FinishOK
  <2>. QED  BY <1>3, <2>1, <2>4
<1>4. CASE l.index = Len(l.list) /\ l.queue = <<>>
  <2>. DEFINE m == [l EXCEPT !.index = 0]
  <2>1. Advance(o, l) = Finish(o, m)
    BY <1>f, <1>4 DEF Advance
  <2>3. m \in ListType(E) /\ m.queue = <<>> /\ m.index = 0
    BY <1>0, <1>f, <1>4 DEF ListType
  <2>. HIDE DEF m
  <2>4. ListOK(Finish(o, m), E)
    BY <2>3, FinishOK
  <2>. QED  BY <1>4, <2>1, <2>4 DEF m
<1>. QED  BY <1>0, <1>f, <1>1, <1>2, <1>3, <1>4

(* The beginning of fire(), for one value that waits. *)
LEMMA StartOK ==
  ASSUME NEW E, NEW l, Shape(l, E), NEW v \in Vals, l.queue = <<v>>, NEW o
  PROVE  /\ ListOK(Start(o, l), E)
         /\ l.index < Len(l.list) =>
              /\ Start(o, l).list = l.list /\ Start(o, l).index = l.index + 1
              /\ Start(o, l).memory = <<v>> /\ Start(o, l).queue = <<>>
              /\ Start(o, l).firing /\ Start(o, l).alive = l.alive
              /\ Start(o, l).locked = (l.locked \/ "once" \in o)
         /\ l.index = Len(l.list) /\ "once" \in o /\ "memory" \in o =>
              /\ Start(o, l).memory = <<v>> /\ Start(o, l).locked
              /\ Start(o, l).alive /\ Start(o, l).list = <<>> /\ ~Start(o, l).firing
<1>0. l \in ListType(E) /\ l.index <= Len(l.list)
  BY DEF Shape
<1>f. /\ l.list \in Seq(E) /\ l.index \in Nat /\ l.queue \in Seq(Vals) /\ Len(l.list) \in Nat
      /\ l.memory \in Memories
      /\ l.alive \in BOOLEAN /\ l.locked \in BOOLEAN /\ l.fired \in BOOLEAN /\ l.firing \in BOOLEAN
  BY <1>0, Fields
<1>1. PICK lo \in BOOLEAN : lo = (l.locked \/ "once" \in o)
  OBVIOUS
<1>e. PICK e, w, y : e = <<>> /\ w = <<v>> /\ y = TRUE /\ y \in BOOLEAN
  OBVIOUS
<1>. DEFINE m == [list |-> l.list, alive |-> l.alive, queue |-> e, memory |-> w,
                  firing |-> y, fired |-> y, locked |-> lo, index |-> l.index]
<1>2. Start(o, l) = Advance(o, m)
  <2>1. Head(<<v>>) = v /\ Tail(<<v>>) = <<>>
    OBVIOUS
  <2>. DEFINE n == [l EXCEPT !.locked = lo, !.fired = y, !.firing = y,
                             !.memory = w, !.queue = e]
  <2>2. Start(o, l) = Advance(o, n)
    BY <1>1, <1>e, <2>1 DEF Start
  <2>3. n = m
    <3>1. n = [x \in {"list", "alive", "queue", "memory", "firing", "fired", "locked", "index"} |-> n[x]]
      BY <1>0 DEF ListType
    <3>2. m = [x \in {"list", "alive", "queue", "memory", "firing", "fired", "locked", "index"} |-> m[x]]
      OBVIOUS
    <3>3. /\ n.list = m.list /\ n.alive = m.alive /\ n.queue = m.queue
          /\ n.memory = m.memory /\ n.firing = m.firing /\ n.fired = m.fired
          /\ n.locked = m.locked /\ n.index = m.index
      BY <1>0 DEF ListType
    <3>. HIDE DEF m, n
    <3>. QED  BY <3>1, <3>2, <3>3
  <2>. QED  BY <2>2, <2>3
<1>3. m \in ListType(E)
  BY <1>f, <1>1, <1>e, Value DEF ListType
<1>4. /\ Shape(m, E) /\ m.firing /\ m.list = l.list /\ m.index = l.index
      /\ m.queue = <<>> /\ m.memory = <<v>> /\ m.locked = lo
  BY <1>0, <1>3, <1>e DEF Shape
<1>9. m.index < Len(m.list) =>
        LET r == [m EXCEPT !.index = m.index + 1] IN
        /\ r.list = l.list /\ r.index = l.index + 1 /\ r.memory = <<v>> /\ r.queue = <<>>
        /\ r.firing /\ r.alive = l.alive /\ r.locked = lo
  BY <1>e
<1>5. PICK z : z = [m EXCEPT !.index = 0]
  OBVIOUS
<1>6. z \in ListType(E) /\ z.queue = <<>> /\ z.index = 0 /\ z.memory = <<v>> /\ z.locked = lo
  BY <1>3, <1>4, <1>5 DEF ListType
<1>. HIDE DEF m
<1>7. /\ ListOK(Advance(o, m), E)
      /\ m.index < Len(m.list) => Advance(o, m) = [m EXCEPT !.index = m.index + 1]
      /\ m.index = Len(m.list) /\ m.queue = <<>> => Advance(o, m) = Finish(o, z)
  BY <1>4, <1>5, AdvanceOK
<1>8. lo /\ "memory" \in o => /\ Finish(o, z).memory = <<v>> /\ Finish(o, z).locked
                             /\ Finish(o, z).alive /\ Finish(o, z).list = <<>> /\ ~Finish(o, z).firing
  BY <1>6, Value, FinishOK
<1>. QED  BY <1>1, <1>2, <1>e, <1>4, <1>7, <1>8, <1>9
(* A method called on a list of a deferred.  What it does to a done or a fail
   list depends on how the deferred stands. *)
LEMMA PushOK ==
  ASSUME NEW E, NEW l, Shape(l, E), NEW f \in E, NEW o, "unique" \notin o
  PROVE  /\ Shape(Push(o, l, f), E)
         /\ Push(o, l, f) = [l EXCEPT !.list = Append(l.list, f)]
         /\ Push(o, l, f).list = Append(l.list, f)
         /\ Len(Push(o, l, f).list) = Len(l.list) + 1
         /\ Push(o, l, f).index = l.index /\ Push(o, l, f).queue = l.queue
         /\ Push(o, l, f).firing = l.firing /\ Push(o, l, f).locked = l.locked
         /\ Push(o, l, f).alive = l.alive /\ Push(o, l, f).memory = l.memory
<1>0. l \in ListType(E) /\ l.index <= Len(l.list) /\ l.list \in Seq(E)
  BY Fields DEF Shape
<1>a. Append(l.list, f) \in Seq(E) /\ Len(Append(l.list, f)) = Len(l.list) + 1
  BY <1>0
<1>1. PICK a \in Seq(E) : a = Append(l.list, f) /\ Len(a) = Len(l.list) + 1
  BY <1>a
<1>2. Push(o, l, f) = [l EXCEPT !.list = a]
  BY <1>1 DEF Push
<1>3. [l EXCEPT !.list = a] \in ListType(E)
  BY <1>0, <1>1 DEF ListType
<1>4. /\ [l EXCEPT !.list = a].list = a /\ [l EXCEPT !.list = a].index = l.index
      /\ [l EXCEPT !.list = a].queue = l.queue /\ [l EXCEPT !.list = a].firing = l.firing
      /\ [l EXCEPT !.list = a].locked = l.locked /\ [l EXCEPT !.list = a].alive = l.alive
      /\ [l EXCEPT !.list = a].memory = l.memory
  BY <1>0, <1>1 DEF ListType
<1>5. l.index \in Nat /\ Len(l.list) \in Nat
  BY <1>0, Fields
<1>. QED  BY <1>0, <1>1, <1>2, <1>3, <1>4, <1>5 DEF Shape

(* A list that remembers its value and rests calls the addition. *)
LEMMA AddAtRest ==
  ASSUME NEW E, NEW l, ListOK(l, E), NEW f \in E, NEW o, "unique" \notin o,
         l.alive, l.memory # <<>>, ~l.firing
  PROVE  /\ ListOK(Add(o, l, f), E)
         /\ Add(o, l, f).list = Append(l.list, f)
         /\ Add(o, l, f).index = Len(l.list) + 1
         /\ Add(o, l, f).memory = l.memory
         /\ Add(o, l, f).queue = <<>> /\ Add(o, l, f).firing /\ Add(o, l, f).alive
         /\ Add(o, l, f).locked = (l.locked \/ "once" \in o)
<1>0. Shape(l, E) /\ l \in ListType(E) /\ l.queue = <<>> /\ l.list \in Seq(E) /\ Len(l.list) \in Nat
  BY Fields DEF ListOK, Shape
<1>1. PICK v \in Vals : l.memory = <<v>>
  BY <1>0, Fields DEF Memories
<1>2. PICK n, q : n = Len(l.list) /\ q = <<v>>
  OBVIOUS
<1>3. q \in Seq(Vals) /\ n \in Nat
  BY <1>0, <1>2
<1>. DEFINE m == [l EXCEPT !.index = n, !.queue = q]
<1>4. Append(<<>>, v) = <<v>>
  OBVIOUS
<1>5. Add(o, l, f) = Start(o, Push(o, m, f))
  BY <1>0, <1>1, <1>2, <1>4 DEF Add
<1>6. m \in ListType(E)
  BY <1>0, <1>3 DEF ListType
<1>7. m.list = l.list /\ m.index = n /\ m.queue = q /\ m.locked = l.locked /\ m.alive = l.alive
  BY <1>0 DEF ListType
<1>. HIDE DEF m
<1>8. Shape(m, E)
  BY <1>2, <1>3, <1>6, <1>7 DEF Shape
<1>9. PICK p : p = Push(o, m, f)
  OBVIOUS
<1>10a. /\ Shape(p, E) /\ p.list = Append(m.list, f) /\ Len(p.list) = Len(m.list) + 1
        /\ p.index = m.index /\ p.queue = m.queue /\ p.locked = m.locked /\ p.alive = m.alive
  BY <1>8, <1>9, PushOK
<1>10. /\ Shape(p, E) /\ p.list = Append(l.list, f) /\ Len(p.list) = n + 1
       /\ p.index = n /\ p.queue = <<v>> /\ p.locked = l.locked /\ p.alive = l.alive
  BY <1>2, <1>7, <1>10a
<1>11. /\ ListOK(Start(o, p), E)
       /\ Start(o, p).list = p.list /\ Start(o, p).index = p.index + 1
       /\ Start(o, p).memory = <<v>> /\ Start(o, p).queue = <<>>
       /\ Start(o, p).firing /\ Start(o, p).alive = p.alive
       /\ Start(o, p).locked = (p.locked \/ "once" \in o)
  <2>1. p.index < Len(p.list)
    BY <1>3, <1>10
  <2>2. Shape(p, E) /\ p.queue = <<v>>
    BY <1>10
  <2>. QED  BY <2>1, <2>2, StartOK
<1>. QED  BY <1>1, <1>2, <1>5, <1>9, <1>10, <1>11

LEMMA AddOK ==
  ASSUME NEW E, NEW l, ListOK(l, E), NEW f \in E, NEW k \in AllKinds
  PROVE  ListOK(Add(OptionsOf(k), l, f), E)
<1>1. "unique" \notin OptionsOf(k)
  BY DEF OptionsOf
<1>2. PICK o : o = OptionsOf(k)
  OBVIOUS
<1>3. l.alive /\ l.memory # <<>> /\ ~l.firing => ListOK(Add(o, l, f), E)
  BY <1>1, <1>2, AddAtRest
<1>4. l.alive /\ ~(l.memory # <<>> /\ ~l.firing) => ListOK(Add(o, l, f), E)
  <2>1. Shape(l, E)
    BY DEF ListOK
  <2>2. PICK p : p = Push(o, l, f)
    OBVIOUS
  <2>3. /\ Shape(p, E) /\ p.index = l.index /\ p.queue = l.queue /\ p.firing = l.firing
    BY <1>1, <1>2, <2>1, <2>2, PushOK
  <2>4. l.alive /\ ~(l.memory # <<>> /\ ~l.firing) => Add(o, l, f) = p
    BY <2>2 DEF Add
  <2>. QED  BY <2>3, <2>4 DEF ListOK
<1>5. ~l.alive => Add(o, l, f) = l
  BY DEF Add
<1>. QED  BY <1>2, <1>3, <1>4, <1>5

(* add() on a done or a fail list: while it fires or its deferred is pending
   the addition waits in the list; when the deferred has ended as the list is
   for, it is called; when it ended otherwise, nothing. *)
AddedTo(l, k, s, f, r) ==
  /\ s = "pending" \/ l.firing =>
       /\ r.list = Append(l.list, f) /\ r.index = l.index /\ r.firing = l.firing
  /\ s = Outcome(k) /\ ~l.firing =>
       /\ r.list = <<f>> /\ r.index = 1 /\ r.firing
  /\ s = Outcome(Other(k)) => r = l

LEMMA AddKind ==
  ASSUME NEW E, NEW l, ListOK(l, E), NEW f \in E, NEW k \in Kinds, NEW s, NEW v,
         KindOK(l, k, s, v), s \in {"pending", "resolved", "rejected"},
         s # "pending" => v # <<>>
  PROVE  /\ KindOK(Add(OptionsOf(k), l, f), k, s, v)
         /\ AddedTo(l, k, s, f, Add(OptionsOf(k), l, f))
         /\ l.firing => Add(OptionsOf(k), l, f).firing
<1>0. /\ k \in AllKinds /\ Outcome(k) # "pending" /\ Outcome(k) # Outcome(Other(k))
      /\ Outcome(Other(k)) # "pending" /\ s \in {"pending", Outcome(k), Outcome(Other(k))}
  BY DEF Kinds, AllKinds, Outcome, Other
<1>1. "unique" \notin OptionsOf(k) /\ "once" \in OptionsOf(k)
  BY DEF OptionsOf, Kinds
<1>2. PICK o : o = OptionsOf(k)
  OBVIOUS
<1>s. Shape(l, E)
  BY DEF ListOK
<1>3. CASE s = "pending" \/ (s = Outcome(k) /\ l.firing)
  <2>1. l.alive /\ ~(l.memory # <<>> /\ ~l.firing)
    BY <1>0, <1>3 DEF KindOK
  <2>2. Add(o, l, f) = Push(o, l, f)
    BY <2>1 DEF Add
  <2>. QED  BY <1>0, <1>1, <1>2, <1>3, <1>s, <2>2, PushOK DEF KindOK, AddedTo
<1>4. CASE s = Outcome(k) /\ ~l.firing
  <2>1. l.alive /\ l.memory = v /\ v # <<>> /\ l.list = <<>> /\ l.locked
    BY <1>0, <1>4 DEF KindOK
  <2>2. /\ Add(o, l, f).list = Append(l.list, f)
        /\ Add(o, l, f).index = Len(l.list) + 1
        /\ Add(o, l, f).memory = l.memory
        /\ Add(o, l, f).queue = <<>> /\ Add(o, l, f).firing /\ Add(o, l, f).alive
        /\ Add(o, l, f).locked = (l.locked \/ "once" \in o)
    BY <1>1, <1>2, <1>4, <2>1, AddAtRest
  <2>3. Append(<<>>, f) = <<f>> /\ Len(<<>>) + 1 = 1
    OBVIOUS
  <2>4. PICK r : r = Add(o, l, f)
    OBVIOUS
  <2>5. KindOK(r, k, s, v) /\ AddedTo(l, k, s, f, r) /\ r.firing
    BY <1>0, <1>1, <1>2, <1>4, <2>1, <2>2, <2>3, <2>4 DEF KindOK, AddedTo
  <2>. QED  BY <1>2, <2>4, <2>5
<1>5. CASE s = Outcome(Other(k))
  <2>1. ~l.alive /\ ~l.firing
    BY <1>5 DEF KindOK
  <2>2. Add(o, l, f) = l
    BY <2>1 DEF Add
  <2>. QED  BY <1>0, <1>2, <1>5, <2>1, <2>2 DEF AddedTo
<1>. QED  BY <1>0, <1>3, <1>4, <1>5

(* fire() goes on behind a callback. *)
LEMMA ReturnedOK ==
  ASSUME NEW E, NEW l, ListOK(l, E), l.firing, NEW o
  PROVE  ListOK(Returned(o, l, FALSE), E)
<1>1. Returned(o, l, FALSE) = Advance(o, l)
  BY DEF Returned
<1>2. Shape(l, E)
  BY DEF ListOK
<1>3. ListOK(Advance(o, l), E)
  BY <1>2, AdvanceOK
<1>. QED  BY <1>1, <1>3

(* The list of a deferred goes on to the next callback or is spent. *)
PassedOn(l, r) ==
  /\ l.index < Len(l.list) => /\ r.firing /\ r.index = l.index + 1 /\ r.list = l.list
  /\ l.index = Len(l.list) => ~r.firing /\ r.list = <<>>

LEMMA ReturnedKind ==
  ASSUME NEW E, NEW l, ListOK(l, E), l.firing, NEW k \in Kinds, NEW s, NEW v,
         KindOK(l, k, s, v), s \in {"pending", "resolved", "rejected"},
         s # "pending" => v # <<>>
  PROVE  LET r == Returned(OptionsOf(k), l, FALSE) IN
         KindOK(r, k, s, v) /\ PassedOn(l, r)
<1>0. /\ Outcome(k) # "pending" /\ Outcome(k) # Outcome(Other(k))
      /\ Outcome(Other(k)) # "pending" /\ s \in {"pending", Outcome(k), Outcome(Other(k))}
      /\ "memory" \in OptionsOf(k)
  BY DEF Kinds, Outcome, Other, OptionsOf
<1>1. s = Outcome(k) /\ l.queue = <<>> /\ l.memory = v /\ l.locked /\ l.alive /\ v # <<>>
  BY <1>0 DEF KindOK
<1>2. PICK o : o = OptionsOf(k)
  OBVIOUS
<1>3. Returned(o, l, FALSE) = Advance(o, l)
  BY DEF Returned
<1>4. Shape(l, E) /\ l \in ListType(E) /\ l.index <= Len(l.list) /\ l.index \in Nat /\ Len(l.list) \in Nat
  BY Fields DEF ListOK, Shape
<1>5. CASE l.index < Len(l.list)
  <2>1. Advance(o, l) = [l EXCEPT !.index = l.index + 1]
    BY <1>4, <1>5, AdvanceOK
  <2>2. PICK r : r = [l EXCEPT !.index = l.index + 1]
    OBVIOUS
  <2>3. /\ r.index = l.index + 1 /\ r.list = l.list /\ r.firing /\ r.queue = l.queue
        /\ r.memory = l.memory /\ r.locked = l.locked /\ r.alive = l.alive
    BY <1>4, <2>2 DEF ListType
  <2>4. KindOK(r, k, s, v) /\ PassedOn(l, r)
    BY <1>0, <1>1, <1>4, <1>5, <2>3 DEF KindOK, PassedOn
  <2>. QED  BY <1>2, <1>3, <2>1, <2>2, <2>4
<1>6. CASE l.index = Len(l.list)
  <2>1. PICK m : m = [l EXCEPT !.index = 0]
    OBVIOUS
  <2>2. Advance(o, l) = Finish(o, m)
    BY <1>1, <1>4, <1>6, <2>1, AdvanceOK
  <2>3. m \in ListType(E) /\ m.queue = <<>> /\ m.index = 0 /\ m.memory = l.memory /\ m.locked = l.locked
    BY <1>1, <1>4, <2>1 DEF ListType
  <2>4. PICK r : r = Finish(o, m)
    OBVIOUS
  <2>5. /\ r.memory = l.memory /\ r.locked /\ r.alive /\ r.list = <<>> /\ ~r.firing
        /\ ListOK(r, E)
    BY <1>0, <1>1, <1>2, <2>3, <2>4, FinishOK
  <2>6. KindOK(r, k, s, v) /\ PassedOn(l, r)
    BY <1>0, <1>1, <1>4, <1>6, <2>5 DEF KindOK, PassedOn, ListOK
  <2>. QED  BY <1>2, <1>3, <2>2, <2>4, <2>6
<1>7. l.index < Len(l.list) \/ l.index = Len(l.list)
  BY <1>4
<1>. QED  BY <1>5, <1>6, <1>7

LEMMA LockOK ==
  ASSUME NEW E, NEW l, ListOK(l, E)
  PROVE  ListOK(Lock(l), E) /\ Lock(l).firing = l.firing
<1>1. Shape(l, E) /\ l \in ListType(E)
  BY DEF ListOK, Shape
<1>e. <<>> \in Seq(E) /\ <<>> \in Seq(Vals)
  OBVIOUS
<1>2. PICK e, y, n : e = <<>> /\ y = TRUE /\ n = FALSE /\ y \in BOOLEAN /\ n \in BOOLEAN
                     /\ e \in Seq(E) /\ e \in Seq(Vals)
  BY <1>e, Zenon
<1>3. CASE l.memory = <<>> /\ ~l.firing
  <2>1. PICK r : r = [l EXCEPT !.locked = y, !.queue = e, !.list = e, !.alive = n]
    OBVIOUS
  <2>2. Lock(l) = r
    BY <1>2, <1>3, <2>1 DEF Lock
  <2>3. r \in ListType(E) /\ r.index = l.index /\ r.firing = l.firing /\ r.queue = e /\ r.list = e
    BY <1>1, <1>2, <2>1 DEF ListType
  <2>. QED  BY <1>2, <1>3, <2>2, <2>3 DEF ListOK, Shape
<1>4. CASE ~(l.memory = <<>> /\ ~l.firing)
  <2>1. PICK r : r = [l EXCEPT !.locked = y, !.queue = e]
    OBVIOUS
  <2>2. Lock(l) = r
    BY <1>2, <1>4, <2>1 DEF Lock
  <2>3. r \in ListType(E) /\ r.index = l.index /\ r.firing = l.firing /\ r.queue = e /\ r.list = l.list
    BY <1>1, <1>2, <2>1 DEF ListType
  <2>. QED  BY <1>1, <1>2, <2>2, <2>3 DEF ListOK, Shape
<1>. QED  BY <1>3, <1>4

LEMMA DisableOK ==
  ASSUME NEW E, NEW l, ListOK(l, E), ~l.firing
  PROVE  LET r == Disable(l) IN
         /\ ListOK(r, E) /\ r.queue = <<>> /\ r.memory = <<>> /\ ~r.firing
         /\ r.locked /\ ~r.alive /\ r.list = <<>>
<1>1. Shape(l, E) /\ l \in ListType(E) /\ l.index = 0
  BY DEF ListOK, Shape
<1>e. <<>> \in Seq(E) /\ <<>> \in Seq(Vals) /\ <<>> \in Memories
  BY Value
<1>2. PICK e, y, n : e = <<>> /\ y = TRUE /\ n = FALSE /\ y \in BOOLEAN /\ n \in BOOLEAN
                     /\ e \in Seq(E) /\ e \in Seq(Vals) /\ e \in Memories
  BY <1>e, Zenon
<1>3. PICK r : r = [l EXCEPT !.locked = y, !.queue = e, !.list = e, !.alive = n, !.memory = e]
  OBVIOUS
<1>4. Disable(l) = r
  BY <1>2, <1>3 DEF Disable
<1>5. /\ r \in ListType(E) /\ r.index = l.index /\ r.firing = l.firing /\ r.queue = e /\ r.list = e
      /\ r.memory = e /\ r.locked = y /\ r.alive = n
  BY <1>1, <1>2, <1>3 DEF ListType
<1>. QED  BY <1>1, <1>2, <1>4, <1>5 DEF ListOK, Shape

(* fireWith() on a list that is free and rests. *)
LEMMA FireOK ==
  ASSUME NEW E, NEW l, ListOK(l, E), ~l.locked, ~l.firing, NEW v \in Vals, NEW o
  PROVE  LET r == FireWith(o, l, v) IN
         /\ ListOK(r, E)
         /\ l.list # <<>> => /\ r.list = l.list /\ r.index = 1 /\ r.memory = <<v>> /\ r.queue = <<>>
                             /\ r.firing /\ r.alive = l.alive
                             /\ r.locked = ("once" \in o)
         /\ l.list = <<>> /\ "once" \in o /\ "memory" \in o =>
              /\ r.memory = <<v>> /\ r.locked /\ r.alive /\ r.list = <<>> /\ ~r.firing
<1>1. Shape(l, E) /\ l \in ListType(E) /\ l.index = 0 /\ l.queue = <<>> /\ l.list \in Seq(E)
  BY Fields DEF ListOK, Shape
<1>e. <<v>> = Append(<<>>, v) /\ <<v>> \in Seq(Vals)
  OBVIOUS
<1>2. PICK q : q = <<v>> /\ q = Append(<<>>, v) /\ q \in Seq(Vals)
  BY <1>e
<1>3. PICK m : m = [l EXCEPT !.queue = q]
  OBVIOUS
<1>4. m \in ListType(E) /\ m.list = l.list /\ m.index = 0 /\ m.queue = <<v>> /\ m.locked = l.locked
      /\ m.alive = l.alive
  BY <1>1, <1>2, <1>3 DEF ListType
<1>5. FireWith(o, l, v) = Start(o, m)
  BY <1>1, <1>2, <1>3 DEF FireWith
<1>6. Shape(m, E)
  BY <1>1, <1>4 DEF Shape
<1>7. Len(l.list) \in Nat /\ (l.list # <<>> => Len(l.list) > 0) /\ (l.list = <<>> => Len(l.list) = 0)
  BY <1>1
<1>8. PICK r : r = Start(o, m)
  OBVIOUS
<1>9. ListOK(r, E)
      /\ (m.index < Len(m.list) =>
              /\ r.list = m.list /\ r.index = m.index + 1
              /\ r.memory = <<v>> /\ r.queue = <<>>
              /\ r.firing /\ r.alive = m.alive
              /\ r.locked = (m.locked \/ "once" \in o))
      /\ (m.index = Len(m.list) /\ "once" \in o /\ "memory" \in o =>
              /\ r.memory = <<v>> /\ r.locked
              /\ r.alive /\ r.list = <<>> /\ ~r.firing)
  BY <1>4, <1>6, <1>8, StartOK
<1>. QED  BY <1>4, <1>5, <1>7, <1>8, <1>9
-----------------------------------------------------------------------------
(* The end of a deferred. *)
Fired(L, k, M) ==
  /\ ~L[k].firing /\ ~L[Other(k)].firing /\ ~M[Other(k)].firing
  /\ M[Other(k)].list = <<>>
  /\ IF M[k].firing THEN M[k].list = L[k].list /\ M[k].index = 1
     ELSE M[k].list = <<>> /\ L[k].list = <<>>
  /\ M["progress"].firing = L["progress"].firing

LEMMA KindFacts ==
  /\ AllKinds = Kinds \cup {"progress"} /\ "progress" \notin Kinds
  /\ \A k \in Kinds : /\ Other(k) \in Kinds /\ Other(k) # k /\ Kinds = {k, Other(k)}
                      /\ Other(Other(k)) = k
                      /\ Outcome(k) # Outcome(Other(k)) /\ Outcome(k) # "pending"
                      /\ Outcome(k) \in {"resolved", "rejected"}
                      /\ "once" \in OptionsOf(k) /\ "memory" \in OptionsOf(k)
BY DEF AllKinds, Kinds, Other, Outcome, OptionsOf

LEMMA SettledListsOK ==
  ASSUME NEW E, NEW d, NEW k \in Kinds, NEW v \in Vals, NEW w,
         DefOK(lists[d], "pending", w, E)
  PROVE  /\ DefOK(SettledLists(d, k, v), Outcome(k), <<v>>, E)
         /\ Fired(lists[d], k, SettledLists(d, k, v))
<1>. DEFINE L == lists[d]
            M == SettledLists(d, k, v)
<1>0. /\ k \in AllKinds /\ Other(k) \in AllKinds /\ "progress" \in AllKinds
      /\ Other(k) \in Kinds /\ k # Other(k) /\ AllKinds = {k, Other(k), "progress"}
      /\ k # "progress" /\ Other(k) # "progress" /\ Kinds = {k, Other(k)}
      /\ Outcome(k) # Outcome(Other(k)) /\ Outcome(k) # "pending" /\ Other(Other(k)) = k
      /\ Outcome(k) \in {"pending", "resolved", "rejected"}
      /\ "once" \in OptionsOf(k) /\ "memory" \in OptionsOf(k)
  BY KindFacts
<1>1. DOMAIN L = AllKinds
  BY DEF DefOK
<1>2. DOMAIN M = AllKinds
  BY <1>1 DEF SettledLists
<1>3. /\ M[k] = FireWith(OptionsOf(k), L[k], v)
      /\ M[Other(k)] = Disable(L[Other(k)])
      /\ M["progress"] = Lock(L["progress"])
  BY <1>0, <1>1 DEF SettledLists
<1>4. /\ ListOK(L[k], E[k]) /\ ListOK(L[Other(k)], E[Other(k)]) /\ ListOK(L["progress"], E["progress"])
      /\ KindOK(L[k], k, "pending", w) /\ KindOK(L[Other(k)], Other(k), "pending", w)
  BY <1>0 DEF DefOK
<1>. HIDE DEF L, M
<1>5. ~L[k].locked /\ ~L[k].firing /\ L[k].alive /\ ~L[Other(k)].firing
  BY <1>4 DEF KindOK
<1>6. PICK a : a = M[k]
  OBVIOUS
<1>7. /\ ListOK(a, E[k]) /\ a.memory = <<v>> /\ a.locked /\ a.alive /\ a.queue = <<>>
      /\ IF a.firing THEN a.list = L[k].list /\ a.index = 1 ELSE a.list = <<>> /\ L[k].list = <<>>
  <2>1. PICK o, l : o = OptionsOf(k) /\ l = L[k]
    OBVIOUS
  <2>2. ListOK(l, E[k]) /\ ~l.locked /\ ~l.firing /\ a = FireWith(o, l, v)
    BY <1>3, <1>4, <1>5, <1>6, <2>1
  <2>3. /\ ListOK(a, E[k])
        /\ l.list # <<>> =>
             /\ a.list = l.list /\ a.index = 1 /\ a.memory = <<v>> /\ a.queue = <<>>
             /\ a.firing /\ a.alive = l.alive /\ a.locked = ("once" \in o)
        /\ l.list = <<>> /\ "once" \in o /\ "memory" \in o =>
             /\ a.memory = <<v>> /\ a.locked /\ a.alive /\ a.list = <<>> /\ ~a.firing
    BY <2>2, FireOK
  <2>. QED  BY <1>0, <1>5, <2>1, <2>3 DEF ListOK
<1>8. PICK b : b = M[Other(k)]
  OBVIOUS
<1>9. /\ ListOK(b, E[Other(k)]) /\ b.queue = <<>> /\ b.memory = <<>> /\ ~b.firing
      /\ b.locked /\ ~b.alive /\ b.list = <<>>
  BY <1>3, <1>4, <1>5, <1>8, DisableOK
<1>10. ListOK(M["progress"], E["progress"]) /\ M["progress"].firing = L["progress"].firing
  BY <1>3, <1>4, LockOK
<1>11. KindOK(a, k, Outcome(k), <<v>>)
  BY <1>0, <1>7 DEF KindOK
<1>12. KindOK(b, Other(k), Outcome(k), <<v>>)
  BY <1>0, <1>9 DEF KindOK
<1>13. \A j \in AllKinds : ListOK(M[j], E[j])
  BY <1>0, <1>6, <1>7, <1>8, <1>9, <1>10
<1>14. \A j \in Kinds : KindOK(M[j], j, Outcome(k), <<v>>)
  BY <1>0, <1>6, <1>8, <1>11, <1>12
<1>15. DefOK(M, Outcome(k), <<v>>, E)
  BY <1>0, <1>2, <1>13, <1>14, Value DEF DefOK
<1>16. Fired(L, k, M)
  BY <1>5, <1>6, <1>7, <1>8, <1>9, <1>10 DEF Fired
<1>. QED  BY <1>15, <1>16 DEF L, M

(* resolveWith() and rejectWith() end a deferred that is pending, and do
   nothing to one that has ended. *)
Nothing(ts, below) ==
  stack' = below /\ timers' = ts /\ UNCHANGED <<state, value, lists, waiting>>

Ends(ts, d, k, v, below) ==
  /\ d \in Ds /\ ~Settled(d)
  /\ state' = [state EXCEPT ![d] = Outcome(k)]
  /\ value' = [value EXCEPT ![d] = <<v>>]
  /\ lists' = [lists EXCEPT ![d] = SettledLists(d, k, v)]
  /\ timers' = ts \cup Told(d, k, waiting[d])
  /\ waiting' = [waiting EXCEPT ![d] = {}]
  /\ stack' = IF lists'[d][k].firing THEN Append(below, Firing(d, k)) ELSE below
  /\ Fired(lists[d], k, lists'[d])

LEMMA SettleIs ==
  ASSUME ListsInv, subs' = subs, NEW ts, NEW d \in Ds, NEW k \in Kinds, NEW v \in Vals,
         NEW below, SettleFrom(ts, d, k, v, below)
  PROVE  /\ ListsInv'
         /\ Settled(d) => Nothing(ts, below)
         /\ ~Settled(d) => Ends(ts, d, k, v, below)
<1>0. DefOK(lists[d], state[d], value[d], Entries)
  BY DEF ListsInv
<1>1. lists[d][k].locked <=> Settled(d)
  BY <1>0, KindFacts DEF DefOK, KindOK, Settled
<1>2. Entries' = Entries
  BY DEF Entries, Masters
<1>3. CASE Settled(d)
  <2>1. Nothing(ts, below)
    BY <1>1, <1>3 DEF SettleFrom, Nothing
  <2>2. ListsInv'
    BY <1>2, <2>1 DEF ListsInv, Nothing
  <2>. QED  BY <1>3, <2>1, <2>2
<1>4. CASE ~Settled(d)
  <2>. DEFINE M == SettledLists(d, k, v)
  <2>1. DefOK(M, Outcome(k), <<v>>, Entries) /\ Fired(lists[d], k, M)
    BY <1>0, <1>4, SettledListsOK DEF Settled
  <2>2. /\ state' = [state EXCEPT ![d] = Outcome(k)]
        /\ value' = [value EXCEPT ![d] = <<v>>]
        /\ lists' = [lists EXCEPT ![d] = M]
        /\ timers' = ts \cup Told(d, k, waiting[d])
        /\ waiting' = [waiting EXCEPT ![d] = {}]
        /\ stack' = IF M[k].firing THEN Append(below, Firing(d, k)) ELSE below
    BY <1>1, <1>4 DEF SettleFrom
  <2>. HIDE DEF M
  <2>3. DOMAIN state = Ds /\ DOMAIN value = Ds /\ DOMAIN lists = Ds
    BY DEF ListsInv
  <2>4. lists'[d] = M
    BY <2>2, <2>3
  <2>5. \A x \in Ds : DefOK(lists'[x], state'[x], value'[x], Entries')
    <3>1. ASSUME NEW x \in Ds, x = d PROVE DefOK(lists'[x], state'[x], value'[x], Entries')
      BY <1>2, <2>1, <2>2, <2>3, <3>1
    <3>2. ASSUME NEW x \in Ds, x # d PROVE DefOK(lists'[x], state'[x], value'[x], Entries')
      <4>1. lists'[x] = lists[x] /\ state'[x] = state[x] /\ value'[x] = value[x]
        BY <2>2, <2>3, <3>2
      <4>. QED  BY <1>2, <4>1 DEF ListsInv
    <3>. QED  BY <3>1, <3>2
  <2>6. ListsInv'
    BY <2>2, <2>3, <2>5 DEF ListsInv
  <2>7. Ends(ts, d, k, v, below)
    BY <1>4, <2>1, <2>2, <2>4 DEF Ends, M
  <2>. QED  BY <1>4, <2>6, <2>7
<1>. QED  BY <1>3, <1>4

(* One list of one deferred changed by a method. *)
OneChanged(d, k, l) ==
  \A x \in Ds, j \in AllKinds :
    lists'[x][j] = IF x = d /\ j = k THEN l ELSE lists[x][j]

LEMMA OneList ==
  ASSUME ListsInv, UNCHANGED <<state, value, subs>>, NEW d \in Ds, NEW k \in AllKinds, NEW l,
         lists' = [lists EXCEPT ![d][k] = l],
         ListOK(l, Entries[k]), k \in Kinds => KindOK(l, k, state[d], value[d])
  PROVE  ListsInv' /\ OneChanged(d, k, l)
<1>1. Entries' = Entries
  BY DEF Entries, Masters
<1>2. DOMAIN lists = Ds /\ \A x \in Ds : DOMAIN lists[x] = AllKinds
  BY DEF ListsInv, DefOK
<1>3. \A x \in Ds, j \in AllKinds :
        lists'[x][j] = IF x = d /\ j = k THEN l ELSE lists[x][j]
  BY <1>2
<1>4. DOMAIN lists' = Ds /\ \A x \in Ds : DOMAIN lists'[x] = AllKinds
  BY <1>2
<1>5. \A x \in Ds : DefOK(lists'[x], state[x], value[x], Entries)
  <2>. SUFFICES ASSUME NEW x \in Ds PROVE DefOK(lists'[x], state[x], value[x], Entries)
    OBVIOUS
  <2>1. DefOK(lists[x], state[x], value[x], Entries)
    BY DEF ListsInv
  <2>2. \A j \in AllKinds : ListOK(lists'[x][j], Entries[j])
    BY <1>3, <2>1 DEF DefOK
  <2>3. \A j \in Kinds : KindOK(lists'[x][j], j, state[x], value[x])
    BY <1>3, <2>1, KindFacts DEF DefOK
  <2>. QED  BY <1>4, <2>1, <2>2, <2>3 DEF DefOK
<1>. QED  BY <1>1, <1>3, <1>4, <1>5 DEF ListsInv, OneChanged

LEMMA NoList ==
  ASSUME ListsInv, UNCHANGED <<state, value, lists>>,
         \A k \in AllKinds : Entries[k] \subseteq Entries'[k]
  PROVE  ListsInv'
<1>1. ASSUME NEW k \in AllKinds, NEW l, ListOK(l, Entries[k])
      PROVE  ListOK(l, Entries'[k])
  <2>1. Seq(Entries[k]) \subseteq Seq(Entries'[k])
    OBVIOUS
  <2>2. l \in ListType(Entries[k])
    BY <1>1 DEF ListOK, Shape
  <2>3. l \in ListType(Entries'[k])
    BY <2>1, <2>2 DEF ListType
  <2>. QED  BY <1>1, <2>3 DEF ListOK, Shape
<1>2. \A d \in Ds : DefOK(lists[d], state[d], value[d], Entries')
  BY <1>1 DEF ListsInv, DefOK
<1>. QED  BY <1>2 DEF ListsInv

-----------------------------------------------------------------------------
(* The stack. *)
Frames == [at : {"list", "process", "then", "when"}, d : Ds,
           k : AllKinds \cup Nat \cup SUBSET Ds, busy : BOOLEAN]

FrameOK(f) ==
  /\ f \in Frames
  /\ f.at = "list" => f.k \in AllKinds
  /\ f.at = "process" => f.d \in Pool
  /\ f.at = "then" => f.d \in Pool /\ f.k \in Nat /\ ~f.busy
  /\ f.at = "when" => f.d \in Masters /\ f.k \in SUBSET Ds /\ f.busy

IsList(f, d, k) == f.at = "list" /\ f.d = d /\ f.k = k

OnStack(stk, d, k) == \E i \in 1 .. Len(stk) : IsList(stk[i], d, k)

(* Every list on the stack fires, and is there once; the timer that set off
   process() found an empty stack. *)
StackOK(stk, ls) ==
  /\ stk \in Seq(Frames)
  /\ \A i \in 1 .. Len(stk) :
       /\ FrameOK(stk[i])
       /\ stk[i].at = "process" => i = 1
       /\ stk[i].at = "list" => ls[stk[i].d][stk[i].k].firing
  /\ \A i, j \in 1 .. Len(stk) :
       stk[i].at = "list" /\ IsList(stk[j], stk[i].d, stk[i].k) => i = j

(* Unless a callback has thrown, every list that fires is on the stack. *)
Complete(stk, ls) ==
  \A d \in Ds, k \in AllKinds : ls[d][k].firing => OnStack(stk, d, k)

StackInv ==
  /\ threw \in BOOLEAN
  /\ StackOK(stack, lists)
  /\ ~threw => Complete(stack, lists)

(* How one stack comes of another. *)
Same(stk, b, ls, ls2) ==
  /\ StackOK(b, ls2)
  /\ Complete(stk, ls) => Complete(b, ls2)

LEMMA Popped ==
  ASSUME NEW stk, NEW ls, StackOK(stk, ls), NEW n \in 0 .. Len(stk)
  PROVE  /\ StackOK(SubSeq(stk, 1, n), ls)
         /\ Len(SubSeq(stk, 1, n)) = n /\ Len(stk) \in Nat
         /\ \A i \in 1 .. n : SubSeq(stk, 1, n)[i] = stk[i]
<1>1. stk \in Seq(Frames)
  BY DEF StackOK
<1>2. PICK b : b = SubSeq(stk, 1, n)
  OBVIOUS
<1>3. /\ b \in Seq(Frames) /\ Len(b) = n /\ Len(stk) \in Nat
      /\ \A i \in 1 .. n : b[i] = stk[i] /\ i \in 1 .. Len(stk)
  BY <1>1, <1>2
<1>4. StackOK(b, ls)
  BY <1>3 DEF StackOK
<1>. QED  BY <1>2, <1>3, <1>4

LEMMA PopOther ==
  ASSUME NEW stk, NEW ls, StackOK(stk, ls), stk # <<>>, stk[Len(stk)].at # "list"
  PROVE  Same(stk, SubSeq(stk, 1, Len(stk) - 1), ls, ls)
<1>1. Len(stk) \in Nat /\ Len(stk) # 0
  BY DEF StackOK
<1>2. PICK b, n : b = SubSeq(stk, 1, Len(stk) - 1) /\ n = Len(stk) - 1
  OBVIOUS
<1>b. n \in 0 .. Len(stk) /\ b = SubSeq(stk, 1, n)
  BY <1>1, <1>2
<1>3. /\ StackOK(b, ls) /\ Len(b) = Len(stk) - 1
      /\ \A i \in 1 .. Len(stk) - 1 : b[i] = stk[i]
  BY <1>2, <1>b, Popped
<1>4. ASSUME NEW d, NEW k, OnStack(stk, d, k) PROVE OnStack(b, d, k)
  <2>1. PICK i \in 1 .. Len(stk) : IsList(stk[i], d, k)
    BY <1>4 DEF OnStack
  <2>2. i # Len(stk)
    BY <2>1 DEF IsList
  <2>3. i \in 1 .. Len(b) /\ b[i] = stk[i]
    BY <1>1, <1>3, <2>2
  <2>. QED  BY <2>1, <2>3 DEF OnStack
<1>. QED  BY <1>2, <1>3, <1>4 DEF Same, Complete

(* The innermost frame changed, but not in what it is a frame of. *)
LEMMA TopChanged ==
  ASSUME NEW stk, NEW ls, StackOK(stk, ls), stk # <<>>, NEW f,
         FrameOK(f), f.at = stk[Len(stk)].at, f.d = stk[Len(stk)].d,
         f.at = "list" => f.k = stk[Len(stk)].k
  PROVE  /\ Same(stk, [stk EXCEPT ![Len(stk)] = f], ls, ls)
         /\ Len([stk EXCEPT ![Len(stk)] = f]) = Len(stk)
         /\ \A i \in 1 .. Len(stk) :
              [stk EXCEPT ![Len(stk)] = f][i] = IF i = Len(stk) THEN f ELSE stk[i]
<1>1. Len(stk) \in Nat /\ Len(stk) # 0 /\ stk \in Seq(Frames) /\ f \in Frames
  BY DEF StackOK, FrameOK
<1>2. PICK b : b = [stk EXCEPT ![Len(stk)] = f]
  OBVIOUS
<1>3. /\ b \in Seq(Frames) /\ Len(b) = Len(stk)
      /\ \A i \in 1 .. Len(stk) : b[i] = IF i = Len(stk) THEN f ELSE stk[i]
  BY <1>1, <1>2
<1>4. \A i \in 1 .. Len(stk) : /\ FrameOK(b[i]) /\ b[i].at = stk[i].at /\ b[i].d = stk[i].d
                               /\ stk[i].at = "list" => b[i].k = stk[i].k
  BY <1>3 DEF StackOK
<1>5. StackOK(b, ls)
  <2>1. \A i \in 1 .. Len(b) :
          /\ FrameOK(b[i])
          /\ b[i].at = "process" => i = 1
          /\ b[i].at = "list" => ls[b[i].d][b[i].k].firing
    BY <1>3, <1>4 DEF StackOK
  <2>2. \A i, j \in 1 .. Len(b) :
          b[i].at = "list" /\ IsList(b[j], b[i].d, b[i].k) => i = j
    BY <1>3, <1>4 DEF StackOK, IsList
  <2>. QED  BY <1>3, <2>1, <2>2 DEF StackOK
<1>6. ASSUME NEW d, NEW k, OnStack(stk, d, k) PROVE OnStack(b, d, k)
  <2>1. PICK i \in 1 .. Len(stk) : IsList(stk[i], d, k)
    BY <1>6 DEF OnStack
  <2>2. i \in 1 .. Len(b) /\ IsList(b[i], d, k)
    BY <1>3, <1>4, <2>1 DEF IsList
  <2>. QED  BY <2>2 DEF OnStack
<1>. QED  BY <1>2, <1>3, <1>5, <1>6 DEF Same, Complete

LEMMA Pushed ==
  ASSUME NEW stk, NEW ls, StackOK(stk, ls), NEW f,
         FrameOK(f), f.at = "process" => stk = <<>>, f.at # "list"
  PROVE  /\ Same(stk, Append(stk, f), ls, ls)
         /\ Len(Append(stk, f)) = Len(stk) + 1 /\ Len(stk) \in Nat
         /\ Append(stk, f)[Len(stk) + 1] = f
         /\ \A i \in 1 .. Len(stk) : Append(stk, f)[i] = stk[i]
<1>1. Len(stk) \in Nat /\ stk \in Seq(Frames) /\ f \in Frames
  BY DEF StackOK, FrameOK
<1>2. PICK b : b = Append(stk, f)
  OBVIOUS
<1>3. /\ b \in Seq(Frames) /\ Len(b) = Len(stk) + 1 /\ b[Len(stk) + 1] = f
      /\ \A i \in 1 .. Len(stk) : b[i] = stk[i] /\ i \in 1 .. Len(b)
      /\ \A i \in 1 .. Len(b) : i \in 1 .. Len(stk) \/ i = Len(stk) + 1
      /\ stk = <<>> => Len(stk) = 0
  BY <1>1, <1>2
<1>4. StackOK(b, ls)
  <2>1. \A i \in 1 .. Len(b) :
          /\ FrameOK(b[i])
          /\ b[i].at = "process" => i = 1
          /\ b[i].at = "list" => ls[b[i].d][b[i].k].firing
    BY <1>3 DEF StackOK
  <2>2. \A i, j \in 1 .. Len(b) :
          b[i].at = "list" /\ IsList(b[j], b[i].d, b[i].k) => i = j
    BY <1>3 DEF StackOK, IsList
  <2>. QED  BY <1>3, <2>1, <2>2 DEF StackOK
<1>5. ASSUME NEW d, NEW k, OnStack(stk, d, k) PROVE OnStack(b, d, k)
  BY <1>3, <1>5 DEF OnStack
<1>. QED  BY <1>2, <1>3, <1>4, <1>5 DEF Same, Complete

(* A list is entered that did not fire. *)
Enters(b, ls, ls2, d, k, b2) ==
  /\ d \in Ds /\ k \in AllKinds
  /\ ~ls[d][k].firing
  /\ \A x \in Ds, j \in AllKinds :
       x # d \/ j # k => ls2[x][j].firing = ls[x][j].firing
  /\ b2 = IF ls2[d][k].firing THEN Append(b, Firing(d, k)) ELSE b

LEMMA EntersOK ==
  ASSUME NEW b, NEW ls, NEW ls2, StackOK(b, ls), NEW d, NEW k, NEW b2,
         Enters(b, ls, ls2, d, k, b2)
  PROVE  /\ Same(b, b2, ls, ls2)
         /\ Len(b) \in Nat
         /\ IF ls2[d][k].firing
            THEN Len(b2) = Len(b) + 1 /\ b2[Len(b) + 1] = Firing(d, k)
            ELSE b2 = b
         /\ \A i \in 1 .. Len(b) : b2[i] = b[i]
<1>1. Len(b) \in Nat /\ b \in Seq(Frames)
  BY DEF StackOK
<1>2. \A i \in 1 .. Len(b) : b[i].at = "list" =>
        /\ b[i].d \in Ds /\ b[i].k \in AllKinds
        /\ b[i].d # d \/ b[i].k # k
        /\ ls2[b[i].d][b[i].k].firing
  BY DEF StackOK, FrameOK, Frames, Enters
<1>3. CASE ~ls2[d][k].firing
  <2>1. b2 = b
    BY <1>3 DEF Enters
  <2>2. StackOK(b, ls2)
    BY <1>2 DEF StackOK
  <2>3. Complete(b, ls) => Complete(b, ls2)
    BY <1>3 DEF Enters, Complete
  <2>. QED  BY <1>1, <1>3, <2>1, <2>2, <2>3 DEF Same
<1>4. CASE ls2[d][k].firing
  <2>1. PICK f : f = Firing(d, k)
    OBVIOUS
  <2>2. f.at = "list" /\ f.d = d /\ f.k = k /\ FrameOK(f) /\ f \in Frames
    BY <2>1 DEF Firing, FrameOK, Frames, Enters
  <2>3. b2 = Append(b, f)
    BY <1>4, <2>1 DEF Enters
  <2>4. /\ b2 \in Seq(Frames) /\ Len(b2) = Len(b) + 1 /\ b2[Len(b) + 1] = f
        /\ \A i \in 1 .. Len(b) : b2[i] = b[i] /\ i \in 1 .. Len(b2)
        /\ \A i \in 1 .. Len(b2) : i \in 1 .. Len(b) \/ i = Len(b) + 1
        /\ Len(b) + 1 \in 1 .. Len(b2)
    BY <1>1, <2>2, <2>3
  <2>5. \A i \in 1 .. Len(b2) :
          /\ FrameOK(b2[i])
          /\ b2[i].at = "process" => i = 1
          /\ b2[i].at = "list" => ls2[b2[i].d][b2[i].k].firing
    BY <1>2, <1>4, <2>2, <2>4 DEF StackOK
  <2>6. \A i, j \in 1 .. Len(b2) :
          b2[i].at = "list" /\ IsList(b2[j], b2[i].d, b2[i].k) => i = j
    BY <1>2, <2>2, <2>4 DEF StackOK, IsList
  <2>7. StackOK(b2, ls2)
    BY <2>4, <2>5, <2>6 DEF StackOK
  <2>8. OnStack(b2, d, k)
    BY <2>2, <2>4 DEF OnStack, IsList
  <2>9. ASSUME NEW x, NEW j, OnStack(b, x, j) PROVE OnStack(b2, x, j)
    BY <2>4, <2>9 DEF OnStack
  <2>10. Complete(b, ls) => Complete(b2, ls2)
    <3>. SUFFICES ASSUME Complete(b, ls), NEW x \in Ds, NEW j \in AllKinds, ls2[x][j].firing
                  PROVE  OnStack(b2, x, j)
      BY DEF Complete
    <3>1. CASE x = d /\ j = k
      BY <2>8, <3>1
    <3>2. CASE x # d \/ j # k
      BY <2>9, <3>2 DEF Enters, Complete
    <3>. QED  BY <3>1, <3>2
  <2>. QED  BY <1>1, <1>4, <2>1, <2>4, <2>7, <2>10 DEF Same
<1>. QED  BY <1>3, <1>4

(* Nothing that fires changes. *)
LEMMA SameFiring ==
  ASSUME NEW b, NEW ls, NEW ls2, StackOK(b, ls),
         \A x \in Ds, j \in AllKinds : ls2[x][j].firing = ls[x][j].firing
  PROVE  Same(b, b, ls, ls2)
<1>1. \A i \in 1 .. Len(b) : b[i].at = "list" => ls2[b[i].d][b[i].k].firing
  BY DEF StackOK, FrameOK, Frames
<1>. QED  BY <1>1 DEF Same, StackOK, Complete

(* The innermost list has come to its end. *)
LEMMA ListLeft ==
  ASSUME NEW stk, NEW ls, NEW ls2, StackOK(stk, ls), stk # <<>>,
         NEW d, NEW k, IsList(stk[Len(stk)], d, k),
         \A x \in Ds, j \in AllKinds :
           x # d \/ j # k => ls2[x][j].firing = ls[x][j].firing,
         ~ls2[d][k].firing
  PROVE  Same(stk, SubSeq(stk, 1, Len(stk) - 1), ls, ls2)
<1>1. Len(stk) \in Nat /\ Len(stk) # 0
  BY DEF StackOK
<1>2. PICK b, n : b = SubSeq(stk, 1, Len(stk) - 1) /\ n = Len(stk) - 1
  OBVIOUS
<1>b. n \in 0 .. Len(stk) /\ b = SubSeq(stk, 1, n)
  BY <1>1, <1>2
<1>3. /\ StackOK(b, ls) /\ Len(b) = Len(stk) - 1
      /\ \A i \in 1 .. Len(stk) - 1 : b[i] = stk[i]
  BY <1>2, <1>b, Popped
<1>4. \A i \in 1 .. Len(b) : b[i].at = "list" =>
        /\ b[i].d \in Ds /\ b[i].k \in AllKinds /\ (b[i].d # d \/ b[i].k # k)
  BY <1>1, <1>3 DEF StackOK, IsList, FrameOK, Frames
<1>5. StackOK(b, ls2)
  <2>1. \A x \in Ds, j \in AllKinds :
          x # d \/ j # k => ls2[x][j].firing = ls[x][j].firing
    OBVIOUS
  <2>2. \A i \in 1 .. Len(b) : b[i].at = "list" => ls[b[i].d][b[i].k].firing
    BY ONLY <1>3 DEF StackOK
  <2>3. \A i \in 1 .. Len(b) : b[i].at = "list" => ls2[b[i].d][b[i].k].firing
    BY ONLY <1>4, <2>1, <2>2
  <2>. QED  BY ONLY <1>3, <2>3 DEF StackOK
<1>6. ASSUME NEW x, NEW j, OnStack(stk, x, j), x # d \/ j # k PROVE OnStack(b, x, j)
  <2>1. PICK i \in 1 .. Len(stk) : IsList(stk[i], x, j)
    BY <1>6 DEF OnStack
  <2>2. i # Len(stk)
    BY <1>6, <2>1 DEF IsList
  <2>3. i \in 1 .. Len(b) /\ b[i] = stk[i]
    BY <1>1, <1>3, <2>2
  <2>. QED  BY <2>1, <2>3 DEF OnStack
<1>7. Complete(stk, ls) => Complete(b, ls2)
  BY <1>6 DEF Complete
<1>8. Same(stk, b, ls, ls2)
  BY ONLY <1>5, <1>7 DEF Same
<1>9. b = SubSeq(stk, 1, Len(stk) - 1)
  BY <1>2
<1>. QED  BY ONLY <1>8, <1>9
-----------------------------------------------------------------------------
(* What a step does to lists and stack together. *)
Base == ListsInv /\ StackInv

(* One frame more at most, that of a list. *)
Grown(b, stk, d, k) ==
  /\ Len(b) \in Nat /\ \A i \in 1 .. Len(b) : stk[i] = b[i]
  /\ \/ stk = b
     \/ Len(stk) = Len(b) + 1 /\ stk[Len(b) + 1] = Firing(d, k)

LEMMA SettleBase ==
  ASSUME ListsInv, subs' = subs, NEW ts, NEW d \in Ds, NEW k \in Kinds, NEW v \in Vals,
         NEW b, SettleFrom(ts, d, k, v, b), StackOK(b, lists)
  PROVE  /\ ListsInv'
         /\ Same(b, stack', lists, lists')
         /\ Grown(b, stack', d, k)
         /\ Settled(d) => Nothing(ts, b)
         /\ ~Settled(d) => Ends(ts, d, k, v, b)
<1>1. ListsInv' /\ (Settled(d) => Nothing(ts, b)) /\ (~Settled(d) => Ends(ts, d, k, v, b))
  BY SettleIs
<1>2. Len(b) \in Nat
  BY DEF StackOK
<1>3. CASE Settled(d)
  <2>1. stack' = b /\ lists' = lists
    BY <1>1, <1>3 DEF Nothing
  <2>2. Same(b, b, lists, lists)
    BY DEF Same
  <2>. QED  BY <1>1, <1>2, <1>3, <2>1, <2>2 DEF Grown
<1>4. CASE ~Settled(d)
  <2>1. Ends(ts, d, k, v, b)
    BY <1>1, <1>4
  <2>2. DOMAIN lists = Ds /\ k \in AllKinds
    BY KindFacts DEF ListsInv
  <2>3. /\ ~lists[d][k].firing
        /\ \A j \in AllKinds : j # k => lists'[d][j].firing = lists[d][j].firing
    <3>1. lists'[d][Other(k)].firing \in BOOLEAN /\ lists[d][Other(k)].firing \in BOOLEAN
      BY <1>1, KindFacts, Fields DEF ListsInv, DefOK, ListOK, Shape
    <3>. QED  BY <2>1, <3>1, KindFacts DEF Ends, Fired
  <2>4. \A x \in Ds : x # d => lists'[x] = lists[x]
    BY <2>1, <2>2 DEF Ends
  <2>5. stack' = IF lists'[d][k].firing THEN Append(b, Firing(d, k)) ELSE b
    BY <2>1 DEF Ends
  <2>6. Enters(b, lists, lists', d, k, stack')
    BY <2>2, <2>3, <2>4, <2>5 DEF Enters
  <2>7. /\ Same(b, stack', lists, lists')
        /\ IF lists'[d][k].firing
           THEN Len(stack') = Len(b) + 1 /\ stack'[Len(b) + 1] = Firing(d, k)
           ELSE stack' = b
        /\ \A i \in 1 .. Len(b) : stack'[i] = b[i]
    BY <2>6, EntersOK
  <2>8. Grown(b, stack', d, k)
    BY <1>2, <2>7 DEF Grown
  <2>. QED  BY <1>1, <1>4, <2>7, <2>8
<1>. QED  BY <1>3, <1>4

(* process() and then() of the user's objects go on as they did. *)
CodeSame(a, b) ==
  /\ \A i \in 1 .. Len(b) : b[i].at \in {"process", "then"} =>
       \E j \in 1 .. Len(a) : a[j] = b[i]
  /\ \A i \in 1 .. Len(a) : a[i].at = "process" /\ ~a[i].busy =>
       \E j \in 1 .. Len(b) : b[j] = a[i]

LEMMA CodeStays == \A a : CodeSame(a, a)
BY DEF CodeSame

LEMMA CodeGrown ==
  ASSUME NEW a, NEW b, NEW stk, NEW d, NEW k, CodeSame(a, b), Grown(b, stk, d, k)
  PROVE  CodeSame(a, stk)
<1>1. CASE stk = b
  BY <1>1
<1>2. CASE Len(stk) = Len(b) + 1 /\ stk[Len(b) + 1] = Firing(d, k)
  <2>1. /\ Len(b) \in Nat /\ \A i \in 1 .. Len(b) : stk[i] = b[i]
        /\ stk[Len(b) + 1].at = "list"
    BY <1>2 DEF Grown, Firing
  <2>2. \A i \in 1 .. Len(stk) : stk[i].at \in {"process", "then"} =>
          i \in 1 .. Len(b) /\ stk[i] = b[i]
    BY <1>2, <2>1
  <2>3. \A i \in 1 .. Len(b) : i \in 1 .. Len(stk)
    BY <1>2, <2>1
  <2>4. \A i \in 1 .. Len(stk) : stk[i].at \in {"process", "then"} =>
          \E j \in 1 .. Len(a) : a[j] = stk[i]
    BY <2>2 DEF CodeSame
  <2>5. \A i \in 1 .. Len(a) : a[i].at = "process" /\ ~a[i].busy =>
          \E j \in 1 .. Len(stk) : stk[j] = a[i]
    BY <2>1, <2>3 DEF CodeSame
  <2>. QED  BY <2>4, <2>5 DEF CodeSame
<1>. QED  BY <1>1, <1>2 DEF Grown

LEMMA CodePopped ==
  ASSUME NEW a, NEW ls, StackOK(a, ls), NEW n \in 0 .. Len(a),
         \A i \in n + 1 .. Len(a) : a[i].at = "process" => a[i].busy
  PROVE  CodeSame(a, SubSeq(a, 1, n))
<1>1. PICK b : b = SubSeq(a, 1, n)
  OBVIOUS
<1>2. Len(b) = n /\ Len(a) \in Nat /\ \A i \in 1 .. n : b[i] = a[i]
  BY <1>1, Popped
<1>3. \A i \in 1 .. Len(a) : a[i].at = "process" /\ ~a[i].busy => i \in 1 .. n
  BY <1>2
<1>4. CodeSame(a, b)
  BY <1>2, <1>3 DEF CodeSame
<1>. QED  BY <1>1, <1>4

LEMMA CodeTop ==
  ASSUME NEW a, NEW ls, StackOK(a, ls), a # <<>>, NEW f,
         FrameOK(f), f.at = a[Len(a)].at, f.d = a[Len(a)].d,
         f.at \in {"list", "when"}, f.at = "list" => f.k = a[Len(a)].k
  PROVE  CodeSame(a, [a EXCEPT ![Len(a)] = f])
<1>1. PICK b : b = [a EXCEPT ![Len(a)] = f]
  OBVIOUS
<1>2. /\ Len(b) = Len(a)
      /\ \A i \in 1 .. Len(a) : b[i] = IF i = Len(a) THEN f ELSE a[i]
  BY <1>1, TopChanged
<1>3. CodeSame(a, b)
  BY <1>2 DEF CodeSame
<1>. QED  BY <1>1, <1>3

(* What a step does to what then() has made: nothing, but for a deferred that
   it did not make and that ends. *)
Over(ts, d, k) ==
  /\ d \in Ds /\ k \in Kinds /\ ~Settled(d)
  /\ state' = [state EXCEPT ![d] = Outcome(k)]
  /\ timers' = ts \cup Told(d, k, waiting[d])
  /\ waiting' = [waiting EXCEPT ![d] = {}]

Calm ==
  /\ UNCHANGED <<maxDepth, fate, handed, called, parent, subs, unused>>
  /\ CodeSame(stack, stack')
  /\ \/ UNCHANGED <<state, waiting, timers>>
     \/ \E d \in Ds, k \in Kinds : Over(timers, d, k) /\ (d \in Pool => subs[d] # {})

LEMMA StackKept ==
  ASSUME StackInv, UNCHANGED <<subs, threw>>, NEW b,
         Same(stack, b, lists, lists), Same(b, stack', lists, lists')
  PROVE  StackInv'
<1>1. Masters' = Masters
  BY DEF Masters
<1>2. \A f : FrameOK(f)' <=> FrameOK(f)
  BY <1>1 DEF FrameOK, Frames
<1>. QED  BY <1>1 DEF StackInv, Same, StackOK, Complete, FrameOK, Frames, OnStack, IsList

LEMMA StackSame ==
  ASSUME StackInv
  PROVE  Same(stack, stack, lists, lists)
BY DEF StackInv, Same

LEMMA CalmSettle ==
  ASSUME Base, UNCHANGED <<maxDepth, fate, handed, called, parent, subs, unused, threw>>,
         NEW d \in Ds, NEW k \in Kinds, NEW v \in Vals, NEW b, Settle(d, k, v, b),
         d \in Pool => subs[d] # {},
         Same(stack, b, lists, lists), CodeSame(stack, b)
  PROVE  Base' /\ Calm
<1>1. StackOK(b, lists)
  BY DEF Same
<1>2. /\ ListsInv'
      /\ Same(b, stack', lists, lists')
      /\ Grown(b, stack', d, k)
      /\ Settled(d) => Nothing(timers, b)
      /\ ~Settled(d) => Ends(timers, d, k, v, b)
  BY <1>1, SettleBase DEF Base, Settle
<1>3. StackInv'
  BY <1>2, StackKept DEF Base
<1>4. CodeSame(stack, stack')
  BY <1>2, CodeGrown
<1>5. Settled(d) => UNCHANGED <<state, waiting, timers>>
  BY <1>2 DEF Nothing
<1>6. ~Settled(d) => Over(timers, d, k)
  BY <1>2 DEF Ends, Over
<1>. QED  BY <1>2, <1>3, <1>4, <1>5, <1>6 DEF Base, Calm

(* One list changed, and entered if it did not fire. *)
LEMMA CalmList ==
  ASSUME Base, NEW d \in Ds, NEW k \in AllKinds, NEW l,
         UNCHANGED <<maxDepth, fate, handed, called, parent, subs, unused, threw,
                     state, value, waiting, timers>>,
         lists' = [lists EXCEPT ![d][k] = l],
         ListOK(l, Entries[k]), k \in Kinds => KindOK(l, k, state[d], value[d]),
         lists[d][k].firing => l.firing,
         stack' = IF l.firing /\ ~lists[d][k].firing THEN Append(stack, Firing(d, k)) ELSE stack
  PROVE  Base' /\ Calm
<1>1a. ListsInv' /\ OneChanged(d, k, l)
  <2>1. ListsInv /\ UNCHANGED <<state, value, subs>>
    BY DEF Base
  <2>2. /\ d \in Ds /\ k \in AllKinds /\ lists' = [lists EXCEPT ![d][k] = l]
        /\ ListOK(l, Entries[k]) /\ (k \in Kinds => KindOK(l, k, state[d], value[d]))
    OBVIOUS
  <2>. QED  BY ONLY <2>1, <2>2, OneList
<1>1. /\ ListsInv'
      /\ \A x \in Ds, j \in AllKinds :
           lists'[x][j] = IF x = d /\ j = k THEN l ELSE lists[x][j]
  BY ONLY <1>1a DEF OneChanged
<1>f. ListOK(lists[d][k], Entries[k])
  BY DEF Base, ListsInv, DefOK
<1>g. l.firing \in BOOLEAN /\ lists[d][k].firing \in BOOLEAN
  BY <1>f, Fields DEF ListOK, Shape
<1>h. StackOK(stack, lists) /\ Len(stack) \in Nat
  BY DEF Base, StackInv, StackOK
<1>2. Same(stack, stack', lists, lists') /\ Grown(stack, stack', d, k)
  <2>1. CASE lists[d][k].firing
    <3>1. \A x \in Ds, j \in AllKinds : lists'[x][j].firing = lists[x][j].firing
      <4>1. \A x \in Ds, j \in AllKinds : x # d \/ j # k => lists'[x][j] = lists[x][j]
        BY ONLY <1>1
      <4>2. d \in Ds /\ k \in AllKinds /\ l.firing /\ lists[d][k].firing
        BY <2>1
      <4>3. lists'[d][k].firing = lists[d][k].firing
        BY ONLY <1>1, <1>g, <4>2
      <4>. QED  BY ONLY <4>1, <4>3
    <3>2. stack' = stack
      BY <2>1
    <3>3. Same(stack, stack, lists, lists')
      BY <1>h, <3>1, SameFiring
    <3>. QED  BY <1>h, <3>2, <3>3 DEF Grown
  <2>2. CASE ~lists[d][k].firing
    <3>1. Enters(stack, lists, lists', d, k, stack')
      BY <1>1, <2>2 DEF Enters
    <3>2. /\ Same(stack, stack', lists, lists')
          /\ IF lists'[d][k].firing
             THEN Len(stack') = Len(stack) + 1 /\ stack'[Len(stack) + 1] = Firing(d, k)
             ELSE stack' = stack
          /\ \A i \in 1 .. Len(stack) : stack'[i] = stack[i]
      BY ONLY <1>h, <3>1, EntersOK
    <3>3. Grown(stack, stack', d, k)
      BY <1>h, <3>2 DEF Grown
    <3>. QED  BY <3>2, <3>3
  <2>. QED  BY <2>1, <2>2
<1>3. StackInv'
  BY <1>2, StackKept, StackSame DEF Base
<1>4. CodeSame(stack, stack')
  BY <1>2, CodeGrown, CodeStays
<1>. QED  BY <1>1, <1>3, <1>4 DEF Base, Calm
-----------------------------------------------------------------------------
(* The actions that leave the promises of then() alone. *)
LEMMA ResolveBase ==
  ASSUME Base, NEW d \in Ds, NEW k \in Kinds, NEW v \in Vals, Resolve(d, k, v)
  PROVE  Base' /\ Calm
<1>1. /\ UNCHANGED <<maxDepth, fate, handed, called, parent, subs, unused, threw>>
      /\ Settle(d, k, v, stack) /\ d \notin Pool
  BY DEF Resolve, rest
<1>2. Same(stack, stack, lists, lists) /\ CodeSame(stack, stack)
  BY StackSame, CodeStays DEF Base
<1>. QED  BY <1>1, <1>2, CalmSettle

LEMMA EntriesAre ==
  /\ \A k \in AllKinds : Fns \subseteq Entries[k]
  /\ Entries["progress"] = Fns
  /\ Entries["done"] = Fns \cup {Update(m) : m \in Masters}
  /\ Entries["fail"] = Fns \cup {RejectMaster(m) : m \in Masters}
BY DEF Entries, AllKinds

LEMMA ListFacts ==
  ASSUME ListsInv, NEW d \in Ds, NEW k \in AllKinds
  PROVE  /\ ListOK(lists[d][k], Entries[k])
         /\ lists[d][k].firing \in BOOLEAN
         /\ lists[d][k].list \in Seq(Entries[k])
         /\ lists[d][k].index \in 0 .. Len(lists[d][k].list)
         /\ lists[d][k].firing => lists[d][k].index # 0
         /\ k \in Kinds => KindOK(lists[d][k], k, state[d], value[d])
         /\ state[d] \in {"pending", "resolved", "rejected"}
         /\ state[d] # "pending" => value[d] # <<>>
         /\ value[d] \in Memories
<1>1. ListOK(lists[d][k], Entries[k])
  BY DEF ListsInv, DefOK
<1>. QED  BY <1>1, Fields DEF ListsInv, DefOK, ListOK, Shape

LEMMA NotifyBase ==
  ASSUME Base, NEW d \in Ds, NEW v \in Vals, Notify(d, v)
  PROVE  Base' /\ Calm
<1>. DEFINE L == lists[d]["progress"]
<1>0. "progress" \in AllKinds /\ "progress" \notin Kinds /\ ListOK(L, Entries["progress"])
  BY KindFacts, ListFacts DEF Base
<1>1. PICK l : l = FireWith({"memory"}, lists[d].progress, v)
  OBVIOUS
<1>2. /\ UNCHANGED <<maxDepth, fate, handed, called, parent, subs, unused, threw,
                     state, value, waiting, timers>>
      /\ ~L.locked
      /\ lists' = [lists EXCEPT ![d]["progress"] = l]
      /\ stack' = IF l.firing /\ ~L.firing THEN Append(stack, Firing(d, "progress")) ELSE stack
  BY <1>1 DEF Notify, rest
<1>3. ListOK(l, Entries["progress"]) /\ (L.firing => l.firing)
  <2>1. CASE L.firing
    <3>1. L \in ListType(Entries["progress"]) /\ L.queue \in Seq(Vals)
      BY <1>0, Fields DEF ListOK, Shape
    <3>2. Append(L.queue, v) \in Seq(Vals)
      BY <3>1
    <3>3. PICK q : q = Append(L.queue, v) /\ q \in Seq(Vals)
      BY <3>2
    <3>4. l = [L EXCEPT !.queue = q]
      BY <1>1, <1>2, <2>1, <3>3 DEF FireWith
    <3>. HIDE DEF L
    <3>5. l \in ListType(Entries["progress"]) /\ l.index = L.index /\ l.firing = L.firing /\ l.list = L.list
      BY <3>1, <3>3, <3>4 DEF ListType
    <3>. QED  BY <1>0, <2>1, <3>5 DEF ListOK, Shape
  <2>2. CASE ~L.firing
    BY <1>0, <1>1, <1>2, <2>2, FireOK
  <2>. QED  BY <2>1, <2>2
<1>. QED  BY ONLY Base, d \in Ds, <1>0, <1>2, <1>3, CalmList

LEMMA AddFires ==
  ASSUME NEW E, NEW l, ListOK(l, E), NEW f \in E, NEW o, "unique" \notin o, l.firing
  PROVE  Add(o, l, f).firing
<1>1. Shape(l, E)
  BY DEF ListOK
<1>2. Push(o, l, f).firing = l.firing
  BY <1>1, PushOK
<1>. QED  BY <1>2 DEF Add

LEMMA AddListenerBase ==
  ASSUME Base, NEW d \in Ds, NEW k \in AllKinds, NEW f \in Fns, AddListener(d, k, f)
  PROVE  Base' /\ Calm
<1>1. PICK l : l = Add(OptionsOf(k), lists[d][k], f)
  OBVIOUS
<1>2. /\ UNCHANGED <<maxDepth, fate, handed, called, parent, subs, unused, threw,
                     state, value, waiting, timers>>
      /\ lists' = [lists EXCEPT ![d][k] = l]
      /\ stack' = IF l.firing /\ ~lists[d][k].firing THEN Append(stack, Firing(d, k)) ELSE stack
  BY <1>1 DEF AddListener, Listen, rest
<1>3. /\ f \in Entries[k] /\ ListOK(lists[d][k], Entries[k]) /\ "unique" \notin OptionsOf(k)
      /\ k \in Kinds => KindOK(lists[d][k], k, state[d], value[d])
      /\ state[d] \in {"pending", "resolved", "rejected"}
      /\ state[d] # "pending" => value[d] # <<>>
  BY EntriesAre, ListFacts DEF Base, OptionsOf
<1>4. ListOK(l, Entries[k])
  BY ONLY <1>1, <1>3, k \in AllKinds, AddOK
<1>5. k \in Kinds => KindOK(l, k, state[d], value[d])
  BY ONLY <1>1, <1>3, AddKind
<1>6. lists[d][k].firing => l.firing
  BY ONLY <1>1, <1>3, AddFires
<1>. QED  BY ONLY Base, d \in Ds, k \in AllKinds, <1>2, <1>4, <1>5, <1>6, CalmList

(* The innermost frame. *)
LEMMA TopFacts ==
  ASSUME Base, stack # <<>>
  PROVE  /\ Inner \in Nat /\ Inner # 0 /\ Inner \in 1 .. Len(stack)
         /\ FrameOK(Top) /\ Top \in Frames
         /\ Top.at = "process" => Inner = 1
         /\ Top.at = "list" => lists[Top.d][Top.k].firing
         /\ stack \in Seq(Frames) /\ StackOK(stack, lists)
<1>1. StackOK(stack, lists)
  BY DEF Base, StackInv
<1>2. Len(stack) \in Nat /\ Len(stack) # 0 /\ stack \in Seq(Frames)
  BY <1>1 DEF StackOK
<1>3. Inner = Len(stack) /\ Top = stack[Len(stack)] /\ Inner \in 1 .. Len(stack)
  BY <1>2 DEF Inner, Top
<1>4. /\ FrameOK(stack[Inner])
      /\ stack[Inner].at = "process" => Inner = 1
      /\ stack[Inner].at = "list" => lists[stack[Inner].d][stack[Inner].k].firing
  BY <1>1, <1>3 DEF StackOK
<1>. HIDE DEF Inner, Top
<1>5. FrameOK(Top) => Top \in Frames
  BY DEF FrameOK
<1>. QED  BY ONLY <1>1, <1>2, <1>3, <1>4, <1>5

(* What is innermost when a list is. *)
AtList(d, k, l) ==
  /\ d = Top.d /\ k = Top.k /\ l = lists[d][k]
  /\ d \in Ds /\ k \in AllKinds
  /\ ListOK(l, Entries[k]) /\ l.firing
  /\ l.index \in 1 .. Len(l.list) /\ l.list \in Seq(Entries[k])
  /\ Current = l.list[l.index] /\ Current \in Entries[k]
  /\ k \in Kinds => /\ KindOK(l, k, state[d], value[d])
                    /\ state[d] = Outcome(k) /\ value[d] # <<>>
                    /\ \E v \in Vals : l.memory = <<v>>
  /\ state[d] \in {"pending", "resolved", "rejected"}

LEMMA AtListFacts ==
  ASSUME Base, stack # <<>>, Top.at = "list"
  PROVE  AtList(Top.d, Top.k, lists[Top.d][Top.k])
<1>1. PICK d, k : d = Top.d /\ k = Top.k
  OBVIOUS
<1>2. d \in Ds /\ k \in AllKinds /\ lists[d][k].firing
  BY <1>1, TopFacts DEF FrameOK, Frames
<1>3. PICK l : l = lists[d][k]
  OBVIOUS
<1>4. /\ ListOK(l, Entries[k]) /\ l.list \in Seq(Entries[k]) /\ l.index \in 0 .. Len(l.list)
      /\ l.index # 0 /\ l.firing
      /\ k \in Kinds => KindOK(l, k, state[d], value[d])
      /\ state[d] \in {"pending", "resolved", "rejected"}
      /\ state[d] # "pending" => value[d] # <<>>
      /\ value[d] \in Memories
  BY <1>2, <1>3, ListFacts DEF Base
<1>5. l.index \in 1 .. Len(l.list) /\ l.list[l.index] \in Entries[k]
  BY <1>4
<1>6. Current = l.list[l.index]
  BY <1>1, <1>3 DEF Current
<1>7. k \in Kinds => state[d] = Outcome(k) /\ value[d] # <<>> /\ \E v \in Vals : l.memory = <<v>>
  <2>. SUFFICES ASSUME k \in Kinds
                PROVE  state[d] = Outcome(k) /\ value[d] # <<>> /\ \E v \in Vals : l.memory = <<v>>
    OBVIOUS
  <2>1. state[d] \in {"pending", Outcome(k), Outcome(Other(k))} /\ Outcome(k) # "pending"
    BY <1>4 DEF Kinds, Outcome, Other
  <2>2. state[d] = Outcome(k)
    BY <1>4, <2>1 DEF KindOK
  <2>3. value[d] # <<>> /\ l.memory = value[d]
    BY <1>4, <2>1, <2>2 DEF KindOK
  <2>. QED  BY <1>4, <2>2, <2>3 DEF Memories
<1>. QED  BY <1>1, <1>2, <1>3, <1>4, <1>5, <1>6, <1>7 DEF AtList

LEMMA ReturnsBase ==
  ASSUME Base, CallbackReturns
  PROVE  Base' /\ Calm
<1>0. stack # <<>> /\ Top.at = "list"
  BY DEF CallbackReturns
<1>1. PICK d, k, l : AtList(d, k, l)
  BY <1>0, AtListFacts
<1>2. PICK r : r = Returned(OptionsOf(k), l, FALSE)
  OBVIOUS
<1>3. /\ UNCHANGED <<maxDepth, fate, handed, called, parent, subs, unused, threw,
                     state, value, waiting, timers>>
      /\ lists' = [lists EXCEPT ![d][k] = r]
      /\ stack' = IF r.firing THEN [stack EXCEPT ![Inner].busy = FALSE] ELSE Outer
  BY <1>1, <1>2 DEF CallbackReturns, Proceed, rest, AtList
<1>4. ListOK(r, Entries[k])
  BY ONLY <1>1, <1>2, ReturnedOK DEF AtList
<1>5. k \in Kinds => KindOK(r, k, state[d], value[d])
  BY ONLY <1>1, <1>2, ReturnedKind DEF AtList
<1>6. ListsInv' /\ OneChanged(d, k, r)
  <2>1. ListsInv /\ UNCHANGED <<state, value, subs>> /\ d \in Ds /\ k \in AllKinds
    BY <1>1, <1>3 DEF Base, AtList
  <2>. QED  BY ONLY <1>3, <1>4, <1>5, <2>1, OneList
<1>7. PICK f : f = [Top EXCEPT !.busy = FALSE]
  OBVIOUS
<1>8. /\ StackOK(stack, lists) /\ Inner = Len(stack) /\ Top = stack[Len(stack)]
      /\ stack \in Seq(Frames) /\ Inner \in Nat /\ Inner # 0 /\ Inner \in 1 .. Len(stack)
  BY <1>0, TopFacts DEF Inner, Top
<1>9. FrameOK(f) /\ f.at = "list" /\ f.d = Top.d /\ f.k = Top.k
  BY <1>0, <1>7, TopFacts DEF FrameOK, Frames
<1>10. CASE r.firing
  <2>1. stack' = [stack EXCEPT ![Len(stack)] = f]
    BY <1>3, <1>7, <1>8, <1>10
  <2>2. Same(stack, stack', lists, lists)
    BY <1>0, <1>8, <1>9, <2>1, TopChanged
  <2>3. \A x \in Ds, j \in AllKinds : lists'[x][j].firing = lists[x][j].firing
    <3>1. d \in Ds /\ k \in AllKinds /\ l = lists[d][k] /\ l.firing /\ l.firing \in BOOLEAN /\ r.firing \in BOOLEAN
      BY <1>1, <1>4, Fields DEF AtList, ListOK, Shape
    <3>2. lists'[d][k].firing = lists[d][k].firing
      BY ONLY <1>6, <1>10, <3>1 DEF OneChanged
    <3>3. \A x \in Ds, j \in AllKinds : x # d \/ j # k => lists'[x][j] = lists[x][j]
      BY ONLY <1>6 DEF OneChanged
    <3>. QED  BY ONLY <3>2, <3>3
  <2>4. Same(stack', stack', lists, lists')
    BY <2>2, <2>3, SameFiring DEF Same
  <2>5. StackInv'
    BY <1>3, <2>2, <2>4, StackKept DEF Base
  <2>6. CodeSame(stack, stack')
    BY <1>0, <1>8, <1>9, <2>1, CodeTop
  <2>. QED  BY <1>3, <1>6, <2>5, <2>6 DEF Base, Calm
<1>11. CASE ~r.firing
  <2>1. stack' = SubSeq(stack, 1, Len(stack) - 1)
    BY <1>3, <1>8, <1>11 DEF Outer
  <2>2. /\ IsList(stack[Len(stack)], d, k)
        /\ d \in Ds /\ k \in AllKinds
    BY <1>0, <1>1, <1>8 DEF IsList, AtList
  <2>3. /\ \A x \in Ds, j \in AllKinds : x # d \/ j # k => lists'[x][j].firing = lists[x][j].firing
        /\ ~lists'[d][k].firing
    BY <1>6, <1>11, <2>2 DEF OneChanged
  <2>4. Same(stack, stack', lists, lists')
    BY <1>0, <1>8, <2>1, <2>2, <2>3, ListLeft
  <2>5. StackInv'
    BY <1>3, <2>4, StackKept, StackSame DEF Base
  <2>6. PICK n : n = Len(stack) - 1 /\ n \in 0 .. Len(stack)
    BY <1>8
  <2>7. \A i \in n + 1 .. Len(stack) : stack[i].at = "process" => stack[i].busy
    <3>1. \A i \in n + 1 .. Len(stack) : i = Len(stack)
      BY <1>8, <2>6
    <3>. QED  BY <1>0, <1>8, <3>1
  <2>8. CodeSame(stack, stack')
    BY <1>8, <2>1, <2>6, <2>7, CodePopped
  <2>. QED  BY <1>3, <1>6, <2>5, <2>8 DEF Base, Calm
<1>. QED  BY <1>10, <1>11
LEMMA PrefixBase ==
  ASSUME Base, NEW n \in 0 .. Len(stack), stack' = SubSeq(stack, 1, n),
         UNCHANGED <<maxDepth, fate, handed, called, parent, subs, unused,
                     state, value, lists, waiting, timers>>,
         threw' \in BOOLEAN,
         ~threw' => ~threw /\ \A i \in n + 1 .. Len(stack) : stack[i].at # "list",
         \A i \in n + 1 .. Len(stack) : stack[i].at = "process" => stack[i].busy
  PROVE  Base' /\ Calm
<1>1. StackOK(stack, lists)
  BY DEF Base, StackInv
<1>2. /\ StackOK(stack', lists) /\ Len(stack') = n /\ Len(stack) \in Nat
      /\ \A i \in 1 .. n : stack'[i] = stack[i]
  BY <1>1, Popped
<1>3. CodeSame(stack, stack')
  BY <1>1, CodePopped
<1>4. ~threw' => Complete(stack', lists)
  <2>. SUFFICES ASSUME ~threw', NEW d \in Ds, NEW k \in AllKinds, lists[d][k].firing
                PROVE  OnStack(stack', d, k)
    BY DEF Complete
  <2>1. PICK i \in 1 .. Len(stack) : IsList(stack[i], d, k)
    BY DEF Base, StackInv, Complete, OnStack
  <2>2. i \in 1 .. n
    BY <1>2, <2>1 DEF IsList
  <2>. QED  BY <1>2, <2>1, <2>2 DEF OnStack
<1>5. Masters' = Masters
  BY DEF Masters
<1>6. StackInv'
  BY <1>2, <1>4, <1>5, SMTT(30) DEF StackInv, StackOK, Complete, FrameOK, Frames, OnStack, IsList
<1>7. Entries' = Entries
  BY <1>5 DEF Entries
<1>8. ListsInv'
  BY <1>7 DEF Base, ListsInv
<1>. QED  BY <1>3, <1>6, <1>8 DEF Base, Calm

LEMMA LeftBase ==
  ASSUME Base, UNCHANGED <<maxDepth, fate, handed, called, parent, subs, unused, threw,
                           state, value, lists, waiting, timers>>,
         stack # <<>>, stack' = Outer, Top.at # "list", Top.at = "process" => Top.busy
  PROVE  Base' /\ Calm
<1>1. /\ UNCHANGED <<maxDepth, fate, handed, called, parent, subs, unused, threw,
                     state, value, lists, waiting, timers>>
      /\ stack # <<>> /\ stack' = Outer
      /\ Top.at # "list" /\ (Top.at = "process" => Top.busy)
  OBVIOUS
<1>2. Inner = Len(stack) /\ Top = stack[Len(stack)] /\ Inner \in Nat /\ Inner # 0
  BY <1>1, TopFacts DEF Inner, Top
<1>3. PICK n : n = Len(stack) - 1 /\ n \in 0 .. Len(stack)
  BY <1>2
<1>4. stack' = SubSeq(stack, 1, n)
  BY <1>1, <1>2, <1>3 DEF Outer
<1>5. \A i \in n + 1 .. Len(stack) : i = Len(stack)
  BY <1>2, <1>3
<1>6. threw' = threw /\ threw' \in BOOLEAN
  BY <1>1 DEF Base, StackInv
<1>7. \A i \in n + 1 .. Len(stack) : stack[i].at # "list" /\ (stack[i].at = "process" => stack[i].busy)
  BY <1>1, <1>2, <1>5
<1>8. /\ UNCHANGED <<maxDepth, fate, handed, called, parent, subs, unused,
                     state, value, lists, waiting, timers>>
      /\ ~threw' => ~threw /\ \A i \in n + 1 .. Len(stack) : stack[i].at # "list"
      /\ \A i \in n + 1 .. Len(stack) : stack[i].at = "process" => stack[i].busy
  BY <1>1, <1>6, <1>7
<1>. QED  BY ONLY Base, <1>3, <1>4, <1>6, <1>8, PrefixBase

LEMMA LeaveBase ==
  ASSUME Base, Leave \/ ForeignThenReturns
  PROVE  Base' /\ Calm
<1>1. /\ UNCHANGED <<maxDepth, fate, handed, called, parent, subs, unused, threw,
                     state, value, lists, waiting, timers>>
      /\ stack # <<>> /\ stack' = Outer
      /\ Top.at # "list" /\ (Top.at = "process" => Top.busy)
  BY DEF Leave, ForeignThenReturns, rest
<1>. QED  BY ONLY Base, <1>1, LeftBase

(* The greatest of a set of numbers below a bound. *)
LEMMA Greatest ==
  ASSUME NEW n \in Nat, NEW T, T \subseteq 1 .. n, T # {}
  PROVE  \E x \in T : \A y \in T : y <= x
<1>. DEFINE R == {m \in Nat : n - m \in T}
<1>1. R # {}
  <2>1. PICK t \in T : TRUE
    OBVIOUS
  <2>2. n - t \in Nat /\ n - (n - t) = t
    BY <2>1
  <2>. QED  BY <2>1, <2>2
<1>2. PICK x \in R : \A y \in R : x <= y
  BY <1>1, NatMin
<1>3. \A y \in T : n - y \in R
  <2>. SUFFICES ASSUME NEW y \in T PROVE n - y \in R
    OBVIOUS
  <2>1. n - y \in Nat /\ n - (n - y) = y
    OBVIOUS
  <2>. QED  BY <2>1
<1>4. n - x \in T /\ x \in Nat
  OBVIOUS
<1>. HIDE DEF R
<1>5. \A y \in T : y <= n - x
  <2>. SUFFICES ASSUME NEW y \in T PROVE y <= n - x
    OBVIOUS
  <2>1. x <= n - y
    BY <1>2, <1>3
  <2>. QED  BY <1>4, <2>1
<1>. QED  BY <1>4, <1>5

(* Where an exception ends: the frames above the catcher are lists and internal
   calls that are running, not a process() whose handler runs. *)
LEMMA ThrowsTo ==
  ASSUME Base, CallbackThrows
  PROVE  \E n \in 0 .. Len(stack) - 1 :
           /\ stack' = SubSeq(stack, 1, n) /\ Len(stack) \in Nat /\ Len(stack) # 0
           /\ \A i \in n + 1 .. Len(stack) - 1 : stack[i].at # "process" /\ stack[i].busy
<1>1. stack # <<>> /\ Top.at = "list"
  BY DEF CallbackThrows
<1>2. Inner = Len(stack) /\ Len(stack) \in Nat /\ Len(stack) # 0 /\ stack \in Seq(Frames)
  BY <1>1, TopFacts DEF Inner
<1>. DEFINE C == {i \in 1 .. (Len(stack) - 1) : stack[i].at = "process" \/ ~stack[i].busy}
            z == CHOOSE i \in C : \A j \in C : j <= i
<1>3. stack' = IF C = {} THEN <<>> ELSE SubSeq(stack, 1, z)
  BY DEF CallbackThrows
<1>4. CASE C = {}
  <2>1. <<>> = SubSeq(stack, 1, 0)
    BY <1>2
  <2>2. \A i \in 1 .. Len(stack) - 1 : stack[i].at # "process" /\ stack[i].busy
    BY <1>4
  <2>3. 0 \in 0 .. Len(stack) - 1 /\ stack' = SubSeq(stack, 1, 0)
    BY <1>2, <1>3, <1>4, <2>1
  <2>. QED  BY <1>2, <2>2, <2>3
<1>5. CASE C # {}
  <2>1. Len(stack) - 1 \in Nat /\ C \subseteq 1 .. Len(stack) - 1
    BY <1>2
  <2>2. \E x \in C : \A y \in C : y <= x
    BY <1>5, <2>1, Greatest
  <2>a. z \in C /\ \A j \in C : j <= z
    BY <2>2
  <2>b. stack' = SubSeq(stack, 1, z)
    BY <1>3, <1>5
  <2>. HIDE DEF z
  <2>3. PICK n : n = z /\ n \in C /\ (\A j \in C : j <= n) /\ stack' = SubSeq(stack, 1, n)
    BY <2>a, <2>b
  <2>n. n \in 1 .. Len(stack) - 1
    BY <2>1, <2>3
  <2>. HIDE DEF C
  <2>4. \A i \in n + 1 .. Len(stack) - 1 : i \notin C /\ i \in 1 .. Len(stack) - 1
    <3>1. \A i \in n + 1 .. Len(stack) - 1 : i \in 1 .. Len(stack) - 1 /\ ~(i <= n)
      BY <1>2, <2>n
    <3>. QED  BY <2>3, <3>1
  <2>5. n \in 0 .. Len(stack) - 1
    BY <1>2, <2>n
  <2>6. \A i \in n + 1 .. Len(stack) - 1 : stack[i].at # "process" /\ stack[i].busy
    BY <2>4 DEF C
  <2>. QED  BY <1>2, <2>3, <2>5, <2>6
<1>. QED  BY <1>4, <1>5

LEMMA ThrowsBase ==
  ASSUME Base, CallbackThrows
  PROVE  Base' /\ Calm
<1>1. /\ UNCHANGED <<maxDepth, fate, handed, called, parent, subs, unused,
                     state, value, lists, waiting, timers>>
      /\ stack # <<>> /\ Top.at = "list" /\ threw' = TRUE
  BY DEF CallbackThrows, rest
<1>2. PICK n \in 0 .. Len(stack) - 1 :
           /\ stack' = SubSeq(stack, 1, n) /\ Len(stack) \in Nat /\ Len(stack) # 0
           /\ \A i \in n + 1 .. Len(stack) - 1 : stack[i].at # "process" /\ stack[i].busy
  BY ThrowsTo
<1>3. stack[Len(stack)].at = "list"
  BY <1>1 DEF Top, Inner
<1>4. \A i \in n + 1 .. Len(stack) : stack[i].at # "process"
  <2>1. \A i \in n + 1 .. Len(stack) : i \in n + 1 .. Len(stack) - 1 \/ i = Len(stack)
    BY <1>2
  <2>. QED  BY <1>2, <1>3, <2>1
<1>5. n \in 0 .. Len(stack)
  BY <1>2
<1>. QED  BY <1>1, <1>2, <1>4, <1>5, PrefixBase

(* A callback of when() is the counting one in a done list, of a deferred that
   is resolved, or the rejecting one in the fail list of one that is
   rejected. *)
LEMMA InternalIs ==
  ASSUME Base, InternalRuns, NEW d, NEW k, NEW l, AtList(d, k, l)
  PROVE  \/ /\ k = "done" /\ state[d] = "resolved"
            /\ \E m \in Masters : Current = Update(m)
         \/ /\ k = "fail" /\ state[d] = "rejected"
            /\ \E m \in Masters : Current = RejectMaster(m)
            /\ \E v \in Vals : lists[d].fail.memory = <<v>>
<1>1. Current \in Entries[k] /\ Current \notin Fns /\ k \in {"done", "fail", "progress"}
  BY DEF InternalRuns, AtList, AllKinds
<1>2. k # "progress"
  BY <1>1, EntriesAre
<1>3. CASE k = "done"
  <2>1. \E m \in Masters : Current = Update(m)
    BY <1>1, <1>3, EntriesAre
  <2>. QED  BY <1>3, <2>1 DEF AtList, Kinds, Outcome
<1>4. CASE k = "fail"
  <2>1. \E m \in Masters : Current = RejectMaster(m)
    BY <1>1, <1>4, EntriesAre
  <2>. QED  BY <1>4, <2>1 DEF AtList, Kinds, Outcome
<1>. QED  BY <1>1, <1>2, <1>3, <1>4

(* What an internal callback does. *)
Marked == [stack EXCEPT ![Inner].busy = TRUE]

LEMMA InternalDoes ==
  ASSUME Base, InternalRuns
  PROVE  \/ \E m \in Masters :
              /\ Top.k = "done" /\ state[Top.d] = "resolved" /\ Current = Update(m)
              /\ remaining' = [remaining EXCEPT ![m] = @ - 1]
              /\ IF remaining[m] = 1
                 THEN \E v \in Vals : Settle(m, "done", v, Marked)
                 ELSE stack' = Marked /\ UNCHANGED <<state, value, lists, waiting, timers>>
         \/ \E m \in Masters :
              /\ Top.k = "fail" /\ state[Top.d] = "rejected" /\ Current = RejectMaster(m)
              /\ remaining' = remaining
              /\ \E v \in Vals : Settle(m, "fail", v, Marked)
<1>0. stack # <<>> /\ Top.at = "list"
  BY DEF InternalRuns
<1>1. PICK d, k, l : AtList(d, k, l) /\ d = Top.d /\ k = Top.k
  BY <1>0, AtListFacts DEF AtList
<1>2. CASE k = "done" /\ state[d] = "resolved" /\ \E m \in Masters : Current = Update(m)
  <2>1. PICK m \in Masters : Current = Update(m)
    BY <1>2
  <2>2. "update" \in DOMAIN Current /\ Current.update = m
    BY <2>1 DEF Update
  <2>3. Vals # {}
    BY <1>1, <1>2 DEF AtList, Kinds
  <2>4. PICK w \in Vals : w = CHOOSE v \in Vals : TRUE
    BY <2>3
  <2>5. /\ remaining' = [remaining EXCEPT ![m] = @ - 1]
        /\ IF remaining[m] = 1
           THEN Settle(m, "done", w, Marked)
           ELSE stack' = Marked /\ UNCHANGED <<state, value, lists, waiting, timers>>
    BY <2>2, <2>4 DEF InternalRuns, Marked
  <2>. QED  BY <1>1, <1>2, <2>1, <2>5
<1>3. CASE /\ k = "fail" /\ state[d] = "rejected"
           /\ \E m \in Masters : Current = RejectMaster(m)
           /\ \E v \in Vals : lists[d].fail.memory = <<v>>
  <2>1. PICK m \in Masters : Current = RejectMaster(m)
    BY <1>3
  <2>2. "update" \notin DOMAIN Current /\ Current.reject = m
    BY <2>1 DEF RejectMaster
  <2>3. PICK v \in Vals : lists[Top.d].fail.memory[1] = v
    BY <1>1, <1>3
  <2>4. remaining' = remaining /\ Settle(m, "fail", v, Marked)
    BY <2>2, <2>3 DEF InternalRuns, Marked
  <2>. QED  BY <1>1, <1>3, <2>1, <2>4
<1>. QED  BY <1>1, <1>2, <1>3, InternalIs

LEMMA MarkedOK ==
  ASSUME Base, stack # <<>>, Top.at = "list"
  PROVE  /\ Same(stack, Marked, lists, lists) /\ CodeSame(stack, Marked)
         /\ Len(Marked) = Len(stack)
         /\ \A i \in 1 .. Len(stack) :
              Marked[i] = IF i = Len(stack) THEN [Top EXCEPT !.busy = TRUE] ELSE stack[i]
<1>1. PICK f : f = [Top EXCEPT !.busy = TRUE]
  OBVIOUS
<1>2. /\ StackOK(stack, lists) /\ Inner = Len(stack) /\ Top = stack[Len(stack)]
      /\ stack \in Seq(Frames) /\ Inner \in Nat /\ Inner # 0
  BY TopFacts DEF Inner, Top
<1>3. FrameOK(f) /\ f.at = "list" /\ f.d = Top.d /\ f.k = Top.k
  BY <1>1, TopFacts DEF FrameOK, Frames
<1>4. Marked = [stack EXCEPT ![Len(stack)] = f]
  BY <1>1, <1>2 DEF Marked
<1>5. /\ Same(stack, Marked, lists, lists) /\ Len(Marked) = Len(stack)
      /\ \A i \in 1 .. Len(stack) : Marked[i] = IF i = Len(stack) THEN f ELSE stack[i]
  <2>1. StackOK(stack, lists) /\ stack # <<>> /\ FrameOK(f) /\ f.at = stack[Len(stack)].at
        /\ f.d = stack[Len(stack)].d /\ (f.at = "list" => f.k = stack[Len(stack)].k)
    BY <1>2, <1>3
  <2>2. /\ Same(stack, [stack EXCEPT ![Len(stack)] = f], lists, lists)
        /\ Len([stack EXCEPT ![Len(stack)] = f]) = Len(stack)
        /\ \A i \in 1 .. Len(stack) :
             [stack EXCEPT ![Len(stack)] = f][i] = IF i = Len(stack) THEN f ELSE stack[i]
    BY ONLY <2>1, TopChanged
  <2>. QED  BY ONLY <1>4, <2>2
<1>6. CodeSame(stack, Marked)
  BY <1>2, <1>3, <1>4, CodeTop
<1>. QED  BY <1>1, <1>5, <1>6

LEMMA InternalBase ==
  ASSUME Base, InternalRuns
  PROVE  Base' /\ Calm
<1>1. /\ UNCHANGED <<maxDepth, fate, handed, called, parent, subs, unused, threw>>
      /\ stack # <<>> /\ Top.at = "list"
  BY DEF InternalRuns, rest
<1>2. Same(stack, Marked, lists, lists) /\ CodeSame(stack, Marked)
  BY <1>1, MarkedOK
<1>3. \A m \in Masters : m \in Ds /\ subs[m] # {}
  BY DeferredAssumption DEF Masters
<1>4. ASSUME NEW m \in Masters, NEW k \in Kinds, NEW v \in Vals, Settle(m, k, v, Marked)
      PROVE  Base' /\ Calm
  BY <1>1, <1>2, <1>3, <1>4, CalmSettle
<1>5. ASSUME stack' = Marked, UNCHANGED <<state, value, lists, waiting, timers>>
      PROVE  Base' /\ Calm
  <2>1. Same(stack', stack', lists, lists')
    BY <1>2, <1>5 DEF Same
  <2>2. StackInv'
    BY <1>1, <1>2, <1>5, <2>1, StackKept DEF Base
  <2>3. Entries' = Entries
    BY <1>1 DEF Entries, Masters
  <2>4. ListsInv'
    BY <1>5, <2>3 DEF Base, ListsInv
  <2>. QED  BY <1>1, <1>2, <1>5, <2>2, <2>4 DEF Base, Calm
<1>6. "done" \in Kinds /\ "fail" \in Kinds
  BY DEF Kinds
<1>. QED  BY <1>4, <1>5, <1>6, InternalDoes
(* adoptValue(): the callbacks of the master go into the two lists; one of
   them, of a deferred that has ended, may be entered for it. *)
LEMMA OneMore ==
  ASSUME NEW T, NEW b \in Seq(T), NEW f \in T
  PROVE  /\ b \o [i \in 1 .. 1 |-> f] = Append(b, f)
         /\ b \o [i \in 1 .. 0 |-> f] = b
<1>1. [i \in 1 .. 1 |-> f] = <<f>> /\ [i \in 1 .. 0 |-> f] = <<>>
  OBVIOUS
<1>2. b \o <<f>> = Append(b, f) /\ b \o <<>> = b
  OBVIOUS
<1>. QED  BY <1>1, <1>2

Adopted(s, m, k, D, F, b) ==
  /\ stack # <<>> /\ Top.at = "when" /\ m = Top.d /\ m \in Masters
  /\ s \in Top.k /\ s \in Ds /\ k \in Kinds
  /\ b = [stack EXCEPT ![Inner] = [Top EXCEPT !.k = Top.k \ {s}]]
  /\ \A x \in Ds, j \in AllKinds :
       lists'[x][j] = IF x = s /\ j = "done" THEN D
                      ELSE IF x = s /\ j = "fail" THEN F ELSE lists[x][j]
  /\ AddedTo(lists[s]["done"], "done", state[s], Update(m), D)
  /\ AddedTo(lists[s]["fail"], "fail", state[s], RejectMaster(m), F)
  /\ \A x \in Ds, j \in AllKinds :
       x # s \/ j # k => lists'[x][j].firing = lists[x][j].firing
  /\ lists[s][k].firing => lists'[s][k].firing
  /\ stack' = IF lists'[s][k].firing /\ ~lists[s][k].firing
              THEN Append(b, Firing(s, k)) ELSE b

LEMMA AdoptIs ==
  ASSUME Base, NEW s \in Ds, WhenAdopts(s)
  PROVE  ListsInv' /\ \E m, k, D, F, b : Adopted(s, m, k, D, F, b)
<1>0. stack # <<>> /\ Top.at = "when" /\ s \in Top.k
      /\ UNCHANGED <<state, value, waiting, timers, remaining, calls, unused, parent, subs, handed,
                     maxDepth, fate, called, threw>>
  BY DEF WhenAdopts, rest
<1>1. PICK m : m = Top.d /\ m \in Masters
  BY <1>0, TopFacts DEF FrameOK
<1>2. PICK L : L = lists[s]
  OBVIOUS
<1>3. PICK D : D = Add(OptionsOf("done"), L["done"], Update(m))
  OBVIOUS
<1>4. PICK F : F = Add(OptionsOf("fail"), L["fail"], RejectMaster(m))
  OBVIOUS
<1>5. PICK new : new = [L EXCEPT !["done"] = D, !["fail"] = F]
  OBVIOUS
<1>6. PICK f : f = [Top EXCEPT !.k = Top.k \ {s}]
  OBVIOUS
<1>7. PICK b : b = [stack EXCEPT ![Inner] = f]
  OBVIOUS
<1>8. b = [stack EXCEPT ![Inner].k = @ \ {s}]
  BY <1>0, <1>6, <1>7, TopFacts DEF Top
<1>. DEFINE entered == {k \in Kinds : new[k].firing /\ ~lists[s][k].firing}
<1>a. PICK c, g : c = Cardinality(entered) /\ g = Firing(s, CHOOSE k \in entered : TRUE)
  OBVIOUS
<1>9. lists' = [lists EXCEPT ![s] = new] /\ stack' = b \o [i \in 1..c |-> g]
  <2>1. OptionsOf("done") = {"once", "memory"} /\ OptionsOf("fail") = {"once", "memory"}
    BY DEF OptionsOf
  <2>2. DOMAIN lists[s] = AllKinds
    BY DEF Base, ListsInv, DefOK
  <2>. DEFINE X == [lists[s] EXCEPT !.done = Add({"once", "memory"}, @, Update(Top.d)),
                                    !.fail = Add({"once", "memory"}, @, RejectMaster(Top.d))]
              ent == {k \in Kinds : X[k].firing /\ ~lists[s][k].firing}
  <2>3. new = [lists[s] EXCEPT !.done = Add({"once", "memory"}, @, Update(Top.d)),
                               !.fail = Add({"once", "memory"}, @, RejectMaster(Top.d))]
    BY ONLY <1>1, <1>2, <1>3, <1>4, <1>5, <2>1, <2>2 DEF AllKinds
  <2>4. /\ lists' = [lists EXCEPT ![s] = new]
        /\ stack' = [stack EXCEPT ![Inner].k = @ \ {s}]
                     \o [i \in 1..Cardinality(entered) |-> Firing(s, CHOOSE k \in entered : TRUE)]
    <3>1. /\ lists' = [lists EXCEPT ![s] = X]
          /\ stack' = [stack EXCEPT ![Inner].k = @ \ {s}]
                       \o [i \in 1..Cardinality(ent) |-> Firing(s, CHOOSE k \in ent : TRUE)]
      BY Zenon DEF WhenAdopts
    <3>2. X = new
      BY <2>3
    <3>. HIDE DEF X
    <3>3. ent = entered
      BY <3>2
    <3>. QED  BY ONLY <3>1, <3>2, <3>3, SMTT(30)
  <2>. QED  BY ONLY <1>8, <1>a, <2>4, SMTT(30)
<1>10. /\ "done" \in AllKinds /\ "fail" \in AllKinds /\ "done" \in Kinds /\ "fail" \in Kinds
       /\ Update(m) \in Entries["done"] /\ RejectMaster(m) \in Entries["fail"]
       /\ Kinds = {"done", "fail"}
  BY <1>1, EntriesAre DEF AllKinds, Kinds
<1>11. /\ ListOK(L["done"], Entries["done"]) /\ KindOK(L["done"], "done", state[s], value[s])
       /\ ListOK(L["fail"], Entries["fail"]) /\ KindOK(L["fail"], "fail", state[s], value[s])
       /\ state[s] \in {"pending", "resolved", "rejected"}
       /\ state[s] # "pending" => value[s] # <<>>
       /\ L["done"].firing \in BOOLEAN /\ L["fail"].firing \in BOOLEAN
  BY <1>2, <1>10, ListFacts DEF Base
<1>12. /\ ListOK(D, Entries["done"]) /\ KindOK(D, "done", state[s], value[s])
       /\ AddedTo(L["done"], "done", state[s], Update(m), D)
       /\ L["done"].firing => D.firing
  BY ONLY <1>3, <1>10, <1>11, AddOK, AddKind
<1>13. /\ ListOK(F, Entries["fail"]) /\ KindOK(F, "fail", state[s], value[s])
       /\ AddedTo(L["fail"], "fail", state[s], RejectMaster(m), F)
       /\ L["fail"].firing => F.firing
  BY ONLY <1>4, <1>10, <1>11, AddOK, AddKind
<1>14. DOMAIN lists = Ds /\ \A x \in Ds : DOMAIN lists[x] = AllKinds
  BY DEF Base, ListsInv, DefOK
<1>15. \A x \in Ds, j \in AllKinds :
         lists'[x][j] = IF x = s /\ j = "done" THEN D
                        ELSE IF x = s /\ j = "fail" THEN F ELSE lists[x][j]
  <2>1. \A j \in AllKinds : new[j] = IF j = "done" THEN D ELSE IF j = "fail" THEN F ELSE L[j]
    BY <1>2, <1>5, <1>14
  <2>. QED  BY ONLY <1>2, <1>9, <1>14, <2>1
<1>16. DOMAIN lists' = Ds /\ \A x \in Ds : DOMAIN lists'[x] = AllKinds
  BY ONLY <1>2, <1>5, <1>9, <1>14
<1>17. Entries' = Entries
  BY <1>0 DEF Entries, Masters
<1>18. ListsInv'
  <2>1. \A x \in Ds : DefOK(lists'[x], state[x], value[x], Entries)
    <3>. SUFFICES ASSUME NEW x \in Ds PROVE DefOK(lists'[x], state[x], value[x], Entries)
      OBVIOUS
    <3>1. DefOK(lists[x], state[x], value[x], Entries)
      BY DEF Base, ListsInv
    <3>2. \A j \in AllKinds : ListOK(lists'[x][j], Entries[j])
      BY ONLY <1>12, <1>13, <1>15, <3>1, x \in Ds DEF DefOK
    <3>3. \A j \in Kinds : KindOK(lists'[x][j], j, state[x], value[x])
      BY ONLY <1>12, <1>13, <1>15, <3>1, KindFacts, x \in Ds DEF DefOK
    <3>. QED  BY ONLY <1>16, <3>1, <3>2, <3>3, x \in Ds DEF DefOK
  <2>. QED  BY ONLY Base, <1>0, <1>16, <1>17, <2>1 DEF Base, ListsInv
<1>. DEFINE k == IF state[s] = "rejected" THEN "fail" ELSE "done"
<1>19. k \in Kinds /\ \A j \in AllKinds : j # k => lists'[s][j].firing = lists[s][j].firing
  <2>1. state[s] # "rejected" => F.firing = L["fail"].firing
    BY ONLY <1>11, <1>13 DEF AddedTo, KindOK, Outcome, Other
  <2>2. state[s] = "rejected" => D.firing = L["done"].firing
    BY ONLY <1>11, <1>12 DEF AddedTo, KindOK, Outcome, Other
  <2>. QED  BY ONLY <1>2, <1>10, <1>15, <2>1, <2>2, s \in Ds
<1>20. lists[s][k].firing => lists'[s][k].firing
  BY ONLY <1>2, <1>10, <1>12, <1>13, <1>15, s \in Ds
<1>21. \A j \in Kinds : new[j] = lists'[s][j]
  BY <1>9, <1>14
<1>22. b \in Seq(Frames)
  <2>1. f \in Frames
    BY <1>0, <1>6, TopFacts DEF Frames, FrameOK
  <2>. QED  BY <1>0, <1>7, <2>1, TopFacts
<1>. HIDE DEF k
<1>23. stack' = IF lists'[s][k].firing /\ ~lists[s][k].firing
                THEN Append(b, Firing(s, k)) ELSE b
  <2>0. Kinds \subseteq AllKinds
    BY DEF Kinds, AllKinds
  <2>1. CASE lists'[s][k].firing /\ ~lists[s][k].firing
    <3>1. entered = {k}
      BY ONLY <1>19, <1>21, <2>0, <2>1
    <3>2. Cardinality(entered) = 1
      BY <3>1, FS_Singleton
    <3>3. c = 1 /\ g = Firing(s, k)
      BY <1>a, <3>1, <3>2
    <3>4. Firing(s, k) \in Frames
      BY <1>19, <2>0 DEF Firing, Frames
    <3>5. stack' = b \o [i \in 1 .. 1 |-> Firing(s, k)]
      BY ONLY <1>9, <3>3
    <3>. QED  BY <1>22, <2>1, <3>4, <3>5, OneMore
  <2>2. CASE ~(lists'[s][k].firing /\ ~lists[s][k].firing)
    <3>1. entered = {}
      BY ONLY <1>19, <1>21, <2>0, <2>2
    <3>2. c = 0
      BY <1>a, <3>1, FS_EmptySet
    <3>3. [i \in 1 .. 0 |-> g] = <<>>
      OBVIOUS
    <3>4. stack' = b \o <<>>
      BY ONLY <1>9, <3>2, <3>3
    <3>5. b \o <<>> = b
      BY <1>22
    <3>. QED  BY <2>2, <3>4, <3>5
  <2>. QED  BY <2>1, <2>2
<1>24. \A x \in Ds, j \in AllKinds : x # s \/ j # k => lists'[x][j].firing = lists[x][j].firing
  BY ONLY <1>15, <1>19, s \in Ds
<1>25. Adopted(s, m, k, D, F, b)
  BY ONLY <1>0, <1>1, <1>2, <1>6, <1>7, <1>12, <1>13, <1>15, <1>19, <1>20, <1>23, <1>24, s \in Ds DEF Adopted
<1>. QED  BY <1>18, <1>25

LEMMA AdoptBase ==
  ASSUME Base, NEW s \in Ds, WhenAdopts(s)
  PROVE  Base' /\ Calm
<1>1. PICK m, k, D, F, b : ListsInv' /\ Adopted(s, m, k, D, F, b)
  BY AdoptIs
<1>2. /\ UNCHANGED <<state, value, waiting, timers, unused, parent, subs, handed,
                     maxDepth, fate, called, threw>>
      /\ stack # <<>>
  BY DEF WhenAdopts, rest
<1>3. PICK f : f = [Top EXCEPT !.k = Top.k \ {s}]
  OBVIOUS
<1>4. /\ StackOK(stack, lists) /\ Inner = Len(stack) /\ Top = stack[Len(stack)]
      /\ stack \in Seq(Frames) /\ stack # <<>> /\ Top.at = "when" /\ FrameOK(Top)
  BY <1>1, <1>2, TopFacts DEF Inner, Top, Adopted
<1>5. FrameOK(f) /\ f.at = stack[Len(stack)].at /\ f.d = stack[Len(stack)].d /\ f.at = "when"
  <2>1. Top.k \ {s} \in SUBSET Ds
    BY ONLY <1>4 DEF FrameOK
  <2>2. f.at = Top.at /\ f.d = Top.d /\ FrameOK(f)
    BY ONLY <1>3, <1>4, <2>1 DEF FrameOK, Frames
  <2>. QED  BY <1>4, <2>2
<1>6. b = [stack EXCEPT ![Len(stack)] = f]
  BY <1>1, <1>3, <1>4 DEF Adopted
<1>7. Same(stack, b, lists, lists)
  BY ONLY <1>4, <1>5, <1>6, TopChanged
<1>8. CodeSame(stack, b)
  BY ONLY <1>4, <1>5, <1>6, CodeTop
<1>9. StackOK(b, lists)
  BY <1>7 DEF Same
<1>10. /\ s \in Ds /\ k \in AllKinds
       /\ \A x \in Ds, j \in AllKinds :
            x # s \/ j # k => lists'[x][j].firing = lists[x][j].firing
       /\ lists[s][k].firing => lists'[s][k].firing
       /\ stack' = IF lists'[s][k].firing /\ ~lists[s][k].firing
                   THEN Append(b, Firing(s, k)) ELSE b
  BY ONLY <1>1, KindFacts DEF Adopted
<1>11. Same(b, stack', lists, lists') /\ Grown(b, stack', s, k)
  <2>1. CASE lists[s][k].firing
    <3>0. lists'[s][k].firing \in BOOLEAN /\ lists[s][k].firing \in BOOLEAN
      BY ONLY Base, <1>1, <1>10, Fields DEF Base, ListsInv, DefOK, ListOK, Shape
    <3>1. \A x \in Ds, j \in AllKinds : lists'[x][j].firing = lists[x][j].firing
      <4>1. lists'[s][k].firing = lists[s][k].firing
        BY ONLY <1>10, <2>1, <3>0
      <4>. QED  BY ONLY <1>10, <4>1
    <3>2. stack' = b /\ Len(b) \in Nat
      BY <1>9, <1>10, <2>1 DEF StackOK
    <3>3. Same(b, b, lists, lists')
      BY ONLY <1>9, <3>1, SameFiring
    <3>. QED  BY ONLY <3>2, <3>3 DEF Grown
  <2>2. CASE ~lists[s][k].firing
    <3>1. Enters(b, lists, lists', s, k, stack')
      BY ONLY <1>10, <2>2 DEF Enters
    <3>2. /\ Same(b, stack', lists, lists') /\ Len(b) \in Nat
          /\ IF lists'[s][k].firing
             THEN Len(stack') = Len(b) + 1 /\ stack'[Len(b) + 1] = Firing(s, k)
             ELSE stack' = b
          /\ \A i \in 1 .. Len(b) : stack'[i] = b[i]
      BY ONLY <1>9, <3>1, EntersOK
    <3>3. Grown(b, stack', s, k)
      BY ONLY <3>2 DEF Grown
    <3>. QED  BY <3>2, <3>3
  <2>. QED  BY <2>1, <2>2
<1>12. StackInv'
  BY <1>2, <1>7, <1>11, StackKept DEF Base
<1>13. CodeSame(stack, stack')
  BY <1>8, <1>11, CodeGrown
<1>. QED  BY <1>1, <1>2, <1>12, <1>13 DEF Base, Calm
-----------------------------------------------------------------------------
(* The promises of then(). *)

(* The word a promise waits for at a depth is on its way: the deferred it is
   to come from is pending, or the timer that brings it is set. *)
Comes(p, n, d) ==
  \/ <<p, n>> \in waiting[d]
  \/ \E t \in timers : t.p = p /\ t.depth = n /\ t.of = d

(* The handler of the promise is being called, or the `then' of an object the
   promise was given to. *)
Runs(p) ==
  \E i \in 1 .. Len(stack) : stack[i].at = "process" /\ stack[i].d = p /\ ~stack[i].busy

Asks(p, n) ==
  \E i \in 1 .. Len(stack) : stack[i].at = "then" /\ stack[i].d = p /\ stack[i].k = n

Timers == [p : Pool, depth : Nat, k : Kinds, of : Ds]

TokenType ==
  /\ DOMAIN waiting = Ds
  /\ \A d \in Ds : waiting[d] \subseteq Pool \X Nat /\ (waiting[d] # {} => ~Settled(d))
  /\ timers \subseteq Timers
  /\ \A t \in timers : state[t.of] = Outcome(t.k)

(* What comes at depth 0 comes from the deferred whose then() was called,
   before anything was said of the promise; what comes at the present depth
   of an unsettled promise comes from the one it was led on to. *)
Awaits(p, n, d) ==
  /\ parent[p] # <<>> /\ n <= maxDepth[p]
  /\ n = 0 => fate[p] = <<"open">> /\ parent[p] = <<d>>
  /\ n # 0 /\ n = maxDepth[p] /\ ~Settled(p) => fate[p] = <<"follows", d>>

(* The functions of a depth that were called have settled the promise or led it
   on; those that were not are what the promise is bound to. *)
HandedOK(p, n) ==
  /\ parent[p] # <<>> /\ n \in 1 .. maxDepth[p]
  /\ <<p, n>> \in called => Settled(p) \/ n < maxDepth[p]
  /\ <<p, n>> \notin called => fate[p] = <<"foreign", n>>

FateOpen(p) ==
  /\ fate[p] = <<"open">> /\ maxDepth[p] = 0
  /\ parent[p] # <<>> =>
       ~Settled(p) /\ \E d \in Ds : parent[p] = <<d>> /\ (Comes(p, 0, d) \/ Runs(p))

FateSettled(p) == \E k \in Kinds : fate[p] = <<"settled", k>> /\ state[p] = Outcome(k)

FateFollows(p) ==
  \E e \in Ds, n \in Nat :
    /\ fate[p] = <<"follows", e>> /\ n = maxDepth[p] /\ n # 0
    /\ Settled(p) => state[p] = state[e]
    /\ ~Settled(p) => Comes(p, n, e)

FateForeign(p) ==
  /\ fate[p] = <<"foreign", maxDepth[p]>> /\ ~Settled(p)
  /\ <<p, maxDepth[p]>> \in handed \ called

PromiseOK(p) ==
  /\ p \in unused => parent[p] = <<>> /\ subs[p] = {}
  /\ parent[p] # <<>> => subs[p] = {} /\ \E d \in Ds : parent[p] = <<d>>
  /\ parent[p] = <<>> => fate[p] = <<"open">>
  /\ parent[p] = <<>> /\ subs[p] = {} => ~Settled(p)
  /\ \A n \in Nat, d \in Ds : Comes(p, n, d) => Awaits(p, n, d)
  /\ \A n \in Nat : <<p, n>> \in handed => HandedOK(p, n)
  /\ Runs(p) => parent[p] # <<>> /\ fate[p] = <<"open">> /\ \A d \in Ds : ~Comes(p, 0, d)
  /\ \A n \in Nat : Asks(p, n) => <<p, n + 1>> \in handed
  /\ FateOpen(p) \/ FateSettled(p) \/ FateFollows(p) \/ FateForeign(p)

PromInv ==
  /\ DOMAIN parent = Ds /\ DOMAIN subs = Ds /\ DOMAIN fate = Ds
  /\ maxDepth \in [Ds -> 0 .. MaxDepth]
  /\ unused \subseteq Pool /\ handed \subseteq Pool \X Nat /\ called \subseteq handed
  /\ TokenType
  /\ \A p \in Pool : PromiseOK(p)

(* A promise that a step leaves alone. *)
Forward == \A e \in Ds : Settled(e) => state'[e] = state[e]

Untouched(q) ==
  /\ parent'[q] = parent[q] /\ subs'[q] = subs[q] /\ state'[q] = state[q]
  /\ maxDepth'[q] = maxDepth[q] /\ fate'[q] = fate[q]
  /\ q \in unused' => q \in unused
  /\ \A n \in Nat, d \in Ds : Comes(q, n, d)' <=> Comes(q, n, d)
  /\ \A n \in Nat : /\ <<q, n>> \in handed' <=> <<q, n>> \in handed
                    /\ <<q, n>> \in called' <=> <<q, n>> \in called
  /\ Runs(q)' <=> Runs(q)
  /\ \A n \in Nat : Asks(q, n)' => Asks(q, n)

LEMMA FateKept ==
  ASSUME PromInv, NEW q \in Pool, Untouched(q), Forward
  PROVE  FateOpen(q)' \/ FateSettled(q)' \/ FateFollows(q)' \/ FateForeign(q)'
<1>0. PromiseOK(q) /\ q \in Ds /\ maxDepth[q] \in Nat
  BY DeferredAssumption DEF PromInv
<1>1. Settled(q)' <=> Settled(q)
  BY DEF Untouched, Settled
<1>2. CASE FateOpen(q)
  <2>1. \A d \in Ds : Comes(q, 0, d) => Comes(q, 0, d)'
    BY DEF Untouched
  <2>2. parent'[q] = parent[q] /\ fate'[q] = fate[q] /\ maxDepth'[q] = maxDepth[q] /\ (Runs(q)' <=> Runs(q))
    BY DEF Untouched
  <2>3. FateOpen(q)'
    BY ONLY <1>1, <1>2, <2>1, <2>2 DEF FateOpen
  <2>. QED  BY <2>3
<1>3. CASE FateSettled(q)
  BY <1>3 DEF FateSettled, Untouched
<1>4. CASE FateFollows(q)
  <2>1. PICK e \in Ds, n \in Nat :
              /\ fate[q] = <<"follows", e>> /\ n = maxDepth[q] /\ n # 0
              /\ Settled(q) => state[q] = state[e]
              /\ ~Settled(q) => Comes(q, n, e)
    BY <1>4 DEF FateFollows
  <2>2. fate'[q] = fate[q] /\ maxDepth'[q] = maxDepth[q] /\ state'[q] = state[q]
    BY DEF Untouched
  <2>3. Comes(q, n, e) => Comes(q, n, e)'
    BY DEF Untouched
  <2>5. Settled(q) => state'[q] = state'[e]
    BY <2>1, <2>2 DEF Forward, Settled
  <2>6. FateFollows(q)'
    BY ONLY <1>1, <2>1, <2>2, <2>3, <2>5 DEF FateFollows
  <2>. QED  BY <2>6
<1>5. CASE FateForeign(q)
  <2>1. <<q, maxDepth[q]>> \in handed' \ called'
    BY <1>0, <1>5 DEF FateForeign, Untouched
  <2>. QED  BY <1>1, <1>5, <2>1 DEF FateForeign, Untouched
<1>. QED  BY <1>0, <1>2, <1>3, <1>4, <1>5 DEF PromiseOK

LEMMA Kept ==
  ASSUME PromInv, NEW q \in Pool, Untouched(q), Forward
  PROVE  PromiseOK(q)'
<1>0. PromiseOK(q) /\ q \in Ds /\ maxDepth[q] \in Nat
  BY DeferredAssumption DEF PromInv
<1>1. (Settled(q)' <=> Settled(q)) /\ parent'[q] = parent[q] /\ subs'[q] = subs[q]
      /\ maxDepth'[q] = maxDepth[q] /\ fate'[q] = fate[q]
  BY DEF Untouched, Settled
<1>2. \A n \in Nat, d \in Ds : Comes(q, n, d)' => Awaits(q, n, d)'
  <2>1. \A n \in Nat, d \in Ds : Awaits(q, n, d) => Awaits(q, n, d)'
    BY <1>1 DEF Awaits
  <2>. QED  BY <1>0, <2>1 DEF Untouched, PromiseOK
<1>3. \A n \in Nat : <<q, n>> \in handed' => HandedOK(q, n)'
  <2>1. \A n \in Nat : HandedOK(q, n) => HandedOK(q, n)'
    BY <1>1 DEF HandedOK, Untouched
  <2>. QED  BY <1>0, <2>1 DEF Untouched, PromiseOK
<1>4. Runs(q)' => parent'[q] # <<>> /\ fate'[q] = <<"open">> /\ \A d \in Ds : ~Comes(q, 0, d)'
  BY <1>0, <1>1 DEF Untouched, PromiseOK
<1>5. \A n \in Nat : Asks(q, n)' => <<q, n + 1>> \in handed'
  <2>1. \A n \in Nat : n + 1 \in Nat
    OBVIOUS
  <2>. QED  BY <1>0, <2>1 DEF Untouched, PromiseOK
<1>6. /\ q \in unused' => parent'[q] = <<>> /\ subs'[q] = {}
      /\ parent'[q] # <<>> => subs'[q] = {} /\ \E d \in Ds : parent'[q] = <<d>>
      /\ parent'[q] = <<>> => fate'[q] = <<"open">>
      /\ parent'[q] = <<>> /\ subs'[q] = {} => ~Settled(q)'
  <2>1. q \in unused' => q \in unused
    BY DEF Untouched
  <2>. QED  BY <1>0, <1>1, <2>1 DEF PromiseOK
<1>. QED  BY <1>2, <1>3, <1>4, <1>5, <1>6, FateKept DEF PromiseOK
(* What follows for the reader of a promise. *)
LEMMA AsFirstSaid ==
  ASSUME PromInv
  PROVE  EndsAsFirstSaid
<1>. SUFFICES ASSUME NEW p \in Pool, parent[p] # <<>>, Settled(p)
              PROVE  CASE fate[p][1] = "settled" -> state[p] = Outcome(fate[p][2])
                       [] fate[p][1] = "follows" -> state[p] = state[fate[p][2]]
                       [] OTHER -> FALSE
  BY DEF EndsAsFirstSaid
<1>1. FateSettled(p) \/ FateFollows(p)
  BY DEF PromInv, PromiseOK, FateOpen, FateForeign
<1>2. CASE FateSettled(p)
  BY <1>2 DEF FateSettled
<1>3. CASE FateFollows(p)
  BY <1>3 DEF FateFollows
<1>. QED  BY <1>1, <1>2, <1>3

LEMMA NoneForgotten ==
  ASSUME PromInv
  PROVE  NoPromiseForgotten
<1>. SUFFICES ASSUME Quiet, NEW p \in Pool, parent[p] # <<>>, Settled(parent[p][1])
              PROVE  \/ Settled(p)
                     \/ fate[p][1] = "follows" /\ ~Settled(fate[p][2])
                     \/ fate[p][1] = "foreign" /\ <<p, fate[p][2]>> \notin called
  BY DEF NoPromiseForgotten
<1>1. \A n \in Nat, d \in Ds : Comes(p, n, d) => ~Settled(d)
  BY DEF Comes, Quiet, PromInv, TokenType
<1>2. ~Runs(p)
  BY DEF Runs, Quiet
<1>3. FateOpen(p) \/ FateSettled(p) \/ FateFollows(p) \/ FateForeign(p)
  BY DEF PromInv, PromiseOK
<1>4. ~FateOpen(p)
  BY <1>1, <1>2 DEF FateOpen
<1>5. FateSettled(p) => Settled(p)
  BY KindFacts DEF FateSettled, Settled
<1>6. FateFollows(p) => Settled(p) \/ (fate[p][1] = "follows" /\ ~Settled(fate[p][2]))
  BY <1>1 DEF FateFollows
<1>7. FateForeign(p) => fate[p][1] = "foreign" /\ <<p, fate[p][2]>> \notin called
  BY DEF FateForeign
<1>. QED  BY <1>3, <1>4, <1>5, <1>6, <1>7

(* The words on their way, with the timers in ts for those that are set. *)
ComesOf(ts, p, n, d) ==
  \/ <<p, n>> \in waiting[d]
  \/ \E t \in ts : t.p = p /\ t.depth = n /\ t.of = d

LEMMA OverTokens ==
  ASSUME TokenType, DOMAIN state = Ds, NEW ts, ts \subseteq timers, NEW d, NEW k, Over(ts, d, k)
  PROVE  /\ TokenType' /\ Forward /\ Settled(d)' /\ state'[d] = Outcome(k)
         /\ \A x \in Ds : x # d => state'[x] = state[x]
         /\ \A p \in Pool, n \in Nat, x \in Ds : Comes(p, n, x)' <=> ComesOf(ts, p, n, x)
<1>1. /\ d \in Ds /\ k \in Kinds /\ ~Settled(d) /\ d \in DOMAIN state /\ d \in DOMAIN waiting
      /\ state' = [state EXCEPT ![d] = Outcome(k)]
      /\ timers' = ts \cup Told(d, k, waiting[d])
      /\ waiting' = [waiting EXCEPT ![d] = {}]
      /\ Outcome(k) # "pending"
  BY KindFacts DEF Over, TokenType
<1>2. state'[d] = Outcome(k) /\ \A x \in Ds : x # d => state'[x] = state[x] /\ waiting'[x] = waiting[x]
  BY <1>1 DEF TokenType
<1>3. waiting'[d] = {} /\ DOMAIN waiting' = Ds
  BY <1>1 DEF TokenType
<1>4. Forward /\ Settled(d)'
  BY <1>1, <1>2 DEF Forward, Settled
<1>5. \A w \in waiting[d] : w \in Pool \X Nat /\ w = <<w[1], w[2]>>
  BY <1>1 DEF TokenType
<1>6. \A t : t \in Told(d, k, waiting[d]) <=>
        \E w \in waiting[d] : t = [p |-> w[1], depth |-> w[2], k |-> k, of |-> d]
  BY DEF Told
<1>7. TokenType'
  <2>1. \A t \in Told(d, k, waiting[d]) : t \in Timers /\ t.of = d /\ t.k = k
    BY <1>1, <1>5, <1>6 DEF Timers
  <2>2. \A t \in timers' : t \in Timers
    BY <1>1, <2>1 DEF TokenType
  <2>3. \A t \in ts : t.of # d
    <3>1. \A t \in timers : Settled(t.of)
      BY KindFacts DEF TokenType, Timers, Settled
    <3>. QED  BY <1>1, <3>1
  <2>4. \A t \in timers' : state'[t.of] = Outcome(t.k)
    <3>1. \A t \in ts : t.of \in Ds /\ state[t.of] = Outcome(t.k)
      BY DEF TokenType, Timers
    <3>. QED  BY <1>1, <1>2, <2>1, <2>3, <3>1
  <2>5. \A x \in Ds : waiting'[x] \subseteq Pool \X Nat /\ (waiting'[x] # {} => ~Settled(x)')
    BY <1>2, <1>3 DEF TokenType, Settled
  <2>. QED  BY <1>3, <2>2, <2>4, <2>5 DEF TokenType
<1>8. ASSUME NEW p \in Pool, NEW n \in Nat, NEW x \in Ds
      PROVE  Comes(p, n, x)' <=> ComesOf(ts, p, n, x)
  <2>1. (\E t \in Told(d, k, waiting[d]) : t.p = p /\ t.depth = n /\ t.of = x)
          <=> x = d /\ <<p, n>> \in waiting[d]
    <3>1. ASSUME NEW t \in Told(d, k, waiting[d]), t.p = p, t.depth = n, t.of = x
          PROVE  x = d /\ <<p, n>> \in waiting[d]
      BY <1>5, <1>6, <3>1
    <3>2. ASSUME <<p, n>> \in waiting[d]
          PROVE  \E t \in Told(d, k, waiting[d]) : t.p = p /\ t.depth = n /\ t.of = d
      <4>1. PICK t : t = [p |-> p, depth |-> n, k |-> k, of |-> d]
        OBVIOUS
      <4>2. t \in Told(d, k, waiting[d])
        BY <1>6, <3>2, <4>1
      <4>. QED  BY <4>1, <4>2
    <3>. QED  BY <3>1, <3>2
  <2>2. <<p, n>> \in waiting'[x] <=> x # d /\ <<p, n>> \in waiting[x]
    BY <1>2, <1>3
  <2>. QED  BY <1>1, <2>1, <2>2 DEF Comes, ComesOf
<1>. QED  BY <1>2, <1>4, <1>7, <1>8

LEMMA AwaitTokens ==
  ASSUME TokenType, state' = state, NEW d \in Ds, NEW p \in Pool, NEW n \in Nat, Await(d, p, n),
         state[d] \in {"pending", "resolved", "rejected"}
  PROVE  /\ TokenType' /\ Forward
         /\ \A q \in Pool, m \in Nat, x \in Ds :
              Comes(q, m, x)' <=> Comes(q, m, x) \/ (q = p /\ m = n /\ x = d)
<1>1. CASE state[d] = "pending"
  <2>1. waiting' = [waiting EXCEPT ![d] = @ \cup {<<p, n>>}] /\ timers' = timers
    BY <1>1 DEF Await
  <2>2. DOMAIN waiting' = Ds /\ \A x \in Ds : waiting'[x] = IF x = d THEN waiting[d] \cup {<<p, n>>} ELSE waiting[x]
    BY <2>1 DEF TokenType
  <2>3. <<p, n>> \in Pool \X Nat
    OBVIOUS
  <2>4. TokenType'
    BY <1>1, <2>1, <2>2, <2>3 DEF TokenType, Settled
  <2>5. \A q \in Pool, m \in Nat, x \in Ds :
              Comes(q, m, x)' <=> Comes(q, m, x) \/ (q = p /\ m = n /\ x = d)
    BY <2>1, <2>2 DEF Comes
  <2>. QED  BY <2>4, <2>5 DEF Forward
<1>2. CASE state[d] # "pending"
  <2>1. PICK k \in Kinds : k = IF state[d] = "resolved" THEN "done" ELSE "fail"
    BY DEF Kinds
  <2>2. PICK t : t = [p |-> p, depth |-> n, k |-> k, of |-> d]
    OBVIOUS
  <2>3. waiting' = waiting /\ timers' = timers \cup {t}
    <3>1. <<p, n>>[1] = p /\ <<p, n>>[2] = n
      OBVIOUS
    <3>2. \A u : u \in Told(d, k, {<<p, n>>}) <=> u = t
      BY <2>2, <3>1 DEF Told
    <3>3. Told(d, k, {<<p, n>>}) = {t}
      BY <3>2
    <3>. QED  BY <1>2, <2>1, <3>3 DEF Await
  <2>4. t \in Timers /\ t.of = d /\ t.p = p /\ t.depth = n /\ state[d] = Outcome(t.k)
    BY <1>2, <2>1, <2>2 DEF Timers, Outcome, Kinds
  <2>5. TokenType'
    BY <2>3, <2>4 DEF TokenType, Settled
  <2>6. \A q \in Pool, m \in Nat, x \in Ds :
              Comes(q, m, x)' <=> Comes(q, m, x) \/ (q = p /\ m = n /\ x = d)
    BY <2>3, <2>4 DEF Comes
  <2>. QED  BY <2>5, <2>6 DEF Forward
<1>. QED  BY <1>1, <1>2

(* A timer dropped takes one word away. *)
LEMMA DropTokens ==
  ASSUME TokenType, NEW t \in timers, NEW p \in Pool, NEW n \in Nat, NEW x \in Ds
  PROVE  /\ ComesOf(timers \ {t}, p, n, x) => Comes(p, n, x)
         /\ Comes(p, n, x) => ComesOf(timers \ {t}, p, n, x) \/ (p = t.p /\ n = t.depth /\ x = t.of)
BY DEF Comes, ComesOf

LEMMA DropKept ==
  ASSUME TokenType, NEW ts, ts \subseteq timers, timers' = ts, UNCHANGED <<state, waiting>>
  PROVE  /\ TokenType' /\ Forward
         /\ \A p \in Pool, n \in Nat, x \in Ds : Comes(p, n, x)' <=> ComesOf(ts, p, n, x)
BY DEF TokenType, Settled, Forward, Comes, ComesOf
(* process() and the `then' methods go on as they did, but for a promise that
   the step is about. *)
LEMMA CodeRuns ==
  ASSUME CodeSame(stack, stack'), NEW p
  PROVE  /\ Runs(p)' <=> Runs(p)
         /\ \A n \in Nat : Asks(p, n)' => Asks(p, n)
<1>1. ASSUME Runs(p)' PROVE Runs(p)
  BY <1>1 DEF Runs, CodeSame
<1>2. ASSUME Runs(p) PROVE Runs(p)'
  BY <1>2 DEF Runs, CodeSame
<1>3. ASSUME NEW n \in Nat, Asks(p, n)' PROVE Asks(p, n)
  BY <1>3 DEF Asks, CodeSame
<1>. QED  BY <1>1, <1>2, <1>3

(* The invariant after a step, from what it leaves of its parts. *)
LEMMA PromKept ==
  ASSUME PromInv, NEW T, T \subseteq Pool, Forward, TokenType',
         \A q \in Pool \ T : Untouched(q), \A p \in T : PromiseOK(p)',
         DOMAIN parent' = Ds, DOMAIN subs' = Ds, DOMAIN fate' = Ds,
         maxDepth' \in [Ds -> 0 .. MaxDepth],
         unused' \subseteq unused, handed' \subseteq Pool \X Nat /\ called' \subseteq handed'
  PROVE  PromInv'
<1>1. \A p \in Pool : PromiseOK(p)'
  BY Kept
<1>. QED  BY <1>1 DEF PromInv

LEMMA CalmProm ==
  ASSUME ListsInv, PromInv, Calm
  PROVE  PromInv'
<1>1. /\ UNCHANGED <<maxDepth, fate, handed, called, parent, subs, unused>>
      /\ CodeSame(stack, stack')
      /\ \/ UNCHANGED <<state, waiting, timers>>
         \/ \E d \in Ds, k \in Kinds : Over(timers, d, k) /\ (d \in Pool => subs[d] # {})
  BY DEF Calm
<1>0. DOMAIN state = Ds /\ TokenType
  BY DEF ListsInv, PromInv
<1>2. CASE UNCHANGED <<state, waiting, timers>>
  <2>1. TokenType' /\ Forward /\ \A p \in Pool, n \in Nat, x \in Ds : Comes(p, n, x)' <=> Comes(p, n, x)
    BY <1>0, <1>2 DEF TokenType, Settled, Forward, Comes
  <2>2. \A q \in Pool : Untouched(q)
    BY <1>1, <1>2, <2>1, CodeRuns DEF Untouched
  <2>3. PICK T : T = {}
    OBVIOUS
  <2>4. T \subseteq Pool /\ (\A q \in Pool \ T : Untouched(q)) /\ \A p \in T : PromiseOK(p)'
    BY <2>2, <2>3
  <2>5. /\ DOMAIN parent' = Ds /\ DOMAIN subs' = Ds /\ DOMAIN fate' = Ds
        /\ maxDepth' \in [Ds -> 0 .. MaxDepth]
        /\ unused' \subseteq unused /\ handed' \subseteq Pool \X Nat /\ called' \subseteq handed'
    BY <1>1 DEF PromInv
  <2>. QED  BY ONLY PromInv, <2>1, <2>4, <2>5, PromKept
<1>3. CASE \E d \in Ds, k \in Kinds : Over(timers, d, k) /\ (d \in Pool => subs[d] # {})
  <2>1. PICK d \in Ds, k \in Kinds : Over(timers, d, k) /\ (d \in Pool => subs[d] # {})
    BY <1>3
  <2>2. /\ TokenType' /\ Forward /\ Settled(d)' /\ state'[d] = Outcome(k)
        /\ \A x \in Ds : x # d => state'[x] = state[x]
        /\ \A p \in Pool, n \in Nat, x \in Ds : Comes(p, n, x)' <=> ComesOf(timers, p, n, x)
    BY <1>0, <2>1, OverTokens
  <2>3. \A p \in Pool, n \in Nat, x \in Ds : Comes(p, n, x)' <=> Comes(p, n, x)
    BY <2>2 DEF Comes, ComesOf
  <2>4. \A q \in Pool \ {d} : Untouched(q)
    BY <1>1, <2>2, <2>3, CodeRuns, DeferredAssumption DEF Untouched
  <2>5. ASSUME d \in Pool PROVE PromiseOK(d)'
    <3>1. PromiseOK(d) /\ subs[d] # {}
      BY <2>1, <2>5 DEF PromInv
    <3>2. /\ parent[d] = <<>> /\ fate[d] = <<"open">> /\ ~Runs(d) /\ d \notin unused
          /\ \A n \in Nat : <<d, n>> \notin handed
          /\ \A n \in Nat, x \in Ds : ~Comes(d, n, x)
          /\ \A n \in Nat : ~Asks(d, n)
      <4>1. parent[d] = <<>> /\ fate[d] = <<"open">> /\ d \notin unused
        BY <3>1 DEF PromiseOK
      <4>2. ~Runs(d) /\ \A n \in Nat : <<d, n>> \notin handed
        BY <3>1, <4>1 DEF PromiseOK, HandedOK
      <4>3. \A n \in Nat, x \in Ds : ~Comes(d, n, x)
        BY <3>1, <4>1 DEF PromiseOK, Awaits
      <4>4. \A n \in Nat : n + 1 \in Nat
        OBVIOUS
      <4>. QED  BY <3>1, <4>1, <4>2, <4>3, <4>4 DEF PromiseOK
    <3>3. maxDepth[d] = 0
      BY <3>1, <3>2 DEF PromiseOK, FateOpen, FateSettled, FateFollows, FateForeign
    <3>4. /\ parent'[d] = <<>> /\ fate'[d] = <<"open">> /\ ~Runs(d)' /\ d \notin unused'
          /\ \A n \in Nat : <<d, n>> \notin handed'
          /\ \A n \in Nat, x \in Ds : ~Comes(d, n, x)'
          /\ \A n \in Nat : ~Asks(d, n)'
          /\ maxDepth'[d] = 0 /\ subs'[d] # {}
      BY ONLY <1>1, <2>3, <2>5, <3>1, <3>2, <3>3, CodeRuns
    <3>5. FateOpen(d)'
      BY ONLY <3>4 DEF FateOpen
    <3>. QED  BY ONLY <3>4, <3>5 DEF PromiseOK
  <2>. DEFINE T == {d} \cap Pool
  <2>6. T \subseteq Pool /\ (\A q \in Pool \ T : Untouched(q)) /\ \A p \in T : PromiseOK(p)'
    BY <2>4, <2>5
  <2>7. /\ DOMAIN parent' = Ds /\ DOMAIN subs' = Ds /\ DOMAIN fate' = Ds
        /\ maxDepth' \in [Ds -> 0 .. MaxDepth]
        /\ unused' \subseteq unused /\ handed' \subseteq Pool \X Nat /\ called' \subseteq handed'
    BY <1>1 DEF PromInv
  <2>. HIDE DEF T
  <2>. QED  BY ONLY PromInv, <2>2, <2>6, <2>7, PromKept
<1>. QED  BY <1>1, <1>2, <1>3

(* then() makes a promise that the deferred's end is to bring a word for. *)
LEMMA ThenProm ==
  ASSUME ListsInv, PromInv, NEW d \in Ds, NEW p \in Pool, Then(d, p)
  PROVE  PromInv'
<1>1. /\ p \in unused /\ d \notin unused /\ unused' = unused \ {p}
      /\ parent' = [parent EXCEPT ![p] = <<d>>] /\ Await(d, p, 0)
      /\ UNCHANGED <<state, maxDepth, stack, handed, subs, fate, called>>
  BY DEF Then
<1>2. /\ p # d /\ p \in Ds /\ DOMAIN parent = Ds /\ TokenType /\ PromiseOK(p)
      /\ state[d] \in {"pending", "resolved", "rejected"}
  BY <1>1, DeferredAssumption DEF PromInv, ListsInv, DefOK
<1>3. /\ TokenType' /\ Forward
      /\ \A q \in Pool, m \in Nat, x \in Ds :
           Comes(q, m, x)' <=> Comes(q, m, x) \/ (q = p /\ m = 0 /\ x = d)
  BY <1>1, <1>2, AwaitTokens
<1>4. \A q \in Pool \ {p} : Untouched(q)
  <2>1. \A q \in Pool \ {p} : q \in Ds /\ parent'[q] = parent[q]
    BY <1>1, <1>2, DeferredAssumption
  <2>2. \A q : (Runs(q)' <=> Runs(q)) /\ \A n \in Nat : Asks(q, n)' <=> Asks(q, n)
    BY <1>1 DEF Runs, Asks
  <2>. QED  BY ONLY <1>1, <1>3, <2>1, <2>2 DEF Untouched
<1>5. /\ parent[p] = <<>> /\ subs[p] = {} /\ fate[p] = <<"open">> /\ ~Settled(p) /\ ~Runs(p)
      /\ \A n \in Nat : <<p, n>> \notin handed
      /\ \A n \in Nat, x \in Ds : ~Comes(p, n, x)
      /\ \A n \in Nat : ~Asks(p, n)
      /\ maxDepth[p] = 0
  <2>1. parent[p] = <<>> /\ subs[p] = {} /\ fate[p] = <<"open">> /\ ~Settled(p)
    BY <1>1, <1>2 DEF PromiseOK
  <2>2. ~Runs(p) /\ \A n \in Nat : <<p, n>> \notin handed
    BY <1>2, <2>1 DEF PromiseOK, HandedOK
  <2>3. \A n \in Nat, x \in Ds : ~Comes(p, n, x)
    BY <1>2, <2>1 DEF PromiseOK, Awaits
  <2>4. \A n \in Nat : n + 1 \in Nat
    OBVIOUS
  <2>5. maxDepth[p] = 0
    BY <1>2, <2>1 DEF PromiseOK, FateOpen, FateSettled, FateFollows, FateForeign
  <2>. QED  BY <1>2, <2>1, <2>2, <2>3, <2>4, <2>5 DEF PromiseOK
<1>6. /\ parent'[p] = <<d>> /\ <<d>> # <<>> /\ subs'[p] = {} /\ fate'[p] = <<"open">> /\ ~Settled(p)'
      /\ ~Runs(p)' /\ p \notin unused'
      /\ \A n \in Nat : <<p, n>> \notin handed'
      /\ \A n \in Nat, x \in Ds : Comes(p, n, x)' <=> n = 0 /\ x = d
      /\ \A n \in Nat : ~Asks(p, n)'
      /\ maxDepth'[p] = 0 /\ d \in Ds
  BY <1>1, <1>2, <1>3, <1>5 DEF Settled, Runs, Asks
<1>7. \A n \in Nat, x \in Ds : Comes(p, n, x)' => Awaits(p, n, x)'
  BY ONLY <1>6 DEF Awaits
<1>8. FateOpen(p)'
  BY ONLY <1>6 DEF FateOpen
<1>9. PromiseOK(p)'
  BY ONLY <1>6, <1>7, <1>8 DEF PromiseOK
<1>10. /\ DOMAIN parent' = Ds /\ DOMAIN subs' = Ds /\ DOMAIN fate' = Ds
       /\ maxDepth' \in [Ds -> 0 .. MaxDepth]
       /\ unused' \subseteq unused /\ handed' \subseteq Pool \X Nat /\ called' \subseteq handed'
  BY <1>1 DEF PromInv
<1>. DEFINE T == {p}
<1>11. T \subseteq Pool /\ (\A q \in Pool \ T : Untouched(q)) /\ \A q \in T : PromiseOK(q)'
  BY <1>4, <1>9
<1>. HIDE DEF T
<1>. QED  BY ONLY PromInv, <1>3, <1>10, <1>11, PromKept

(* when() makes a master. *)
LEMMA WhenProm ==
  ASSUME ListsInv, PromInv, StackInv, NEW S \in SUBSET Ds, NEW m \in Pool, When(S, m)
  PROVE  PromInv'
<1>1. /\ m \in unused /\ unused' = unused \ {m} /\ Cardinality(S) > 1
      /\ subs' = [subs EXCEPT ![m] = S] /\ stack' = Append(stack, Adopting(m, S))
      /\ UNCHANGED <<state, maxDepth, handed, parent, fate, called, waiting, timers>>
  BY DEF When
<1>a. S # {}
  <2>1. Cardinality({}) = 0
    BY FS_EmptySet
  <2>2. ~(0 > 1)
    OBVIOUS
  <2>. QED  BY <1>1, <2>1, <2>2
<1>2. /\ m \in Ds /\ DOMAIN subs = Ds /\ TokenType /\ PromiseOK(m) /\ S # {}
  BY <1>a, DeferredAssumption DEF PromInv
<1>3. TokenType' /\ Forward /\ \A p \in Pool, n \in Nat, x \in Ds : Comes(p, n, x)' <=> Comes(p, n, x)
  BY <1>1, <1>2 DEF TokenType, Settled, Forward, Comes
<1>4. CodeSame(stack, stack')
  <2>0. PICK f : f = Adopting(m, S)
    OBVIOUS
  <2>1. f.at = "when" /\ stack \in Seq(Frames) /\ f \in Frames /\ stack' = Append(stack, f)
    BY <1>1, <1>2, <2>0 DEF Adopting, StackInv, StackOK, Frames
  <2>2. /\ Len(stack') = Len(stack) + 1 /\ stack'[Len(stack) + 1] = f /\ Len(stack) \in Nat
        /\ \A i \in 1 .. Len(stack) : stack'[i] = stack[i] /\ i \in 1 .. Len(stack')
        /\ \A i \in 1 .. Len(stack') : i \in 1 .. Len(stack) \/ i = Len(stack) + 1
    BY ONLY <2>1
  <2>. QED  BY ONLY <2>1, <2>2 DEF CodeSame
<1>5. \A q \in Pool \ {m} : Untouched(q)
  <2>1. \A q \in Pool \ {m} : q \in Ds /\ subs'[q] = subs[q]
    BY <1>1, <1>2, DeferredAssumption
  <2>. QED  BY ONLY <1>1, <1>3, <1>4, <2>1, CodeRuns DEF Untouched
<1>6. /\ parent[m] = <<>> /\ fate[m] = <<"open">> /\ ~Settled(m)
      /\ subs'[m] # {} /\ m \notin unused'
  BY <1>1, <1>2 DEF PromiseOK
<1>7. PromiseOK(m)'
  <2>1. Runs(m)' => Runs(m)
    BY <1>4, CodeRuns
  <2>2. \A n \in Nat : Asks(m, n)' => Asks(m, n)
    BY <1>4, CodeRuns
  <2>3. ~Runs(m)' /\ \A n \in Nat : <<m, n>> \notin handed'
    BY <1>1, <1>2, <1>6, <2>1 DEF PromiseOK, HandedOK
  <2>4. \A n \in Nat, x \in Ds : ~Comes(m, n, x)'
    BY <1>2, <1>3, <1>6 DEF PromiseOK, Awaits
  <2>5. \A n \in Nat : n + 1 \in Nat
    OBVIOUS
  <2>6. \A n \in Nat : ~Asks(m, n)'
    BY <1>1, <1>2, <2>2, <2>3, <2>5 DEF PromiseOK
  <2>7. maxDepth[m] = 0
    BY <1>2, <1>6 DEF PromiseOK, FateOpen, FateSettled, FateFollows, FateForeign
  <2>8. /\ parent'[m] = <<>> /\ fate'[m] = <<"open">> /\ maxDepth'[m] = 0
    BY ONLY <1>1, <1>6, <2>7
  <2>9. FateOpen(m)'
    BY ONLY <2>8 DEF FateOpen
  <2>. QED  BY ONLY <1>6, <2>3, <2>4, <2>6, <2>8, <2>9 DEF PromiseOK
<1>10. /\ DOMAIN parent' = Ds /\ DOMAIN subs' = Ds /\ DOMAIN fate' = Ds
       /\ maxDepth' \in [Ds -> 0 .. MaxDepth]
       /\ unused' \subseteq unused /\ handed' \subseteq Pool \X Nat /\ called' \subseteq handed'
  BY <1>1 DEF PromInv
<1>. DEFINE T == {m}
<1>11. T \subseteq Pool /\ (\A q \in Pool \ T : Untouched(q)) /\ \A q \in T : PromiseOK(q)'
  BY <1>5, <1>7
<1>. HIDE DEF T
<1>. QED  BY ONLY PromInv, <1>3, <1>10, <1>11, PromKept
-----------------------------------------------------------------------------
(* Process() and then() of a stack. *)
RunsIn(stk, p) ==
  \E i \in 1 .. Len(stk) : stk[i].at = "process" /\ stk[i].d = p /\ ~stk[i].busy

AsksIn(stk, p, n) ==
  \E i \in 1 .. Len(stk) : stk[i].at = "then" /\ stk[i].d = p /\ stk[i].k = n

LEMMA CodeRunsIn ==
  ASSUME NEW a, NEW b, CodeSame(a, b)
  PROVE  \A p : /\ RunsIn(b, p) <=> RunsIn(a, p)
                /\ \A n : AsksIn(b, p, n) => AsksIn(a, p, n)
BY DEF RunsIn, AsksIn, CodeSame

LEMMA GrownRunsIn ==
  ASSUME NEW b, NEW stk, NEW d, NEW k, Grown(b, stk, d, k)
  PROVE  \A p : /\ RunsIn(stk, p) <=> RunsIn(b, p)
                /\ \A n : AsksIn(stk, p, n) => AsksIn(b, p, n)
<1>1. CodeSame(b, stk)
  BY CodeStays, CodeGrown
<1>. QED  BY <1>1, CodeRunsIn

LEMMA PushedRunsIn ==
  ASSUME NEW b \in Seq(Frames), NEW p, NEW n, ThenCall(p, n) \in Frames
  PROVE  \A q : /\ RunsIn(Append(b, ThenCall(p, n)), q) <=> RunsIn(b, q)
                /\ \A m : AsksIn(Append(b, ThenCall(p, n)), q, m) => AsksIn(b, q, m) \/ (q = p /\ m = n)
<1>1. PICK f : f = ThenCall(p, n)
  OBVIOUS
<1>2. f.at = "then" /\ f.d = p /\ f.k = n /\ f \in Frames
  BY <1>1 DEF ThenCall
<1>3. PICK stk : stk = Append(b, f)
  OBVIOUS
<1>4. /\ Len(stk) = Len(b) + 1 /\ stk[Len(b) + 1] = f
      /\ \A i \in 1 .. Len(b) : stk[i] = b[i] /\ i \in 1 .. Len(stk)
      /\ \A i \in 1 .. Len(stk) : i \in 1 .. Len(b) \/ i = Len(b) + 1
  BY <1>2, <1>3
<1>5. \A q : RunsIn(stk, q) <=> RunsIn(b, q)
  BY <1>2, <1>4 DEF RunsIn
<1>6. \A q, m : AsksIn(stk, q, m) => AsksIn(b, q, m) \/ (q = p /\ m = n)
  BY <1>2, <1>4 DEF AsksIn
<1>. QED  BY <1>1, <1>3, <1>5, <1>6

(* A step that says something of one promise. *)
About(p) ==
  /\ p \in Pool /\ parent[p] # <<>> /\ (Runs(p) \/ fate[p] # <<"open">>)
  /\ UNCHANGED <<parent, subs, unused>>
  /\ \A q \in Pool : q # p => /\ Runs(q)' <=> Runs(q)
                              /\ \A n \in Nat : Asks(q, n)' => Asks(q, n)
  /\ ~Runs(p)'
  /\ \A n \in Nat : Asks(p, n)' => <<p, n + 1>> \in handed'
  /\ \A q \in Pool, n \in Nat : q # p => (<<q, n>> \in called' <=> <<q, n>> \in called)
  /\ \A n \in Nat : <<p, n>> \in handed => <<p, n>> \in called'
  /\ called' \subseteq handed'

OthersAs(p) ==
  /\ \A q \in Ds : q # p =>
       state'[q] = state[q] /\ maxDepth'[q] = maxDepth[q] /\ fate'[q] = fate[q]
  /\ \A q \in Pool, n \in Nat : q # p =>
       /\ <<q, n>> \in handed' <=> <<q, n>> \in handed
       /\ \A d \in Ds : Comes(q, n, d)' <=> Comes(q, n, d)

LEMMA BoundProm ==
  ASSUME PromInv, NEW p, About(p), OthersAs(p), Forward, TokenType',
         maxDepth' \in [Ds -> 0 .. MaxDepth], DOMAIN fate' = Ds, handed' \subseteq Pool \X Nat,
         maxDepth'[p] >= maxDepth[p], Settled(p)' \/ maxDepth'[p] > maxDepth[p],
         \A n \in Nat, d \in Ds : Comes(p, n, d)' =>
           \/ Comes(p, n, d)
           \/ /\ n = maxDepth'[p] /\ n > maxDepth[p]
              /\ Settled(p)' \/ fate'[p] = <<"follows", d>>,
         \A n \in Nat : <<p, n>> \in handed' =>
           \/ <<p, n>> \in handed
           \/ /\ n = maxDepth'[p] /\ n > maxDepth[p]
              /\ IF <<p, n>> \in called' THEN Settled(p)' ELSE fate'[p] = <<"foreign", n>>,
         FateSettled(p)' \/ FateFollows(p)' \/ FateForeign(p)'
  PROVE  PromInv'
<1>0. PromiseOK(p) /\ p \in Pool /\ p \in Ds
  BY DeferredAssumption DEF PromInv, About
<1>m. maxDepth[p] \in Nat /\ maxDepth'[p] \in Nat
  BY <1>0, DeferredAssumption DEF PromInv
<1>1. parent'[p] = parent[p] /\ parent[p] # <<>> /\ subs'[p] = subs[p] /\ unused' = unused
  BY DEF About
<1>2. \A n \in Nat, d \in Ds : Comes(p, n, d) => n # 0 /\ n <= maxDepth[p]
  BY <1>0 DEF PromiseOK, Awaits, About
<1>3. \A n \in Nat, d \in Ds : Comes(p, n, d)' => Awaits(p, n, d)'
  <2>. SUFFICES ASSUME NEW n \in Nat, NEW d \in Ds, Comes(p, n, d)' PROVE Awaits(p, n, d)'
    OBVIOUS
  <2>1. n # 0 /\ n <= maxDepth'[p]
    BY <1>2, <1>m
  <2>2. n = maxDepth'[p] /\ ~Settled(p)' => fate'[p] = <<"follows", d>>
    BY <1>2, <1>m
  <2>. QED  BY ONLY <1>1, <2>1, <2>2 DEF Awaits
<1>4. \A n \in Nat : <<p, n>> \in handed => n \in 1 .. maxDepth[p]
  BY <1>0 DEF PromiseOK, HandedOK
<1>5. \A n \in Nat : <<p, n>> \in handed' => HandedOK(p, n)'
  <2>. SUFFICES ASSUME NEW n \in Nat, <<p, n>> \in handed' PROVE HandedOK(p, n)'
    OBVIOUS
  <2>1. CASE <<p, n>> \in handed
    <3>1. <<p, n>> \in called' /\ n \in 1 .. maxDepth[p]
      BY <1>4, <2>1 DEF About
    <3>2. n \in 1 .. maxDepth'[p] /\ (Settled(p)' \/ n < maxDepth'[p])
      BY <1>m, <3>1
    <3>. QED  BY ONLY <1>1, <3>1, <3>2 DEF HandedOK
  <2>2. CASE /\ n = maxDepth'[p] /\ n > maxDepth[p]
             /\ IF <<p, n>> \in called' THEN Settled(p)' ELSE fate'[p] = <<"foreign", n>>
    <3>1. n \in 1 .. maxDepth'[p]
      BY <1>m, <2>2
    <3>. QED  BY ONLY <1>1, <2>2, <3>1 DEF HandedOK
  <2>. QED  BY <2>1, <2>2
<1>6. PromiseOK(p)'
  <2>1. p \notin unused' /\ subs'[p] = {} /\ parent'[p] # <<>> /\ \E d \in Ds : parent'[p] = <<d>>
    BY <1>0, <1>1 DEF PromiseOK
  <2>2. ~Runs(p)' /\ \A n \in Nat : Asks(p, n)' => <<p, n + 1>> \in handed'
    BY DEF About
  <2>3. FateSettled(p)' \/ FateFollows(p)' \/ FateForeign(p)'
    OBVIOUS
  <2>. QED  BY ONLY <1>3, <1>5, <2>1, <2>2, <2>3 DEF PromiseOK
<1>7. \A q \in Pool \ {p} : Untouched(q)
  <2>1. Pool \subseteq Ds
    BY DeferredAssumption
  <2>. QED  BY ONLY About(p), OthersAs(p), <2>1 DEF About, OthersAs, Untouched
<1>8. /\ DOMAIN parent' = Ds /\ DOMAIN subs' = Ds /\ DOMAIN fate' = Ds
      /\ unused' \subseteq unused /\ called' \subseteq handed'
  BY DEF PromInv, About
<1>. DEFINE T == {p}
<1>9. T \subseteq Pool /\ (\A q \in Pool \ T : Untouched(q)) /\ \A q \in T : PromiseOK(q)'
  BY <1>0, <1>6, <1>7
<1>. HIDE DEF T
<1>10. Forward /\ TokenType' /\ maxDepth' \in [Ds -> 0 .. MaxDepth] /\ handed' \subseteq Pool \X Nat
  OBVIOUS
<1>. QED  BY ONLY PromInv, <1>8, <1>9, <1>10, PromKept
(* A promise about which something is said: what its fate leaves open. *)
LEMMA AboutFacts ==
  ASSUME PromInv, NEW p, About(p)
  PROVE  /\ p \in Pool /\ p \in Ds /\ PromiseOK(p) /\ maxDepth[p] \in 0 .. MaxDepth
         /\ MaxDepth \in Nat /\ TokenType
         /\ Settled(p) => FateSettled(p) \/ FateFollows(p)
BY DeferredAssumption DEF PromInv, About, PromiseOK, FateOpen, FateForeign

(* It is settled. *)
LEMMA SettledProm ==
  ASSUME PromInv, DOMAIN state = Ds, NEW p, About(p), NEW k \in Kinds, ~Settled(p),
         NEW ts, ts \subseteq timers, Over(ts, p, k),
         \A q \in Pool, n \in Nat, d \in Ds : q # p => (ComesOf(ts, q, n, d) <=> Comes(q, n, d)),
         UNCHANGED <<maxDepth, handed>>, DOMAIN fate' = Ds,
         \A q \in Ds : q # p => fate'[q] = fate[q],
         \/ fate'[p] = <<"settled", k>>
         \/ \E e \in Ds : fate'[p] = <<"follows", e>> /\ state[e] = Outcome(k) /\ maxDepth[p] # 0
  PROVE  PromInv'
<1>0. p \in Pool /\ p \in Ds /\ PromiseOK(p) /\ maxDepth[p] \in Nat /\ TokenType
  BY AboutFacts
<1>1. /\ TokenType' /\ Forward /\ Settled(p)' /\ state'[p] = Outcome(k)
      /\ \A x \in Ds : x # p => state'[x] = state[x]
      /\ \A q \in Pool, n \in Nat, x \in Ds : Comes(q, n, x)' <=> ComesOf(ts, q, n, x)
  BY <1>0, OverTokens
<1>2. OthersAs(p)
  BY <1>1 DEF OthersAs
<1>3. \A n \in Nat, d \in Ds : Comes(p, n, d)' => Comes(p, n, d)
  BY <1>0, <1>1 DEF ComesOf, Comes
<1>4. FateSettled(p)' \/ FateFollows(p)'
  <2>1. CASE fate'[p] = <<"settled", k>>
    <3>1. FateSettled(p)'
      BY ONLY <1>1, <2>1, k \in Kinds DEF FateSettled
    <3>. QED  BY <3>1
  <2>2. CASE \E e \in Ds : fate'[p] = <<"follows", e>> /\ state[e] = Outcome(k) /\ maxDepth[p] # 0
    <3>1. PICK e \in Ds : fate'[p] = <<"follows", e>> /\ state[e] = Outcome(k) /\ maxDepth[p] # 0
      BY <2>2
    <3>2. state'[e] = state[e]
      BY <1>1, <3>1, KindFacts DEF Forward, Settled
    <3>3. maxDepth'[p] = maxDepth[p]
      OBVIOUS
    <3>4. FateFollows(p)'
      BY ONLY <1>0, <1>1, <3>1, <3>2, <3>3 DEF FateFollows
    <3>. QED  BY <3>4
  <2>. QED  BY <2>1, <2>2
<1>5. /\ maxDepth' \in [Ds -> 0 .. MaxDepth] /\ handed' \subseteq Pool \X Nat /\ handed' = handed
      /\ maxDepth'[p] >= maxDepth[p] /\ maxDepth' = maxDepth
  BY <1>0 DEF PromInv
<1>6. DOMAIN fate' = Ds
  OBVIOUS
<1>. QED  BY ONLY PromInv, About(p), <1>1, <1>2, <1>3, <1>4, <1>5, <1>6, BoundProm

(* It is led on to a thenable of the library's. *)
LEMMA LedOnProm ==
  ASSUME PromInv, NEW p, About(p), NEW e \in Ds, UNCHANGED <<state, handed>>,
         state[e] \in {"pending", "resolved", "rejected"},
         maxDepth[p] # MaxDepth, maxDepth' = [maxDepth EXCEPT ![p] = @ + 1],
         Await(e, p, maxDepth[p] + 1),
         IF Settled(p) THEN fate' = fate
         ELSE fate' = [fate EXCEPT ![p] = <<"follows", e>>]
  PROVE  PromInv'
<1>0. p \in Pool /\ p \in Ds /\ PromiseOK(p) /\ TokenType
      /\ maxDepth[p] \in 0 .. MaxDepth /\ MaxDepth \in Nat
  BY AboutFacts
<1>1. PICK n \in Nat : n = maxDepth[p] + 1
  BY <1>0
<1>2. /\ TokenType' /\ Forward
      /\ \A q \in Pool, m \in Nat, x \in Ds :
           Comes(q, m, x)' <=> Comes(q, m, x) \/ (q = p /\ m = n /\ x = e)
  BY <1>0, <1>1, AwaitTokens
<1>3. maxDepth \in [Ds -> 0 .. MaxDepth] /\ DOMAIN fate = Ds /\ handed \subseteq Pool \X Nat
  BY DEF PromInv
<1>4. /\ maxDepth' \in [Ds -> 0 .. MaxDepth] /\ maxDepth'[p] = n
      /\ \A q \in Ds : q # p => maxDepth'[q] = maxDepth[q]
  BY ONLY <1>0, <1>1, <1>3, maxDepth' = [maxDepth EXCEPT ![p] = @ + 1], maxDepth[p] # MaxDepth
<1>5. DOMAIN fate' = Ds /\ \A q \in Ds : q # p => fate'[q] = fate[q]
  BY <1>3
<1>6. OthersAs(p)
  BY <1>2, <1>4, <1>5, DeferredAssumption DEF OthersAs
<1>7. Settled(p)' <=> Settled(p)
  BY DEF Settled
<1>8. \A m \in Nat, d \in Ds : Comes(p, m, d)' =>
        \/ Comes(p, m, d)
        \/ /\ m = maxDepth'[p] /\ m > maxDepth[p]
           /\ Settled(p)' \/ fate'[p] = <<"follows", d>>
  <2>1. n > maxDepth[p]
    BY <1>0, <1>1
  <2>2. ~Settled(p)' => fate'[p] = <<"follows", e>>
    BY <1>0, <1>3, <1>7
  <2>. QED  BY ONLY <1>0, <1>2, <1>4, <2>1, <2>2
<1>9. FateSettled(p)' \/ FateFollows(p)'
  <2>1. CASE Settled(p)
    <3>1. fate' = fate /\ state' = state
      BY <2>1
    <3>2. FateSettled(p) \/ FateFollows(p)
      BY <2>1, AboutFacts
    <3>3. FateSettled(p) => FateSettled(p)'
      BY <3>1 DEF FateSettled
    <3>4. FateFollows(p) => FateFollows(p)'
      <4>1. n # 0
        BY <1>0, <1>1
      <4>. QED  BY ONLY <1>4, <1>7, <2>1, <3>1, <4>1, n \in Nat DEF FateFollows
    <3>. QED  BY <3>2, <3>3, <3>4
  <2>2. CASE ~Settled(p)
    <3>1. fate'[p] = <<"follows", e>> /\ n # 0 /\ Comes(p, n, e)'
      BY <1>0, <1>1, <1>2, <1>3, <2>2
    <3>2. FateFollows(p)'
      BY ONLY <1>4, <1>7, <2>2, <3>1, n \in Nat, e \in Ds DEF FateFollows
    <3>. QED  BY <3>2
  <2>. QED  BY <2>1, <2>2
<1>10. /\ handed' \subseteq Pool \X Nat /\ handed' = handed
       /\ maxDepth'[p] >= maxDepth[p] /\ maxDepth'[p] > maxDepth[p]
  BY <1>0, <1>1, <1>3, <1>4
<1>11. \A m \in Nat : <<p, m>> \in handed' => <<p, m>> \in handed
  BY <1>10
<1>. QED  BY ONLY PromInv, About(p), <1>2, <1>4, <1>5, <1>6, <1>8, <1>9, <1>10, <1>11, BoundProm

(* It is given to an object of the user's. *)
LEMMA GivenProm ==
  ASSUME PromInv, NEW p, About(p), UNCHANGED <<state, waiting, timers>>,
         maxDepth[p] # MaxDepth, maxDepth' = [maxDepth EXCEPT ![p] = @ + 1],
         handed' = handed \cup {<<p, maxDepth[p] + 1>>},
         IF Settled(p) THEN fate' = fate /\ <<p, maxDepth[p] + 1>> \in called'
         ELSE /\ fate' = [fate EXCEPT ![p] = <<"foreign", maxDepth[p] + 1>>]
              /\ <<p, maxDepth[p] + 1>> \notin called'
  PROVE  PromInv'
<1>0. p \in Pool /\ p \in Ds /\ PromiseOK(p) /\ TokenType
      /\ maxDepth[p] \in 0 .. MaxDepth /\ MaxDepth \in Nat
  BY AboutFacts
<1>1. PICK n \in Nat : n = maxDepth[p] + 1
  BY <1>0
<1>2. /\ TokenType' /\ Forward
      /\ \A q \in Pool, m \in Nat, x \in Ds : Comes(q, m, x)' <=> Comes(q, m, x)
  BY <1>0 DEF TokenType, Forward, Comes, Settled
<1>3. maxDepth \in [Ds -> 0 .. MaxDepth] /\ DOMAIN fate = Ds /\ handed \subseteq Pool \X Nat
  BY DEF PromInv
<1>4. /\ maxDepth' \in [Ds -> 0 .. MaxDepth] /\ maxDepth'[p] = n
      /\ \A q \in Ds : q # p => maxDepth'[q] = maxDepth[q]
  BY ONLY <1>0, <1>1, <1>3, maxDepth' = [maxDepth EXCEPT ![p] = @ + 1], maxDepth[p] # MaxDepth
<1>5. DOMAIN fate' = Ds /\ \A q \in Ds : q # p => fate'[q] = fate[q]
  BY <1>3
<1>6. OthersAs(p)
  <2>1. \A q \in Pool, m \in Nat : q # p => (<<q, m>> \in handed' <=> <<q, m>> \in handed)
    OBVIOUS
  <2>. QED  BY <1>2, <1>4, <1>5, <2>1 DEF OthersAs
<1>7. Settled(p)' <=> Settled(p)
  BY DEF Settled
<1>8. IF Settled(p) THEN fate' = fate /\ <<p, n>> \in called'
      ELSE fate'[p] = <<"foreign", n>> /\ <<p, n>> \notin called'
  BY <1>0, <1>1, <1>3
<1>9. FateSettled(p)' \/ FateFollows(p)' \/ FateForeign(p)'
  <2>1. CASE Settled(p)
    <3>1. fate' = fate /\ state' = state
      BY <2>1
    <3>2. FateSettled(p) \/ FateFollows(p)
      BY <2>1, AboutFacts
    <3>3. FateSettled(p) => FateSettled(p)'
      BY <3>1 DEF FateSettled
    <3>4. FateFollows(p) => FateFollows(p)'
      <4>1. n # 0
        BY <1>0, <1>1
      <4>. QED  BY ONLY <1>4, <1>7, <2>1, <3>1, <4>1, n \in Nat DEF FateFollows
    <3>. QED  BY <3>2, <3>3, <3>4
  <2>2. CASE ~Settled(p)
    <3>1. <<p, n>> \in handed'
      BY <1>1
    <3>2. FateForeign(p)'
      BY ONLY <1>4, <1>7, <1>8, <2>2, <3>1 DEF FateForeign
    <3>. QED  BY <3>2
  <2>. QED  BY <2>1, <2>2
<1>10. /\ handed' \subseteq Pool \X Nat
       /\ maxDepth'[p] >= maxDepth[p] /\ maxDepth'[p] > maxDepth[p]
  BY <1>0, <1>1, <1>3, <1>4
<1>11. \A m \in Nat : <<p, m>> \in handed' =>
         \/ <<p, m>> \in handed
         \/ /\ m = maxDepth'[p] /\ m > maxDepth[p]
            /\ IF <<p, m>> \in called' THEN Settled(p)' ELSE fate'[p] = <<"foreign", m>>
  <2>1. \A m \in Nat : <<p, m>> \in handed' => <<p, m>> \in handed \/ m = n
    BY <1>1
  <2>. QED  BY <1>4, <1>7, <1>8, <1>10, <2>1
<1>12. \A m \in Nat, d \in Ds : Comes(p, m, d)' => Comes(p, m, d)
  BY <1>0, <1>2
<1>. QED  BY ONLY PromInv, About(p), <1>2, <1>4, <1>5, <1>6, <1>9, <1>10, <1>11, <1>12, BoundProm
-----------------------------------------------------------------------------
(* The steps of then(), on lists and stack. *)
LEMMA ListsKept ==
  ASSUME Base, UNCHANGED <<state, value, lists, subs>>
  PROVE  ListsInv' /\ \A b, c : Same(c, b, lists, lists) => Same(c, b, lists, lists')
<1>1. Entries' = Entries
  BY DEF Entries, Masters
<1>2. ListsInv'
  BY <1>1 DEF Base, ListsInv
<1>. QED  BY <1>2 DEF Same

LEMMA StackMoved ==
  ASSUME Base, UNCHANGED <<state, value, lists, subs, threw>>, NEW b, Same(stack, b, lists, lists),
         stack' = b
  PROVE  Base'
<1>1. Same(b, stack', lists, lists')
  BY DEF Same
<1>2. StackInv'
  BY <1>1, StackKept DEF Base
<1>. QED  BY <1>2, ListsKept DEF Base

LEMMA PushedBase ==
  ASSUME Base, UNCHANGED <<state, value, lists, threw>>, NEW f,
         Masters \subseteq Masters', NEW b, Same(stack, b, lists, lists),
         stack' = Append(b, f), FrameOK(f)', f.at # "list", f.at = "process" => b = <<>>
  PROVE  Base'
<1>1. StackOK(b, lists) /\ (~threw => Complete(b, lists)) /\ b \in Seq(Frames) /\ f \in Frames
  BY DEF Base, StackInv, Same, StackOK, FrameOK
<1>2. /\ stack' \in Seq(Frames) /\ Len(stack') = Len(b) + 1 /\ stack'[Len(b) + 1] = f /\ Len(b) \in Nat
      /\ \A i \in 1 .. Len(b) : stack'[i] = b[i] /\ i \in 1 .. Len(stack')
      /\ \A i \in 1 .. Len(stack') : i \in 1 .. Len(b) \/ i = Len(b) + 1
      /\ b = <<>> => Len(b) = 0
  BY ONLY <1>1, stack' = Append(b, f)
<1>3. \A g : FrameOK(g) => FrameOK(g)'
  BY DEF FrameOK
<1>4. StackOK(stack, lists)'
  <2>1. \A i \in 1 .. Len(stack') :
          /\ FrameOK(stack[i])'
          /\ stack'[i].at = "process" => i = 1
          /\ stack'[i].at = "list" => lists'[stack'[i].d][stack'[i].k].firing
    <3>1. \A i \in 1 .. Len(b) : FrameOK(b[i])'
      BY <1>1, <1>3 DEF StackOK
    <3>2. \A i \in 1 .. Len(stack') : FrameOK(stack[i])'
      BY <1>2, <3>1
    <3>. QED  BY <1>1, <1>2, <3>2 DEF StackOK
  <2>2. \A i, j \in 1 .. Len(stack') :
          stack'[i].at = "list" /\ IsList(stack'[j], stack'[i].d, stack'[i].k) => i = j
    BY <1>1, <1>2 DEF StackOK, IsList
  <2>. QED  BY <1>2, <2>1, <2>2 DEF StackOK
<1>5. ~threw' => Complete(stack, lists)'
  <2>. SUFFICES ASSUME ~threw, NEW d \in Ds, NEW k \in AllKinds, lists[d][k].firing
                PROVE  OnStack(stack', d, k)
    BY DEF Complete
  <2>1. PICK i \in 1 .. Len(b) : IsList(b[i], d, k)
    BY <1>1 DEF Complete, OnStack
  <2>. QED  BY <1>2, <2>1 DEF OnStack
<1>6. StackInv'
  BY <1>4, <1>5 DEF Base, StackInv
<1>7. \A k \in AllKinds : Entries[k] \subseteq Entries'[k]
  BY DEF Entries
<1>8. ListsInv'
  BY <1>7, NoList DEF Base
<1>. QED  BY <1>6, <1>8 DEF Base

LEMMA ThenBase ==
  ASSUME Base, NEW d \in Ds, NEW p \in Pool, Then(d, p)
  PROVE  Base'
<1>1. UNCHANGED <<state, value, lists, subs, threw, stack>>
  BY DEF Then
<1>. QED  BY <1>1, StackMoved, StackSame DEF Base

LEMMA WhenBase ==
  ASSUME Base, PromInv, NEW S \in SUBSET Ds, NEW m \in Pool, When(S, m)
  PROVE  Base'
<1>1. /\ UNCHANGED <<state, value, lists, threw>> /\ Cardinality(S) > 1
      /\ subs' = [subs EXCEPT ![m] = S] /\ m \in unused
      /\ stack' = Append(stack, Adopting(m, S))
  BY DEF When
<1>2. S # {}
  <2>1. Cardinality({}) = 0 /\ ~(0 > 1)
    BY FS_EmptySet
  <2>. QED  BY <1>1, <2>1
<1>3. DOMAIN subs = Ds /\ m \in Ds /\ subs[m] = {}
  BY <1>1, DeferredAssumption DEF PromInv, PromiseOK
<1>4. Masters \subseteq Masters' /\ m \in Masters'
  BY <1>1, <1>2, <1>3 DEF Masters
<1>5. PICK f : f = Adopting(m, S)
  OBVIOUS
<1>6. FrameOK(f)' /\ f.at = "when"
  BY <1>3, <1>4, <1>5 DEF FrameOK, Frames, Adopting
<1>7. Same(stack, stack, lists, lists) /\ stack' = Append(stack, f)
  BY <1>1, <1>5, StackSame DEF Base
<1>. QED  BY <1>1, <1>4, <1>6, <1>7, PushedBase

LEMMA FiresBase ==
  ASSUME Base, PromInv, NEW t \in timers, TimerFires(t)
  PROVE  Base' /\ PromInv'
<1>1. /\ stack = <<>> /\ t.depth = 0 /\ timers' = timers \ {t}
      /\ stack' = IF Disregarded(t.p, 0) THEN <<>> ELSE <<Process(t.p)>>
      /\ UNCHANGED <<state, value, lists, waiting, maxDepth, unused, parent, subs, handed,
                     fate, called, threw>>
  BY DEF TimerFires, rest
<1>2. PICK p, d : p = t.p /\ d = t.of
  OBVIOUS
<1>3. /\ p \in Pool /\ d \in Ds /\ PromiseOK(p) /\ TokenType /\ p \in Ds
      /\ t \in Timers /\ state[d] = Outcome(t.k)
  BY <1>2, DeferredAssumption DEF PromInv, TokenType, Timers
<1>4. Comes(p, 0, d)
  BY <1>1, <1>2 DEF Comes
<1>5. Awaits(p, 0, d)
  BY <1>3, <1>4 DEF PromiseOK
<1>6. parent[p] = <<d>> /\ fate[p] = <<"open">>
  BY <1>5 DEF Awaits
<1>7. FateOpen(p)
  BY <1>3, <1>6 DEF PromiseOK, FateSettled, FateFollows, FateForeign
<1>8. maxDepth[p] = 0 /\ ~Settled(p)
  BY <1>6, <1>7 DEF FateOpen
<1>9. PICK f : f = Process(p)
  OBVIOUS
<1>10. stack' = Append(<<>>, f) /\ stack' = <<f>>
  <2>1. ~Disregarded(p, 0)
    BY <1>8 DEF Disregarded
  <2>. QED  BY <1>1, <1>2, <1>9, <2>1
<1>11. FrameOK(f)' /\ f.at = "process" /\ f.d = p /\ ~f.busy
  BY <1>3, <1>9 DEF FrameOK, Frames, Process
<1>12. Base'
  <2>1. Same(stack, <<>>, lists, lists) /\ Masters \subseteq Masters'
    BY <1>1, StackSame DEF Base, Masters
  <2>. QED  BY <1>1, <1>10, <1>11, <2>1, PushedBase
<1>13. /\ Len(stack) = 0 /\ Len(stack') = 1 /\ stack'[1] = f
  <2>1. Len(<<>>) = 0 /\ Len(<<f>>) = 1 /\ <<f>>[1] = f
    OBVIOUS
  <2>. QED  BY ONLY <2>1, <1>1, <1>10
<1>14. \A q : (Runs(q)' <=> q = p) /\ ~Runs(q) /\ \A n : ~Asks(q, n)'
  BY <1>11, <1>13 DEF Runs, Asks
<1>15. /\ TokenType' /\ Forward
       /\ \A q \in Pool, n \in Nat, x \in Ds : Comes(q, n, x)' <=> ComesOf(timers \ {t}, q, n, x)
  <2>1. timers \ {t} \subseteq timers /\ UNCHANGED <<state, waiting>>
    BY <1>1
  <2>. QED  BY <1>1, <1>3, <2>1, DropKept
<1>16. \A q \in Pool, n \in Nat, x \in Ds :
         /\ Comes(q, n, x)' => Comes(q, n, x)
         /\ Comes(q, n, x) => Comes(q, n, x)' \/ (q = p /\ n = 0)
  BY <1>1, <1>2, <1>3, <1>15, DropTokens
<1>17. \A x \in Ds : ~Comes(p, 0, x)'
  <2>. SUFFICES ASSUME NEW x \in Ds, Comes(p, 0, x)' PROVE FALSE
    OBVIOUS
  <2>1. Comes(p, 0, x) /\ ComesOf(timers \ {t}, p, 0, x)
    BY <1>3, <1>15, <1>16
  <2>2. x = d
    BY <1>3, <1>6, <2>1 DEF PromiseOK, Awaits
  <2>3. <<p, 0>> \notin waiting[d]
    BY <1>3, KindFacts DEF TokenType, Settled, Timers
  <2>4. PICK u \in timers \ {t} : u.p = p /\ u.depth = 0 /\ u.of = d
    BY <2>1, <2>2, <2>3 DEF ComesOf
  <2>5. u.k = t.k
    BY <1>3, <2>4, KindFacts DEF TokenType, Timers, Kinds, Outcome
  <2>6. u = t
    BY <1>1, <1>2, <1>3, <2>4, <2>5 DEF TokenType, Timers
  <2>. QED  BY <2>4, <2>6
<1>18. PromiseOK(p)'
  <2>1. /\ parent'[p] = <<d>> /\ <<d>> # <<>> /\ fate'[p] = <<"open">> /\ maxDepth'[p] = 0
        /\ ~Settled(p)' /\ Runs(p)' /\ subs'[p] = {} /\ p \notin unused'
    BY <1>1, <1>3, <1>6, <1>8, <1>14 DEF PromiseOK, Settled
  <2>2. \A n \in Nat, x \in Ds : Comes(p, n, x)' => Awaits(p, n, x)'
    <3>1. \A n \in Nat, x \in Ds : Awaits(p, n, x) => Awaits(p, n, x)'
      BY ONLY <1>1 DEF Awaits, Settled
    <3>. QED  BY <1>3, <1>16, <3>1 DEF PromiseOK
  <2>3. \A n \in Nat : <<p, n>> \in handed' => HandedOK(p, n)'
    <3>1. \A n \in Nat : HandedOK(p, n) => HandedOK(p, n)'
      BY ONLY <1>1 DEF HandedOK, Settled
    <3>. QED  BY <1>1, <1>3, <3>1 DEF PromiseOK
  <2>4. FateOpen(p)'
    BY ONLY <2>1, <1>3 DEF FateOpen
  <2>5. \A n \in Nat : ~Asks(p, n)'
    BY <1>14
  <2>. QED  BY ONLY <1>3, <1>17, <2>1, <2>2, <2>3, <2>4, <2>5 DEF PromiseOK
<1>19. \A q \in Pool \ {p} : Untouched(q)
  BY <1>1, <1>14, <1>16 DEF Untouched
<1>20. /\ DOMAIN parent' = Ds /\ DOMAIN subs' = Ds /\ DOMAIN fate' = Ds
       /\ maxDepth' \in [Ds -> 0 .. MaxDepth]
       /\ unused' \subseteq unused /\ handed' \subseteq Pool \X Nat /\ called' \subseteq handed'
  BY <1>1 DEF PromInv
<1>. DEFINE T == {p}
<1>21. T \subseteq Pool /\ (\A q \in Pool \ T : Untouched(q)) /\ \A q \in T : PromiseOK(q)'
  BY <1>3, <1>18, <1>19
<1>. HIDE DEF T
<1>22. PromInv'
  BY ONLY PromInv, <1>15, <1>20, <1>21, PromKept
<1>. QED  BY <1>12, <1>22
(* The ways of what is said of a promise. *)
Settles(p, k, b) ==
  /\ UNCHANGED <<maxDepth, handed>>
  /\ Grown(b, stack', p, k)
  /\ Settled(p) => Nothing(timers, b)
  /\ ~Settled(p) => Over(timers, p, k)

LeadsOn(p, e, b) ==
  /\ e \in Ds /\ maxDepth[p] # MaxDepth /\ maxDepth' = [maxDepth EXCEPT ![p] = @ + 1]
  /\ Await(e, p, maxDepth[p] + 1)
  /\ stack' = b /\ UNCHANGED <<state, handed>>

Gives(p, n, b) ==
  /\ maxDepth[p] # MaxDepth /\ maxDepth' = [maxDepth EXCEPT ![p] = @ + 1]
  /\ handed' = handed \cup {<<p, maxDepth[p] + 1>>}
  /\ stack' = Append(b, ThenCall(p, n)) /\ UNCHANGED <<state, waiting, timers>>

LEMMA SettlesBase ==
  ASSUME Base, UNCHANGED <<subs, threw, maxDepth, handed>>, NEW p \in Ds, NEW k \in Kinds, NEW v \in Vals,
         NEW b, Same(stack, b, lists, lists), Settle(p, k, v, b)
  PROVE  Base' /\ Settles(p, k, b)
<1>1. /\ ListsInv'
      /\ Same(b, stack', lists, lists')
      /\ Grown(b, stack', p, k)
      /\ Settled(p) => Nothing(timers, b)
      /\ ~Settled(p) => Ends(timers, p, k, v, b)
  BY SettleBase DEF Base, Settle, Same
<1>2. StackInv'
  BY <1>1, StackKept DEF Base
<1>3. ~Settled(p) => Over(timers, p, k)
  BY <1>1 DEF Ends, Over
<1>. QED  BY <1>1, <1>2, <1>3 DEF Base, Settles

LEMMA ResolveToBase ==
  ASSUME Base, PromInv, UNCHANGED <<subs, threw>>, NEW p \in Pool, NEW n \in Nat, NEW r \in Results(p),
         NEW b, Same(stack, b, lists, lists), ResolveTo(p, n, r, b)
  PROVE  /\ Base'
         /\ \/ FateOf(p, r) = <<"settled", "done">> /\ Settles(p, "done", b)
            \/ \E e \in Ds : FateOf(p, r) = <<"follows", e>> /\ LeadsOn(p, e, b)
            \/ FateOf(p, r) = <<"foreign", maxDepth[p] + 1>> /\ Gives(p, n, b)
<1>0. p \in Ds /\ "done" \in Kinds
  BY DeferredAssumption DEF Kinds
<1>1. \/ \E v \in Vals : r = <<"plain", v>>
      \/ maxDepth[p] # MaxDepth /\ \E e \in Ds : r = <<"promise", e>>
      \/ maxDepth[p] # MaxDepth /\ r = <<"foreign">>
  BY DEF Results
<1>2. CASE \E v \in Vals : r = <<"plain", v>>
  <2>1. PICK v \in Vals : r = <<"plain", v>>
    BY <1>2
  <2>2. Settle(p, "done", v, b) /\ UNCHANGED <<maxDepth, handed>>
    BY <2>1 DEF ResolveTo
  <2>3. Base' /\ Settles(p, "done", b)
    BY <1>0, <2>2, SettlesBase
  <2>4. FateOf(p, r) = <<"settled", "done">>
    BY <2>1 DEF FateOf
  <2>. QED  BY <2>3, <2>4
<1>3. CASE maxDepth[p] # MaxDepth /\ \E e \in Ds : r = <<"promise", e>>
  <2>1. PICK e \in Ds : r = <<"promise", e>>
    BY <1>3
  <2>2. /\ maxDepth' = [maxDepth EXCEPT ![p] = @ + 1]
        /\ Await(e, p, maxDepth[p] + 1)
        /\ stack' = b
        /\ UNCHANGED <<state, value, lists, handed>>
    BY <2>1 DEF ResolveTo
  <2>3. Base'
    BY <2>2, StackMoved
  <2>4. FateOf(p, r) = <<"follows", e>> /\ LeadsOn(p, e, b)
    BY <1>3, <2>1, <2>2 DEF FateOf, LeadsOn
  <2>. QED  BY <2>3, <2>4
<1>4. CASE maxDepth[p] # MaxDepth /\ r = <<"foreign">>
  <2>2. /\ maxDepth' = [maxDepth EXCEPT ![p] = @ + 1]
        /\ stack' = Append(b, ThenCall(p, n))
        /\ handed' = handed \cup {<<p, maxDepth[p] + 1>>}
        /\ UNCHANGED <<state, value, lists, waiting, timers>>
    BY <1>4 DEF ResolveTo
  <2>3. FateOf(p, r) = <<"foreign", maxDepth[p] + 1>> /\ Gives(p, n, b)
    BY <1>4, <2>2 DEF FateOf, Gives
  <2>4. PICK f : f = ThenCall(p, n)
    OBVIOUS
  <2>5. FrameOK(f)' /\ f.at = "then"
    BY <1>0, <2>4 DEF FrameOK, Frames, ThenCall
  <2>6. Masters \subseteq Masters' /\ stack' = Append(b, f)
    BY <2>2, <2>4 DEF Masters
  <2>7. Base'
    BY <2>2, <2>5, <2>6, PushedBase
  <2>. QED  BY <2>3, <2>7
<1>. QED  BY <1>1, <1>2, <1>3, <1>4

(* The stack below what is entered, where the promise's handler has been left. *)
StackAbout(p, b) ==
  /\ b \in Seq(Frames)
  /\ \A q : q # p => (RunsIn(b, q) <=> RunsIn(stack, q))
  /\ ~RunsIn(b, p)
  /\ \A q, n : AsksIn(b, q, n) => AsksIn(stack, q, n)

LEMMA HandledOK ==
  ASSUME Base, stack # <<>>, Top.at = "process", ~Top.busy
  PROVE  /\ Same(stack, Handled, lists, lists) /\ StackAbout(Top.d, Handled)
         /\ Top.d \in Pool /\ Runs(Top.d)
<1>1. PICK f : f = [Top EXCEPT !.busy = TRUE]
  OBVIOUS
<1>2. /\ StackOK(stack, lists) /\ Inner = Len(stack) /\ Top = stack[Len(stack)]
      /\ stack \in Seq(Frames) /\ Inner \in Nat /\ Inner # 0 /\ Inner = 1
  BY TopFacts DEF Inner, Top
<1>3. FrameOK(f) /\ f.at = "process" /\ f.d = Top.d /\ f.busy /\ Top.d \in Pool
  BY <1>1, TopFacts DEF FrameOK, Frames
<1>4. Handled = [stack EXCEPT ![Len(stack)] = f]
  BY <1>1, <1>2 DEF Handled
<1>5. /\ Same(stack, Handled, lists, lists) /\ Len(Handled) = Len(stack)
      /\ \A i \in 1 .. Len(stack) : Handled[i] = IF i = Len(stack) THEN f ELSE stack[i]
  <2>1. StackOK(stack, lists) /\ stack # <<>> /\ FrameOK(f) /\ f.at = stack[Len(stack)].at
        /\ f.d = stack[Len(stack)].d /\ (f.at = "list" => f.k = stack[Len(stack)].k)
    BY <1>2, <1>3
  <2>2. /\ Same(stack, [stack EXCEPT ![Len(stack)] = f], lists, lists)
        /\ Len([stack EXCEPT ![Len(stack)] = f]) = Len(stack)
        /\ \A i \in 1 .. Len(stack) :
             [stack EXCEPT ![Len(stack)] = f][i] = IF i = Len(stack) THEN f ELSE stack[i]
    BY ONLY <2>1, TopChanged
  <2>. QED  BY ONLY <1>4, <2>2
<1>6. Handled \in Seq(Frames)
  BY <1>5 DEF Same, StackOK
<1>7. Len(Handled) = 1 /\ Len(stack) = 1 /\ Handled[1] = f /\ stack[1] = Top
  <2>1. Len(stack) = 1 /\ stack[1] = Top /\ Len(Handled) = 1
    BY ONLY <1>2, <1>5
  <2>2. \A i \in 1 .. 1 : Handled[i] = IF i = 1 THEN f ELSE stack[i]
    BY ONLY <1>5, <2>1
  <2>3. 1 \in 1 .. 1
    OBVIOUS
  <2>. QED  BY ONLY <2>1, <2>2, <2>3
<1>8. 1 \in 1 .. 1 /\ \A i \in 1 .. 1 : i = 1
  OBVIOUS
<1>9. StackAbout(Top.d, Handled) /\ Runs(Top.d)
  <2>1. /\ \A q : ~RunsIn(Handled, q)
        /\ \A q : RunsIn(stack, q) <=> q = Top.d
        /\ \A q, n : ~AsksIn(Handled, q, n)
    BY ONLY <1>3, <1>7, <1>8, Top.at = "process", ~Top.busy DEF RunsIn, AsksIn
  <2>. QED  BY ONLY <1>6, <2>1 DEF StackAbout, Runs, RunsIn
<1>. QED  BY <1>3, <1>5, <1>9

LEMMA AboutIs ==
  ASSUME PromInv, NEW p \in Pool, parent[p] # <<>>, Runs(p) \/ fate[p] # <<"open">>,
         UNCHANGED <<parent, subs, unused>>, NEW b, StackAbout(p, b),
         \/ stack' = b
         \/ \E k \in Kinds : Grown(b, stack', p, k)
         \/ \E n \in Nat : stack' = Append(b, ThenCall(p, n)) /\ <<p, n + 1>> \in handed',
         handed \subseteq handed',
         \A q \in Pool, n \in Nat : q # p => (<<q, n>> \in called' <=> <<q, n>> \in called),
         \A n \in Nat : <<p, n>> \in handed => <<p, n>> \in called',
         called' \subseteq handed'
  PROVE  About(p)
<1>1. /\ \A q : (Runs(q)' <=> RunsIn(b, q))
      /\ \A q \in Pool, n \in Nat : Asks(q, n)' => AsksIn(b, q, n) \/ (q = p /\ <<p, n + 1>> \in handed')
  <2>0. \A q, n : (Runs(q)' <=> RunsIn(stack', q)) /\ (Asks(q, n)' <=> AsksIn(stack', q, n))
    BY DEF Runs, RunsIn, Asks, AsksIn
  <2>1. CASE stack' = b
    BY <2>0, <2>1
  <2>2. ASSUME NEW k \in Kinds, Grown(b, stack', p, k)
        PROVE  \A q : (RunsIn(stack', q) <=> RunsIn(b, q)) /\ \A n : AsksIn(stack', q, n) => AsksIn(b, q, n)
    BY <2>2, GrownRunsIn
  <2>3. ASSUME NEW n \in Nat, stack' = Append(b, ThenCall(p, n)), <<p, n + 1>> \in handed'
        PROVE  \A q : /\ RunsIn(stack', q) <=> RunsIn(b, q)
                      /\ \A m : AsksIn(stack', q, m) => AsksIn(b, q, m) \/ (q = p /\ m = n)
    <3>1. ThenCall(p, n) \in Frames /\ b \in Seq(Frames)
      BY DeferredAssumption DEF ThenCall, Frames, StackAbout
    <3>. QED  BY <2>3, <3>1, PushedRunsIn
  <2>. QED  BY <2>0, <2>1, <2>2, <2>3
<1>2. \A q, n : (Runs(q) <=> RunsIn(stack, q)) /\ (Asks(q, n) <=> AsksIn(stack, q, n))
  BY DEF Runs, RunsIn, Asks, AsksIn
<1>3. ~Runs(p)' /\ \A q : q # p => (Runs(q)' <=> Runs(q))
  BY <1>1, <1>2 DEF StackAbout
<1>4. \A q \in Pool, n \in Nat : Asks(q, n)' => Asks(q, n) \/ (q = p /\ <<p, n + 1>> \in handed')
  BY <1>1, <1>2 DEF StackAbout
<1>5. \A n \in Nat : Asks(p, n)' => <<p, n + 1>> \in handed'
  <2>1. \A n \in Nat : Asks(p, n) => <<p, n + 1>> \in handed
    BY DEF PromInv, PromiseOK
  <2>. QED  BY <1>4, <2>1
<1>. QED  BY <1>3, <1>4, <1>5 DEF About
-----------------------------------------------------------------------------
(* The steps that say something of a promise. *)
LEMMA SaidProm ==
  ASSUME ListsInv, PromInv, NEW p \in Pool, parent[p] # <<>>, Runs(p) \/ fate[p] # <<"open">>, ~Settled(p),
         NEW b, StackAbout(p, b), UNCHANGED <<parent, subs, unused>>,
         NEW F, fate' = [fate EXCEPT ![p] = F],
         \A q \in Pool, n \in Nat : q # p => (<<q, n>> \in called' <=> <<q, n>> \in called),
         \A n \in Nat : <<p, n>> \in handed => <<p, n>> \in called',
         called' \subseteq handed, <<p, maxDepth[p] + 1>> \notin called',
         \/ \E k \in Kinds : F = <<"settled", k>> /\ Settles(p, k, b)
         \/ \E e \in Ds : F = <<"follows", e>> /\ LeadsOn(p, e, b)
         \/ F = <<"foreign", maxDepth[p] + 1>> /\ Gives(p, maxDepth[p], b)
  PROVE  PromInv'
<1>0. DOMAIN state = Ds /\ DOMAIN fate = Ds /\ p \in Ds /\ maxDepth[p] \in Nat
      /\ \A d \in Ds : state[d] \in {"pending", "resolved", "rejected"}
  BY DeferredAssumption DEF ListsInv, DefOK, PromInv
<1>1. DOMAIN fate' = Ds /\ fate'[p] = F /\ \A q \in Ds : q # p => fate'[q] = fate[q]
  BY <1>0
<1>2. About(p)
  <2>1. handed \subseteq handed'
    BY DEF Settles, LeadsOn, Gives
  <2>2. \/ stack' = b
        \/ \E k \in Kinds : Grown(b, stack', p, k)
        \/ \E n \in Nat : stack' = Append(b, ThenCall(p, n)) /\ <<p, n + 1>> \in handed'
    BY <1>0 DEF Settles, LeadsOn, Gives
  <2>3. called' \subseteq handed'
    BY <2>1
  <2>. QED  BY <2>1, <2>2, <2>3, AboutIs
<1>3. ASSUME NEW k \in Kinds, F = <<"settled", k>>, Settles(p, k, b) PROVE PromInv'
  <2>1. Over(timers, p, k) /\ UNCHANGED <<maxDepth, handed>>
    BY <1>3 DEF Settles
  <2>2. \A q \in Pool, n \in Nat, d \in Ds : ComesOf(timers, q, n, d) <=> Comes(q, n, d)
    BY DEF ComesOf, Comes
  <2>3. timers \subseteq timers /\ fate'[p] = <<"settled", k>> /\ ~Settled(p)
    BY <1>1, <1>3
  <2>. QED  BY ONLY PromInv, k \in Kinds, <1>0, <1>1, <1>2, <2>1, <2>2, <2>3, SettledProm
<1>4. ASSUME NEW e \in Ds, F = <<"follows", e>>, LeadsOn(p, e, b) PROVE PromInv'
  <2>1. /\ maxDepth[p] # MaxDepth /\ maxDepth' = [maxDepth EXCEPT ![p] = @ + 1]
        /\ Await(e, p, maxDepth[p] + 1) /\ UNCHANGED <<state, handed>>
    BY <1>4 DEF LeadsOn
  <2>2. IF Settled(p) THEN fate' = fate ELSE fate' = [fate EXCEPT ![p] = <<"follows", e>>]
    BY <1>4
  <2>. QED  BY ONLY PromInv, e \in Ds, <1>0, <1>2, <2>1, <2>2, LedOnProm
<1>5. ASSUME F = <<"foreign", maxDepth[p] + 1>>, Gives(p, maxDepth[p], b) PROVE PromInv'
  <2>1. /\ maxDepth[p] # MaxDepth /\ maxDepth' = [maxDepth EXCEPT ![p] = @ + 1]
        /\ handed' = handed \cup {<<p, maxDepth[p] + 1>>}
        /\ UNCHANGED <<state, waiting, timers>>
    BY <1>5 DEF Gives
  <2>2. IF Settled(p) THEN fate' = fate /\ <<p, maxDepth[p] + 1>> \in called'
        ELSE /\ fate' = [fate EXCEPT ![p] = <<"foreign", maxDepth[p] + 1>>]
             /\ <<p, maxDepth[p] + 1>> \notin called'
    BY <1>5
  <2>. QED  BY ONLY PromInv, <1>2, <2>1, <2>2, GivenProm
<1>. QED  BY <1>3, <1>4, <1>5

(* What is said of a promise that has ended, by functions already called. *)
LEMMA VoidProm ==
  ASSUME ListsInv, PromInv, NEW p \in Pool, parent[p] # <<>>, Settled(p),
         \A n \in Nat : <<p, n>> \in handed => <<p, n>> \in called,
         StackAbout(p, stack), UNCHANGED <<parent, subs, unused, fate>>,
         called' = called \cup (handed' \ handed),
         \/ \E e \in Ds : LeadsOn(p, e, stack)
         \/ Gives(p, maxDepth[p], stack)
  PROVE  PromInv'
<1>0. /\ PromiseOK(p) /\ p \in Ds /\ maxDepth[p] \in Nat /\ called \subseteq handed
      /\ handed \subseteq Pool \X Nat
      /\ \A d \in Ds : state[d] \in {"pending", "resolved", "rejected"}
  BY DeferredAssumption DEF PromInv, ListsInv, DefOK
<1>1. fate[p] # <<"open">>
  BY <1>0 DEF PromiseOK, FateOpen, FateSettled, FateFollows, FateForeign
<1>2. handed \subseteq handed' /\ \A h \in handed' : h \in handed \/ h = <<p, maxDepth[p] + 1>>
  BY DEF LeadsOn, Gives
<1>3. About(p)
  <2>1. \/ stack' = stack
        \/ \E k \in Kinds : Grown(stack, stack', p, k)
        \/ \E n \in Nat : stack' = Append(stack, ThenCall(p, n)) /\ <<p, n + 1>> \in handed'
    BY <1>0 DEF LeadsOn, Gives
  <2>2. \A q \in Pool, n \in Nat : q # p => (<<q, n>> \in called' <=> <<q, n>> \in called)
    BY <1>2
  <2>3. (\A n \in Nat : <<p, n>> \in handed => <<p, n>> \in called') /\ called' \subseteq handed'
    BY <1>0, <1>2
  <2>. QED  BY <1>1, <1>2, <2>1, <2>2, <2>3, AboutIs
<1>4. ASSUME NEW e \in Ds, LeadsOn(p, e, stack) PROVE PromInv'
  <2>1. /\ maxDepth[p] # MaxDepth /\ maxDepth' = [maxDepth EXCEPT ![p] = @ + 1]
        /\ Await(e, p, maxDepth[p] + 1) /\ UNCHANGED <<state, handed>>
    BY <1>4 DEF LeadsOn
  <2>2. IF Settled(p) THEN fate' = fate ELSE fate' = [fate EXCEPT ![p] = <<"follows", e>>]
    OBVIOUS
  <2>. QED  BY ONLY PromInv, e \in Ds, <1>0, <1>3, <2>1, <2>2, LedOnProm
<1>5. ASSUME Gives(p, maxDepth[p], stack) PROVE PromInv'
  <2>1. /\ maxDepth[p] # MaxDepth /\ maxDepth' = [maxDepth EXCEPT ![p] = @ + 1]
        /\ handed' = handed \cup {<<p, maxDepth[p] + 1>>}
        /\ UNCHANGED <<state, waiting, timers>>
    BY <1>5 DEF Gives
  <2>2. \A n \in Nat : <<p, n>> \in handed => n <= maxDepth[p]
    BY <1>0 DEF PromiseOK, HandedOK
  <2>3. <<p, maxDepth[p] + 1>> \in called'
    <3>1. maxDepth[p] + 1 \in Nat /\ ~(maxDepth[p] + 1 <= maxDepth[p])
      BY <1>0
    <3>. QED  BY <2>1, <2>2, <3>1
  <2>4. IF Settled(p) THEN fate' = fate /\ <<p, maxDepth[p] + 1>> \in called'
        ELSE /\ fate' = [fate EXCEPT ![p] = <<"foreign", maxDepth[p] + 1>>]
             /\ <<p, maxDepth[p] + 1>> \notin called'
    BY <2>3
  <2>. QED  BY ONLY PromInv, <1>3, <2>1, <2>4, GivenProm
<1>. QED  BY <1>4, <1>5

LEMMA RunsFacts ==
  ASSUME PromInv, NEW p \in Pool, Runs(p)
  PROVE  /\ parent[p] # <<>> /\ ~Settled(p) /\ maxDepth[p] = 0
         /\ \A n \in Nat : <<p, n>> \notin handed
         /\ called \subseteq handed
<1>1. PromiseOK(p)
  BY DEF PromInv
<1>2. parent[p] # <<>> /\ fate[p] = <<"open">>
  BY <1>1 DEF PromiseOK
<1>3. FateOpen(p)
  BY <1>1, <1>2 DEF PromiseOK, FateSettled, FateFollows, FateForeign
<1>4. \A n \in Nat : <<p, n>> \notin handed
  BY <1>1, <1>2, <1>3 DEF PromiseOK, HandedOK, FateOpen
<1>. QED  BY <1>2, <1>3, <1>4 DEF FateOpen, PromInv

LEMMA HandlerReturnsBase ==
  ASSUME Base, PromInv, NEW r, HandlerReturns(r)
  PROVE  Base' /\ PromInv'
<1>1. /\ stack # <<>> /\ Top.at = "process" /\ ~Top.busy /\ r \in Results(Top.d)
      /\ ResolveTo(Top.d, 0, r, Handled)
      /\ fate' = [fate EXCEPT ![Top.d] = FateOf(Top.d, r)]
      /\ UNCHANGED <<unused, parent, subs, called, threw>>
  BY DEF HandlerReturns
<1>2. PICK p : p = Top.d
  OBVIOUS
<1>3. Same(stack, Handled, lists, lists) /\ StackAbout(p, Handled) /\ p \in Pool /\ Runs(p)
  BY <1>1, <1>2, HandledOK
<1>4. /\ parent[p] # <<>> /\ ~Settled(p) /\ maxDepth[p] = 0
      /\ \A n \in Nat : <<p, n>> \notin handed
      /\ called \subseteq handed
  BY <1>3, RunsFacts
<1>5. PICK b : b = Handled
  OBVIOUS
<1>6. /\ Base'
      /\ \/ FateOf(p, r) = <<"settled", "done">> /\ Settles(p, "done", b)
         \/ \E e \in Ds : FateOf(p, r) = <<"follows", e>> /\ LeadsOn(p, e, b)
         \/ FateOf(p, r) = <<"foreign", maxDepth[p] + 1>> /\ Gives(p, 0, b)
  <2>1. /\ Same(stack, b, lists, lists) /\ ResolveTo(p, 0, r, b) /\ r \in Results(p) /\ p \in Pool
        /\ UNCHANGED <<subs, threw>> /\ 0 \in Nat
    BY <1>1, <1>2, <1>3, <1>5
  <2>. QED  BY ONLY Base, PromInv, <2>1, ResolveToBase
<1>7. PICK F : F = FateOf(p, r)
  OBVIOUS
<1>8. \/ \E k \in Kinds : F = <<"settled", k>> /\ Settles(p, k, b)
      \/ \E e \in Ds : F = <<"follows", e>> /\ LeadsOn(p, e, b)
      \/ F = <<"foreign", maxDepth[p] + 1>> /\ Gives(p, maxDepth[p], b)
  BY <1>4, <1>6, <1>7 DEF Kinds
<1>9. /\ \A q \in Pool, n \in Nat : q # p => (<<q, n>> \in called' <=> <<q, n>> \in called)
      /\ \A n \in Nat : <<p, n>> \in handed => <<p, n>> \in called'
      /\ called' \subseteq handed /\ <<p, maxDepth[p] + 1>> \notin called'
  BY <1>1, <1>4
<1>10. /\ ListsInv /\ fate' = [fate EXCEPT ![p] = F] /\ UNCHANGED <<parent, subs, unused>>
       /\ StackAbout(p, b) /\ p \in Pool /\ Runs(p)
  BY <1>1, <1>2, <1>3, <1>5, <1>7 DEF Base
<1>11. PromInv'
  BY ONLY PromInv, <1>4, <1>8, <1>9, <1>10, SaidProm
<1>. QED  BY <1>6, <1>11

LEMMA HandlerThrowsBase ==
  ASSUME Base, PromInv, NEW v \in Vals, HandlerThrows(v)
  PROVE  Base' /\ PromInv'
<1>1. /\ stack # <<>> /\ Top.at = "process" /\ ~Top.busy
      /\ Settle(Top.d, "fail", v, Handled)
      /\ fate' = [fate EXCEPT ![Top.d] = <<"settled", "fail">>]
      /\ UNCHANGED <<unused, parent, subs, called, threw, maxDepth, handed>>
  BY DEF HandlerThrows, rest
<1>2. PICK p : p = Top.d
  OBVIOUS
<1>3. Same(stack, Handled, lists, lists) /\ StackAbout(p, Handled) /\ p \in Pool /\ Runs(p)
  BY <1>1, <1>2, HandledOK
<1>4. /\ parent[p] # <<>> /\ ~Settled(p) /\ maxDepth[p] = 0
      /\ \A n \in Nat : <<p, n>> \notin handed
      /\ called \subseteq handed
  BY <1>3, RunsFacts
<1>5. PICK b, F : b = Handled /\ F = <<"settled", "fail">>
  OBVIOUS
<1>6. "fail" \in Kinds /\ p \in Ds
  BY <1>3, DeferredAssumption DEF Kinds
<1>7. Base' /\ Settles(p, "fail", b)
  BY <1>1, <1>2, <1>3, <1>5, <1>6, SettlesBase
<1>8. \E k \in Kinds : F = <<"settled", k>> /\ Settles(p, k, b)
  BY <1>5, <1>6, <1>7
<1>9. /\ \A q \in Pool, n \in Nat : q # p => (<<q, n>> \in called' <=> <<q, n>> \in called)
      /\ \A n \in Nat : <<p, n>> \in handed => <<p, n>> \in called'
      /\ called' \subseteq handed /\ <<p, maxDepth[p] + 1>> \notin called'
  BY <1>1, <1>4
<1>10. /\ ListsInv /\ fate' = [fate EXCEPT ![p] = F] /\ UNCHANGED <<parent, subs, unused>>
       /\ StackAbout(p, b) /\ p \in Pool /\ Runs(p)
  BY <1>1, <1>2, <1>3, <1>5 DEF Base
<1>11. PromInv'
  BY ONLY PromInv, <1>4, <1>8, <1>9, <1>10, SaidProm
<1>. QED  BY <1>7, <1>11
(* A function given to an object of the user's that has not been called: the
   promise is bound to it, at its present depth. *)
LEMMA UncalledFacts ==
  ASSUME PromInv, NEW p \in Pool, NEW n \in Nat, <<p, n>> \in handed
  PROVE  /\ parent[p] # <<>> /\ called \subseteq handed /\ n \in 1 .. maxDepth[p] /\ maxDepth[p] \in Nat
         /\ fate[p] # <<"open">> /\ ~Runs(p)
         /\ <<p, maxDepth[p] + 1>> \notin handed
         /\ <<p, n>> \notin called =>
              /\ ~Settled(p) /\ n = maxDepth[p]
              /\ \A m \in Nat : <<p, m>> \in handed => <<p, m>> \in called \/ m = n
         /\ <<p, n>> \in called => Settled(p) \/ n < maxDepth[p]
         /\ Settled(p) => \A m \in Nat : <<p, m>> \in handed => <<p, m>> \in called
<1>0. PromiseOK(p) /\ p \in Ds /\ maxDepth[p] \in Nat /\ called \subseteq handed
  BY DeferredAssumption DEF PromInv
<1>1. \A m \in Nat : <<p, m>> \in handed => HandedOK(p, m)
  BY <1>0 DEF PromiseOK
<1>2. parent[p] # <<>> /\ n \in 1 .. maxDepth[p]
  BY <1>1 DEF HandedOK
<1>3. fate[p] # <<"open">>
  BY <1>0, <1>2 DEF PromiseOK, FateOpen, FateSettled, FateFollows, FateForeign
<1>4. ~Runs(p)
  BY <1>0, <1>3 DEF PromiseOK
<1>5. <<p, maxDepth[p] + 1>> \notin handed
  <2>1. maxDepth[p] + 1 \in Nat /\ ~(maxDepth[p] + 1 \in 1 .. maxDepth[p])
    BY <1>0
  <2>. QED  BY <1>1, <2>1 DEF HandedOK
<1>6. \A m \in Nat : <<p, m>> \in handed /\ <<p, m>> \notin called => ~Settled(p) /\ m = maxDepth[p]
  <2>. SUFFICES ASSUME NEW m \in Nat, <<p, m>> \in handed, <<p, m>> \notin called
                PROVE  ~Settled(p) /\ m = maxDepth[p]
    OBVIOUS
  <2>1. fate[p] = <<"foreign", m>>
    BY <1>1 DEF HandedOK
  <2>2. FateForeign(p)
    BY <1>0, <2>1 DEF PromiseOK, FateOpen, FateSettled, FateFollows
  <2>. QED  BY <2>1, <2>2 DEF FateForeign
<1>7. <<p, n>> \in called => Settled(p) \/ n < maxDepth[p]
  BY <1>1 DEF HandedOK
<1>. QED  BY <1>0, <1>2, <1>3, <1>4, <1>5, <1>6, <1>7

LEMMA StackAboutStays ==
  ASSUME Base, NEW p, ~Runs(p)
  PROVE  StackAbout(p, stack)
BY DEF StackAbout, Runs, RunsIn, Base, StackInv, StackOK

LEMMA ForeignCallsBase ==
  ASSUME Base, PromInv, NEW p, NEW n, NEW r, ForeignCalls(p, n, r)
  PROVE  Base' /\ PromInv'
<1>1. /\ <<p, n>> \in handed
      /\ r \in Results(p) \cup {<<"reject", v>> : v \in Vals}
      /\ IF Disregarded(p, n)
         THEN UNCHANGED <<state, value, lists, waiting, timers, stack, maxDepth, handed>>
         ELSE IF r[1] = "reject"
         THEN Settle(p, "fail", r[2], stack) /\ UNCHANGED <<maxDepth, handed>>
         ELSE ResolveTo(p, n, r, stack)
      /\ called' = called \cup {<<p, n>>} \cup
                    (IF <<p, n>> \in called THEN handed' \ handed ELSE {})
      /\ fate' = IF <<p, n>> \in called THEN fate
                 ELSE [fate EXCEPT ![p] = IF r[1] = "reject" THEN <<"settled", "fail">>
                                          ELSE FateOf(p, r)]
      /\ UNCHANGED <<unused, parent, subs, threw>>
  BY DEF ForeignCalls
<1>2. p \in Pool /\ n \in Nat /\ p \in Ds /\ "fail" \in Kinds /\ "done" \in Kinds
  BY <1>1, DeferredAssumption DEF PromInv, Kinds
<1>3. /\ parent[p] # <<>> /\ called \subseteq handed /\ n \in 1 .. maxDepth[p] /\ maxDepth[p] \in Nat
      /\ fate[p] # <<"open">> /\ ~Runs(p)
      /\ <<p, maxDepth[p] + 1>> \notin handed
      /\ <<p, n>> \notin called =>
           /\ ~Settled(p) /\ n = maxDepth[p]
           /\ \A m \in Nat : <<p, m>> \in handed => <<p, m>> \in called \/ m = n
      /\ <<p, n>> \in called => Settled(p) \/ n < maxDepth[p]
      /\ Settled(p) => \A m \in Nat : <<p, m>> \in handed => <<p, m>> \in called
  BY <1>1, <1>2, UncalledFacts
<1>4. StackAbout(p, stack) /\ Same(stack, stack, lists, lists)
  BY <1>3, StackAboutStays, StackSame DEF Base
<1>5. ~Disregarded(p, n) =>
        /\ n = maxDepth[p]
        /\ Base'
        /\ \/ r[1] = "reject" /\ Settles(p, "fail", stack)
           \/ r[1] # "reject" /\ FateOf(p, r) = <<"settled", "done">> /\ Settles(p, "done", stack)
           \/ r[1] # "reject" /\ \E e \in Ds : FateOf(p, r) = <<"follows", e>> /\ LeadsOn(p, e, stack)
           \/ r[1] # "reject" /\ FateOf(p, r) = <<"foreign", maxDepth[p] + 1>> /\ Gives(p, n, stack)
  <2>. SUFFICES ASSUME ~Disregarded(p, n)
                PROVE  /\ n = maxDepth[p]
                       /\ Base'
                       /\ \/ r[1] = "reject" /\ Settles(p, "fail", stack)
                          \/ r[1] # "reject" /\ FateOf(p, r) = <<"settled", "done">> /\ Settles(p, "done", stack)
                          \/ r[1] # "reject" /\ \E e \in Ds : FateOf(p, r) = <<"follows", e>> /\ LeadsOn(p, e, stack)
                          \/ r[1] # "reject" /\ FateOf(p, r) = <<"foreign", maxDepth[p] + 1>> /\ Gives(p, n, stack)
    OBVIOUS
  <2>1. n = maxDepth[p]
    BY <1>3 DEF Disregarded
  <2>2. CASE r \in Results(p)
    <3>1. r[1] # "reject"
      BY <2>2 DEF Results
    <3>2. ResolveTo(p, n, r, stack)
      BY <1>1, <3>1
    <3>3. UNCHANGED <<subs, threw>>
      BY <1>1
    <3>4. /\ Base'
          /\ \/ FateOf(p, r) = <<"settled", "done">> /\ Settles(p, "done", stack)
             \/ \E e \in Ds : FateOf(p, r) = <<"follows", e>> /\ LeadsOn(p, e, stack)
             \/ FateOf(p, r) = <<"foreign", maxDepth[p] + 1>> /\ Gives(p, n, stack)
      BY ONLY Base, PromInv, <1>2, <1>4, <2>2, <3>2, <3>3, ResolveToBase
    <3>. QED  BY <2>1, <3>1, <3>4
  <2>3. CASE r \in {<<"reject", v>> : v \in Vals}
    <3>1. r[1] = "reject" /\ r[2] \in Vals
      BY <2>3
    <3>2. Settle(p, "fail", r[2], stack) /\ UNCHANGED <<subs, threw, maxDepth, handed>>
      BY <1>1, <3>1
    <3>3. Base' /\ Settles(p, "fail", stack)
      BY ONLY Base, <1>2, <1>4, <3>1, <3>2, SettlesBase
    <3>. QED  BY <2>1, <3>1, <3>3
  <2>. QED  BY <1>1, <2>2, <2>3
<1>6. CASE <<p, n>> \notin called
  <2>1. ~Settled(p) /\ n = maxDepth[p] /\ ~Disregarded(p, n)
    BY <1>3, <1>6 DEF Disregarded
  <2>2. PICK F : F = IF r[1] = "reject" THEN <<"settled", "fail">> ELSE FateOf(p, r)
    OBVIOUS
  <2>3. \/ \E k \in Kinds : F = <<"settled", k>> /\ Settles(p, k, stack)
        \/ \E e \in Ds : F = <<"follows", e>> /\ LeadsOn(p, e, stack)
        \/ F = <<"foreign", maxDepth[p] + 1>> /\ Gives(p, maxDepth[p], stack)
    BY ONLY <1>2, <1>5, <2>1, <2>2
  <2>4. called' = called \cup {<<p, n>>} /\ fate' = [fate EXCEPT ![p] = F]
    BY <1>1, <1>6, <2>2
  <2>5. /\ \A q \in Pool, m \in Nat : q # p => (<<q, m>> \in called' <=> <<q, m>> \in called)
        /\ \A m \in Nat : <<p, m>> \in handed => <<p, m>> \in called'
        /\ called' \subseteq handed /\ <<p, maxDepth[p] + 1>> \notin called'
    <3>1. \A q, m : q # p => <<q, m>> # <<p, n>>
      OBVIOUS
    <3>2. \A m \in Nat : <<p, m>> \in handed => <<p, m>> \in called'
      BY <1>3, <1>6, <2>4
    <3>3. called' \subseteq handed
      BY <1>1, <1>3, <2>4
    <3>. QED  BY <1>3, <2>4, <3>1, <3>2, <3>3
  <2>6. /\ ListsInv /\ UNCHANGED <<parent, subs, unused>> /\ fate[p] # <<"open">>
    BY <1>1, <1>3 DEF Base
  <2>7. PromInv'
    BY ONLY PromInv, <1>2, <1>3, <1>4, <2>1, <2>3, <2>4, <2>5, <2>6, SaidProm
  <2>. QED  BY <1>5, <2>1, <2>7
<1>7. CASE <<p, n>> \in called
  <2>1. fate' = fate /\ called' = called \cup (handed' \ handed)
    BY <1>1, <1>7
  <2>2. ASSUME UNCHANGED <<state, value, lists, waiting, timers, stack, maxDepth, handed>>
        PROVE  Base' /\ PromInv'
    <3>1. called' = called
      BY <2>1, <2>2
    <3>2. Calm
      BY <1>1, <2>1, <2>2, <3>1, CodeStays DEF Calm
    <3>3. Base'
      BY <1>1, <1>4, <2>2, StackMoved
    <3>. QED  BY <3>2, <3>3, CalmProm DEF Base
  <2>3. CASE Disregarded(p, n)
    BY <1>1, <2>2, <2>3
  <2>4. CASE ~Disregarded(p, n)
    <3>1. Settled(p) /\ n = maxDepth[p]
      BY <1>3, <1>5, <1>7, <2>4
    <3>2. ASSUME NEW k \in Kinds, Settles(p, k, stack) PROVE Base' /\ PromInv'
      BY <2>2, <3>1, <3>2 DEF Settles, Nothing
    <3>3. ASSUME (\E e \in Ds : LeadsOn(p, e, stack)) \/ Gives(p, maxDepth[p], stack)
          PROVE  PromInv'
      <4>1. ListsInv /\ UNCHANGED <<parent, subs, unused, fate>>
            /\ \A m \in Nat : <<p, m>> \in handed => <<p, m>> \in called
        BY <1>1, <1>3, <2>1, <3>1 DEF Base
      <4>. QED  BY ONLY PromInv, <1>2, <1>3, <1>4, <2>1, <3>1, <3>3, <4>1, VoidProm
    <3>. QED  BY ONLY <1>2, <1>5, <2>4, <3>1, <3>2, <3>3
  <2>. QED  BY <2>3, <2>4
<1>. QED  BY <1>6, <1>7
(* A `then' of the user's is left. *)
LEMMA ThenTop ==
  ASSUME Base, stack # <<>>, Top.at = "then"
  PROVE  /\ Top.d \in Pool /\ Top.k \in Nat /\ Asks(Top.d, Top.k)
         /\ Same(stack, Outer, lists, lists)
         /\ \A p : ~Runs(p) => StackAbout(p, Outer)
<1>1. /\ Inner \in Nat /\ Inner # 0 /\ Inner \in 1 .. Len(stack) /\ FrameOK(Top)
      /\ stack \in Seq(Frames) /\ StackOK(stack, lists)
  BY TopFacts
<1>2. Top.d \in Pool /\ Top.k \in Nat
  BY <1>1 DEF FrameOK
<1>3. Asks(Top.d, Top.k)
  BY <1>1 DEF Asks, Top
<1>4. Same(stack, Outer, lists, lists)
  BY <1>1, PopOther DEF Outer, Top, Inner
<1>5. CodeSame(stack, Outer)
  <2>1. Inner - 1 \in 0 .. Len(stack) /\ Len(stack) = Inner
    BY <1>1 DEF Inner
  <2>2. \A i \in Inner - 1 + 1 .. Len(stack) : stack[i].at = "process" => stack[i].busy
    <3>. SUFFICES ASSUME NEW i \in Inner - 1 + 1 .. Len(stack), stack[i].at = "process" PROVE FALSE
      OBVIOUS
    <3>1. i = Inner
      BY <1>1, <2>1
    <3>. QED  BY <3>1 DEF Top
  <2>. QED  BY <1>1, <2>1, <2>2, CodePopped DEF Outer
<1>6. \A q : /\ RunsIn(Outer, q) <=> RunsIn(stack, q)
             /\ \A n : AsksIn(Outer, q, n) => AsksIn(stack, q, n)
  BY ONLY <1>5, CodeRunsIn
<1>7. Outer \in Seq(Frames)
  BY <1>4 DEF Same, StackOK
<1>8. \A p : RunsIn(stack, p) <=> Runs(p)
  BY DEF RunsIn, Runs
<1>. QED  BY <1>2, <1>3, <1>4, <1>6, <1>7, <1>8 DEF StackAbout

LEMMA ForeignThenThrowsBase ==
  ASSUME Base, PromInv, NEW v \in Vals, ForeignThenThrows(v)
  PROVE  Base' /\ PromInv'
<1>1. PICK p, n : p = Top.d /\ n = Top.k
  OBVIOUS
<1>2. /\ stack # <<>> /\ Top.at = "then"
      /\ IF Catches(p, n)
         THEN Settle(p, "fail", v, Outer)
         ELSE stack' = Outer /\ UNCHANGED <<state, value, lists, waiting, timers>>
      /\ fate' = IF <<p, n + 1>> \in called THEN fate
                 ELSE [fate EXCEPT ![p] = <<"settled", "fail">>]
      /\ called' = called \cup {<<p, n + 1>>}
      /\ UNCHANGED <<maxDepth, unused, parent, subs, handed, threw>>
  BY <1>1 DEF ForeignThenThrows, rest
<1>3. /\ p \in Pool /\ n \in Nat /\ Asks(p, n)
      /\ Same(stack, Outer, lists, lists)
      /\ \A q : ~Runs(q) => StackAbout(q, Outer)
  BY <1>1, <1>2, ThenTop
<1>4. n + 1 \in Nat /\ <<p, n + 1>> \in handed /\ p \in Ds /\ "fail" \in Kinds
  BY <1>3, DeferredAssumption DEF PromInv, PromiseOK, Kinds
<1>5. /\ parent[p] # <<>> /\ called \subseteq handed /\ n + 1 \in 1 .. maxDepth[p] /\ maxDepth[p] \in Nat
      /\ fate[p] # <<"open">> /\ ~Runs(p)
      /\ <<p, maxDepth[p] + 1>> \notin handed
      /\ <<p, n + 1>> \notin called =>
           /\ ~Settled(p) /\ n + 1 = maxDepth[p]
           /\ \A m \in Nat : <<p, m>> \in handed => <<p, m>> \in called \/ m = n + 1
      /\ <<p, n + 1>> \in called => Settled(p) \/ n + 1 < maxDepth[p]
  <2>. HIDE DEF PromInv, Settled
  <2>. QED  BY <1>3, <1>4, UncalledFacts
<1>6. StackAbout(p, Outer)
  BY <1>3, <1>5
<1>7. Catches(p, n) => Base' /\ Settles(p, "fail", Outer)
  BY ONLY Base, <1>2, <1>3, <1>4, v \in Vals, SettlesBase
<1>8. CASE <<p, n + 1>> \notin called
  <2>1. Catches(p, n) /\ ~Settled(p)
    BY <1>5, <1>8 DEF Catches
  <2>2. fate' = [fate EXCEPT ![p] = <<"settled", "fail">>] /\ called' = called \cup {<<p, n + 1>>}
    BY <1>2, <1>8
  <2>3. /\ \A q \in Pool, m \in Nat : q # p => (<<q, m>> \in called' <=> <<q, m>> \in called)
        /\ \A m \in Nat : <<p, m>> \in handed => <<p, m>> \in called'
        /\ called' \subseteq handed /\ <<p, maxDepth[p] + 1>> \notin called'
    <3>1. \A q, m : q # p => <<q, m>> # <<p, n + 1>>
      OBVIOUS
    <3>2. \A m \in Nat : <<p, m>> \in handed => <<p, m>> \in called'
      BY <1>5, <1>8, <2>2
    <3>3. called' \subseteq handed
      BY <1>4, <1>5, <2>2
    <3>. QED  BY <1>5, <2>2, <3>1, <3>2, <3>3
  <2>4. ListsInv /\ UNCHANGED <<parent, subs, unused>>
    BY <1>2 DEF Base
  <2>5. \E k \in Kinds : <<"settled", "fail">> = <<"settled", k>> /\ Settles(p, k, Outer)
    BY <1>4, <1>7, <2>1
  <2>6. PromInv'
    BY ONLY PromInv, <1>3, <1>5, <1>6, <2>1, <2>2, <2>3, <2>4, <2>5, SaidProm
  <2>. QED  BY <1>7, <2>1, <2>6
<1>9. CASE <<p, n + 1>> \in called
  <2>1. fate' = fate /\ called' = called
    BY <1>2, <1>9
  <2>2. stack' = Outer /\ UNCHANGED <<state, value, lists, waiting, timers>>
    <3>1. CASE Catches(p, n)
      <4>1. Settled(p)
        BY <1>5, <1>9, <3>1 DEF Catches
      <4>. QED  BY <1>7, <3>1, <4>1 DEF Settles, Nothing
    <3>. QED  BY <1>2, <3>1
  <2>3. UNCHANGED <<maxDepth, fate, handed, called, parent, subs, unused, threw,
                    state, value, lists, waiting, timers>>
    BY <1>2, <2>1, <2>2
  <2>4. Base' /\ Calm
    BY ONLY Base, <1>2, <2>2, <2>3, LeftBase
  <2>. QED  BY <2>4, CalmProm DEF Base
<1>. QED  BY <1>8, <1>9

-----------------------------------------------------------------------------
(* The end of the promise that another follows. *)
LEMMA DropProm ==
  ASSUME ListsInv, PromInv, NEW t \in timers, t.depth # 0,
         Settled(t.p) \/ t.depth # maxDepth[t.p],
         timers' = timers \ {t}, CodeSame(stack, stack'),
         UNCHANGED <<state, waiting, maxDepth, fate, handed, called, parent, subs, unused>>
  PROVE  PromInv'
<1>0. DOMAIN state = Ds /\ TokenType /\ t \in Timers /\ t.p \in Pool /\ t.depth \in Nat /\ Pool \subseteq Ds
  BY DeferredAssumption DEF ListsInv, PromInv, TokenType, Timers
<1>1. /\ TokenType' /\ Forward
      /\ \A p \in Pool, n \in Nat, x \in Ds : Comes(p, n, x)' <=> ComesOf(timers \ {t}, p, n, x)
  BY <1>0, DropKept
<1>2. \A q \in Pool, n \in Nat, x \in Ds :
        /\ Comes(q, n, x)' => Comes(q, n, x)
        /\ Comes(q, n, x) => Comes(q, n, x)' \/ (q = t.p /\ n = t.depth)
  BY <1>0, <1>1, DropTokens
<1>3. \A q : /\ Runs(q)' <=> Runs(q)
             /\ \A n \in Nat : Asks(q, n)' => Asks(q, n)
  BY CodeRuns
<1>4. PICK T : T = {t.p}
  OBVIOUS
<1>5. ASSUME NEW q \in Pool \ T PROVE Untouched(q)
  <2>1. \A n \in Nat, d \in Ds : Comes(q, n, d)' <=> Comes(q, n, d)
    BY <1>2, <1>4
  <2>. QED  BY <1>3, <2>1 DEF Untouched
<1>6. ASSUME NEW q \in T PROVE PromiseOK(q)'
  <2>0. q = t.p /\ q \in Pool /\ q \in Ds /\ PromiseOK(q) /\ maxDepth[q] \in Nat
    BY <1>0, <1>4, DeferredAssumption DEF PromInv
  <2>1. \A n \in Nat, d \in Ds : Comes(q, n, d)' => Comes(q, n, d)
    BY <1>2, <2>0
  <2>2. \A n \in Nat, d \in Ds : Awaits(q, n, d) => Awaits(q, n, d)'
    BY DEF Awaits, Settled
  <2>3. \A n \in Nat : HandedOK(q, n) => HandedOK(q, n)'
    BY DEF HandedOK, Settled
  <2>4. \A d \in Ds : Comes(q, 0, d) <=> Comes(q, 0, d)'
    BY <1>0, <1>2, <2>0
  <2>5. FateOpen(q) => FateOpen(q)'
    BY <1>3, <2>4 DEF FateOpen, Settled
  <2>6. FateSettled(q) => FateSettled(q)'
    BY DEF FateSettled
  <2>7. FateForeign(q) => FateForeign(q)'
    BY DEF FateForeign, Settled
  <2>8. FateFollows(q) => FateFollows(q)'
    <3>. SUFFICES ASSUME FateFollows(q) PROVE FateFollows(q)'
      OBVIOUS
    <3>1. PICK e \in Ds, n \in Nat :
            /\ fate[q] = <<"follows", e>> /\ n = maxDepth[q] /\ n # 0
            /\ Settled(q) => state[q] = state[e]
            /\ ~Settled(q) => Comes(q, n, e)
      BY DEF FateFollows
    <3>2. ~Settled(q)' => Comes(q, n, e)'
      BY <1>2, <2>0, <3>1 DEF Settled
    <3>3. Settled(q)' => state'[q] = state'[e]
      BY <3>1 DEF Settled
    <3>. QED  BY <3>1, <3>2, <3>3 DEF FateFollows
  <2>9. /\ q \in unused' => parent'[q] = <<>> /\ subs'[q] = {}
        /\ parent'[q] # <<>> => subs'[q] = {} /\ \E d \in Ds : parent'[q] = <<d>>
        /\ parent'[q] = <<>> => fate'[q] = <<"open">>
        /\ parent'[q] = <<>> /\ subs'[q] = {} => ~Settled(q)'
    BY <2>0 DEF PromiseOK, Settled
  <2>10. /\ \A n \in Nat, d \in Ds : Comes(q, n, d)' => Awaits(q, n, d)'
         /\ \A n \in Nat : <<q, n>> \in handed' => HandedOK(q, n)'
    BY <2>0, <2>1, <2>2, <2>3 DEF PromiseOK
  <2>11. /\ Runs(q)' => parent'[q] # <<>> /\ fate'[q] = <<"open">> /\ \A d \in Ds : ~Comes(q, 0, d)'
         /\ \A n \in Nat : Asks(q, n)' => <<q, n + 1>> \in handed'
    BY <1>3, <2>0, <2>4 DEF PromiseOK
  <2>12. FateOpen(q)' \/ FateSettled(q)' \/ FateFollows(q)' \/ FateForeign(q)'
    BY <2>0, <2>5, <2>6, <2>7, <2>8 DEF PromiseOK
  <2>. QED  BY <2>9, <2>10, <2>11, <2>12 DEF PromiseOK
<1>7. /\ DOMAIN parent' = Ds /\ DOMAIN subs' = Ds /\ DOMAIN fate' = Ds
      /\ maxDepth' \in [Ds -> 0 .. MaxDepth]
      /\ unused' \subseteq unused /\ handed' \subseteq Pool \X Nat /\ called' \subseteq handed'
  BY DEF PromInv
<1>8. T \subseteq Pool
  BY <1>0, <1>4
<1>. QED  BY <1>1, <1>5, <1>6, <1>7, <1>8, PromKept

LEMMA FollowedSettlesBase ==
  ASSUME Base, PromInv, NEW t \in timers, FollowedSettles(t)
  PROVE  Base' /\ PromInv'
<1>1. /\ stack = <<>> /\ t.depth > 0
      /\ IF Disregarded(t.p, t.depth)
         THEN timers' = timers \ {t} /\ UNCHANGED <<state, value, lists, waiting, stack>>
         ELSE SettleFrom(timers \ {t}, t.p, t.k, value[t.of][1], <<>>)
      /\ UNCHANGED <<maxDepth, unused, parent, subs, handed, fate, called, threw>>
  BY DEF FollowedSettles, rest
<1>2. /\ t.p \in Pool /\ t.p \in Ds /\ t.depth \in Nat /\ t.k \in Kinds /\ t.of \in Ds
      /\ state[t.of] = Outcome(t.k) /\ TokenType /\ maxDepth[t.p] \in Nat
      /\ PromiseOK(t.p) /\ DOMAIN state = Ds /\ DOMAIN fate = Ds /\ called \subseteq handed
  BY DeferredAssumption DEF PromInv, TokenType, Timers, Base, ListsInv
<1>3. PICK p, n, e, k : p = t.p /\ n = t.depth /\ e = t.of /\ k = t.k
  OBVIOUS
<1>4. Awaits(p, n, e)
  <2>1. Comes(p, n, e)
    BY <1>3 DEF Comes
  <2>. QED  BY <1>2, <1>3, <2>1 DEF PromiseOK
<1>5. parent[p] # <<>> /\ n <= maxDepth[p] /\ n # 0
      /\ (n = maxDepth[p] /\ ~Settled(p) => fate[p] = <<"follows", e>>)
  BY <1>1, <1>2, <1>3, <1>4 DEF Awaits
<1>6. Same(stack, stack, lists, lists) /\ StackOK(<<>>, lists)
  BY <1>1, StackSame DEF Base, StackInv
<1>7. ASSUME Settled(p) \/ n # maxDepth[p], Nothing(timers \ {t}, <<>>)
      PROVE  Base' /\ PromInv'
  <2>1. /\ stack' = stack /\ timers' = timers \ {t}
        /\ UNCHANGED <<state, value, lists, waiting, maxDepth, fate, handed, called, parent, subs, unused, threw>>
    BY <1>1, <1>7 DEF Nothing
  <2>2. CodeSame(stack, stack')
    BY <2>1, CodeStays
  <2>3. Base'
    BY ONLY Base, <1>6, <2>1, StackMoved
  <2>4. ListsInv /\ t.depth # 0 /\ (Settled(t.p) \/ t.depth # maxDepth[t.p])
    BY <1>3, <1>5, <1>7 DEF Base
  <2>5. PromInv'
    BY ONLY PromInv, t \in timers, <2>1, <2>2, <2>4, DropProm
  <2>. QED  BY <2>3, <2>5
<1>8. CASE Disregarded(p, n)
  <2>1. n # maxDepth[p]
    BY <1>2, <1>3, <1>8 DEF Disregarded
  <2>2. Nothing(timers \ {t}, <<>>)
    BY <1>1, <1>3, <1>8 DEF Nothing
  <2>. QED  BY <1>7, <2>1, <2>2
<1>9. CASE ~Disregarded(p, n)
  <2>1. n = maxDepth[p]
    BY <1>2, <1>3, <1>5, <1>9 DEF Disregarded
  <2>2. SettleFrom(timers \ {t}, p, k, value[e][1], <<>>)
    BY <1>1, <1>3, <1>9
  <2>3. value[e][1] \in Vals
    <3>1. state[e] # "pending" /\ e \in Ds
      BY <1>2, <1>3, KindFacts
    <3>2. value[e] # <<>> /\ value[e] \in Memories
      BY <3>1 DEF Base, ListsInv, DefOK
    <3>. QED  BY <3>2 DEF Memories
  <2>4. /\ ListsInv'
        /\ Same(<<>>, stack', lists, lists')
        /\ Grown(<<>>, stack', p, k)
        /\ Settled(p) => Nothing(timers \ {t}, <<>>)
        /\ ~Settled(p) => Ends(timers \ {t}, p, k, value[e][1], <<>>)
    <3>1. ListsInv /\ subs' = subs /\ p \in Ds /\ k \in Kinds
      BY <1>1, <1>2, <1>3 DEF Base
    <3>. QED  BY ONLY <1>6, <2>2, <2>3, <3>1, SettleBase
  <2>5. CASE Settled(p)
    BY <1>7, <2>4, <2>5
  <2>6. CASE ~Settled(p)
    <3>1. Base'
      <4>1. StackInv /\ UNCHANGED <<subs, threw>>
            /\ Same(stack, <<>>, lists, lists) /\ Same(<<>>, stack', lists, lists')
        BY <1>1, <1>6, <2>4 DEF Base
      <4>2. StackInv'
        BY ONLY <4>1, StackKept
      <4>. QED  BY <2>4, <4>2 DEF Base
    <3>2. fate[p] = <<"follows", e>> /\ fate[p] # <<"open">> /\ maxDepth[p] # 0
      BY <1>5, <2>1, <2>6
    <3>3. FateFollows(p)
      BY <1>2, <1>3, <3>2 DEF PromiseOK, FateOpen, FateSettled, FateForeign
    <3>4. \A m \in Nat : <<p, m>> \in handed => <<p, m>> \in called
      <4>. SUFFICES ASSUME NEW m \in Nat, <<p, m>> \in handed, <<p, m>> \notin called PROVE FALSE
        OBVIOUS
      <4>1. HandedOK(p, m)
        BY <1>2, <1>3 DEF PromiseOK
      <4>. QED  BY <3>2, <4>1 DEF HandedOK
    <3>5. ~Runs(p)
      BY <1>2, <1>3, <3>2 DEF PromiseOK
    <3>6. StackAbout(p, <<>>)
      BY <1>1, <3>5, StackAboutStays
    <3>7. About(p)
      <4>1. /\ p \in Pool /\ parent[p] # <<>> /\ fate[p] # <<"open">>
            /\ UNCHANGED <<parent, subs, unused>>
            /\ \E j \in Kinds : Grown(<<>>, stack', p, j)
            /\ handed \subseteq handed'
            /\ \A q \in Pool, m \in Nat : q # p => (<<q, m>> \in called' <=> <<q, m>> \in called)
            /\ \A m \in Nat : <<p, m>> \in handed => <<p, m>> \in called'
            /\ called' \subseteq handed'
        BY <1>1, <1>2, <1>3, <1>5, <2>4, <3>2, <3>4
      <4>. QED  BY ONLY PromInv, <3>6, <4>1, AboutIs
    <3>8. PICK ts : ts = timers \ {t}
      OBVIOUS
    <3>9. Over(ts, p, k)
      BY <1>2, <1>3, <2>4, <2>6, <3>8 DEF Ends, Over
    <3>10. \A q \in Pool, m \in Nat, d \in Ds : q # p => (ComesOf(ts, q, m, d) <=> Comes(q, m, d))
      BY <1>2, <1>3, <3>8, DropTokens
    <3>11. /\ DOMAIN state = Ds /\ k \in Kinds /\ ~Settled(p) /\ ts \subseteq timers
           /\ UNCHANGED <<maxDepth, handed>> /\ DOMAIN fate' = Ds
           /\ \A q \in Ds : q # p => fate'[q] = fate[q]
           /\ \E x \in Ds : fate'[p] = <<"follows", x>> /\ state[x] = Outcome(k) /\ maxDepth[p] # 0
      BY <1>1, <1>2, <1>3, <2>6, <3>2, <3>8
    <3>12. PromInv'
      BY ONLY PromInv, <3>7, <3>9, <3>10, <3>11, SettledProm
    <3>. QED  BY <3>1, <3>12
  <2>. QED  BY <2>5, <2>6
<1>. QED  BY <1>8, <1>9
-----------------------------------------------------------------------------
(* The invariant: the lists with their deferreds, the stack, the promises. *)
Inv == Base /\ PromInv

LEMMA InvAtFirst ==
  ASSUME Init
  PROVE  Inv
<1>1. ListsInv
  <2>1. DOMAIN state = Ds /\ DOMAIN value = Ds /\ DOMAIN lists = Ds
    BY DEF Init
  <2>2. ASSUME NEW d \in Ds PROVE DefOK(lists[d], state[d], value[d], Entries)
    <3>1. state[d] = "pending" /\ value[d] = <<>> /\ DOMAIN lists[d] = AllKinds
      BY <2>2 DEF Init, AllKinds, Kinds
    <3>2. \A k \in AllKinds : lists[d][k] = Callbacks
      BY <2>2 DEF Init, AllKinds, Kinds
    <3>3. \A E : ListOK(Callbacks, E)
      <4>1. Len(<<>>) = 0
        OBVIOUS
      <4>. QED  BY <4>1, Value DEF ListOK, Shape, ListType, Callbacks
    <3>4. \A k \in Kinds : KindOK(Callbacks, k, "pending", <<>>)
      BY DEF KindOK, Callbacks, Kinds, Outcome, Other
    <3>5. Kinds \subseteq AllKinds
      BY DEF Kinds, AllKinds
    <3>. QED  BY <3>1, <3>2, <3>3, <3>4, <3>5, Value DEF DefOK
  <2>. QED  BY <2>1, <2>2 DEF ListsInv
<1>2. StackInv
  <2>1. stack = <<>> /\ threw = FALSE /\ Len(<<>>) = 0
    BY DEF Init
  <2>2. \A d \in Ds, k \in AllKinds : ~lists[d][k].firing
    BY DEF Init, AllKinds, Kinds, Callbacks
  <2>3. StackOK(stack, lists)
    BY <2>1 DEF StackOK
  <2>. QED  BY <2>1, <2>2, <2>3 DEF StackInv, Complete
<1>3. PromInv
  <2>1. /\ DOMAIN parent = Ds /\ DOMAIN subs = Ds /\ DOMAIN fate = Ds
        /\ maxDepth \in [Ds -> 0 .. MaxDepth]
        /\ unused \subseteq Pool /\ handed \subseteq Pool \X Nat /\ called \subseteq handed
    BY DeferredAssumption DEF Init
  <2>2. TokenType
    BY DEF Init, TokenType
  <2>3. ASSUME NEW p \in Pool PROVE PromiseOK(p)
    <3>1. /\ parent[p] = <<>> /\ subs[p] = {} /\ fate[p] = <<"open">> /\ state[p] = "pending"
          /\ maxDepth[p] = 0 /\ handed = {} /\ stack = <<>> /\ p \in Ds
      BY DeferredAssumption DEF Init
    <3>2. \A n \in Nat, d \in Ds : ~Comes(p, n, d)
      BY DEF Init, Comes
    <3>3. Len(<<>>) = 0
      OBVIOUS
    <3>4. ~Runs(p) /\ \A n \in Nat : ~Asks(p, n)
      BY <3>1, <3>3 DEF Runs, Asks
    <3>5. FateOpen(p)
      BY <3>1 DEF FateOpen
    <3>. QED  BY <3>1, <3>2, <3>4, <3>5 DEF PromiseOK, Settled
  <2>. QED  BY <2>1, <2>2, <2>3 DEF PromInv
<1>. QED  BY <1>1, <1>2, <1>3 DEF Inv, Base

LEMMA CalmStep ==
  ASSUME Base, PromInv, Base' /\ Calm
  PROVE  Inv'
BY CalmProm DEF Base, Inv

LEMMA InvStep ==
  ASSUME Inv, [Next]_vars
  PROVE  Inv'
<1>. USE DEF Inv
<1>0. Base /\ PromInv /\ ListsInv /\ StackInv
  BY DEF Base
<1>1. ASSUME NEW d \in Ds, NEW k \in Kinds, NEW v \in Vals, Resolve(d, k, v) PROVE Inv'
  BY <1>0, <1>1, ResolveBase, CalmStep
<1>2. ASSUME NEW d \in Ds, NEW v \in Vals, Notify(d, v) PROVE Inv'
  BY <1>0, <1>2, NotifyBase, CalmStep
<1>3. ASSUME NEW d \in Ds \ unused, NEW k \in Kinds \cup {"progress"}, NEW f \in Fns,
             AddListener(d, k, f)
      PROVE  Inv'
  <2>1. d \in Ds /\ k \in AllKinds
    BY <1>3, KindFacts
  <2>2. Base' /\ Calm
    BY ONLY Base, <1>3, <2>1, AddListenerBase
  <2>. QED  BY <1>0, <2>2, CalmStep
<1>4. ASSUME NEW d \in Ds, NEW p \in Pool, Then(d, p) PROVE Inv'
  BY <1>0, <1>4, ThenBase, ThenProm
<1>5. ASSUME NEW S \in SUBSET Ds, NEW m \in Pool, When(S, m) PROVE Inv'
  BY <1>0, <1>5, WhenBase, WhenProm
<1>6. ASSUME NEW s \in Ds, WhenAdopts(s) PROVE Inv'
  BY <1>0, <1>6, AdoptBase, CalmStep
<1>7. CASE CallbackReturns
  BY <1>0, <1>7, ReturnsBase, CalmStep
<1>8. CASE CallbackThrows
  BY <1>0, <1>8, ThrowsBase, CalmStep
<1>9. CASE InternalRuns
  BY <1>0, <1>9, InternalBase, CalmStep
<1>10. ASSUME NEW t \in timers, TimerFires(t) PROVE Inv'
  BY <1>0, <1>10, FiresBase
<1>11. ASSUME NEW t \in timers, FollowedSettles(t) PROVE Inv'
  BY <1>0, <1>11, FollowedSettlesBase
<1>12. ASSUME NEW r, HandlerReturns(r) PROVE Inv'
  BY <1>0, <1>12, HandlerReturnsBase
<1>13. ASSUME NEW v \in Vals, HandlerThrows(v) PROVE Inv'
  BY <1>0, <1>13, HandlerThrowsBase
<1>14. ASSUME NEW v \in Vals, ForeignThenThrows(v) PROVE Inv'
  BY <1>0, <1>14, ForeignThenThrowsBase
<1>15. CASE ForeignThenReturns \/ Leave
  BY <1>0, <1>15, LeaveBase, CalmStep
<1>16. ASSUME NEW p, NEW n, NEW r, ForeignCalls(p, n, r) PROVE Inv'
  BY <1>0, <1>16, ForeignCallsBase
<1>17. CASE UNCHANGED vars
  <2>1. UNCHANGED <<maxDepth, fate, handed, called, parent, subs, unused, threw,
                    state, value, lists, waiting, timers, stack>>
    BY <1>17 DEF vars
  <2>2. Calm
    BY <2>1, CodeStays DEF Calm
  <2>3. Base'
    BY ONLY Base, <1>0, <2>1, StackSame, StackMoved
  <2>. QED  BY <1>0, <2>2, <2>3, CalmStep
<1>18. CASE Next
  <2>. HIDE DEF Inv
  <2>1. \/ \E d \in Ds, k \in Kinds, v \in Vals : Resolve(d, k, v)
        \/ \E d \in Ds, v \in Vals : Notify(d, v)
        \/ \E d \in Ds \ unused, k \in Kinds \cup {"progress"}, f \in Fns : AddListener(d, k, f)
        \/ \E d \in Ds, p \in Pool : Then(d, p)
        \/ \E S \in SUBSET Ds, m \in Pool : When(S, m)
        \/ \E s \in Ds : WhenAdopts(s)
        \/ CallbackReturns \/ CallbackThrows \/ InternalRuns
        \/ \E t \in timers : TimerFires(t) \/ FollowedSettles(t)
        \/ \E r : HandlerReturns(r)
        \/ \E v \in Vals : HandlerThrows(v) \/ ForeignThenThrows(v)
        \/ ForeignThenReturns \/ Leave
        \/ \E p, n, r : ForeignCalls(p, n, r)
    BY <1>18 DEF Next
  <2>. QED  BY <1>1, <1>2, <1>3, <1>4, <1>5, <1>6, <1>7, <1>8, <1>9, <1>10, <1>11, <1>12,
               <1>13, <1>14, <1>15, <1>16, <2>1
<1>. QED  BY <1>17, <1>18

LEMMA Always == Spec => []Inv
BY InvAtFirst, InvStep, PTL DEF Spec

(* A promise made by then() ends as the first word on it said: the result of
   its handler, the first call made by the object it was given to, the end of
   the promise it was led on to; no later call, timer or exception changes it
   (jquery-3.4.1.js:3528-3690). *)
THEOREM FirstWordHolds == Spec => []EndsAsFirstSaid
<1>1. Inv => EndsAsFirstSaid
  BY AsFirstSaid DEF Inv
<1>. QED  BY <1>1, Always, PTL

(* When nothing runs and no timer is set, a promise of a settled deferred is
   settled, or bound to something that is not (jquery-3.4.1.js:3528-3690). *)
THEOREM NothingIsLost == Spec => []NoPromiseForgotten
<1>1. Inv => NoPromiseForgotten
  BY NoneForgotten DEF Inv
<1>. QED  BY <1>1, Always, PTL

LEMMA ListenersCalled ==
  ASSUME Inv
  PROVE  ListenersAllCalled
<1>. SUFFICES ASSUME Quiet, ~threw, NEW d \in Ds, Settled(d), NEW k \in Kinds
              PROVE  lists[d][k].list = <<>> /\ ~lists[d][k].firing
  BY DEF ListenersAllCalled
<1>1. k \in AllKinds /\ Base
  BY KindFacts DEF Inv
<1>2. ~OnStack(stack, d, k)
  <2>1. stack = <<>> /\ Len(<<>>) = 0
    BY DEF Quiet
  <2>. QED  BY <2>1 DEF OnStack
<1>3. ~lists[d][k].firing
  BY <1>1, <1>2 DEF Base, StackInv, Complete
<1>4. KindOK(lists[d][k], k, state[d], value[d]) /\ state[d] \in {"pending", "resolved", "rejected"}
  BY <1>1, ListFacts DEF Base
<1>5. state[d] = Outcome(k) \/ state[d] = Outcome(Other(k))
  BY <1>4 DEF Settled, Outcome, Other, Kinds
<1>. QED  BY <1>3, <1>4, <1>5 DEF KindOK

(* When nothing runs and no callback has thrown, no list of a settled deferred
   fires or keeps a listener: all were called
   (jquery-3.4.1.js:3251-3340, 3719-3758). *)
THEOREM ListenersHeard == Spec => []ListenersAllCalled
<1>1. Inv => ListenersAllCalled
  BY ListenersCalled
<1>. QED  BY <1>1, Always, PTL

-----------------------------------------------------------------------------
(* A step leaves the states alone, or is one call of resolveWith() or
   rejectWith(). *)
Once == \A d \in Ds : Settled(d) => state'[d] = state[d] /\ value'[d] = value[d]

LEMMA OneSettles ==
  ASSUME ListsInv, subs' = subs, NEW ts, NEW d \in Ds, NEW k \in Kinds, NEW v \in Vals,
         NEW b, SettleFrom(ts, d, k, v, b)
  PROVE  Once
<1>1. /\ Settled(d) => Nothing(ts, b)
      /\ ~Settled(d) => Ends(ts, d, k, v, b)
  BY SettleIs
<1>2. DOMAIN state = Ds /\ DOMAIN value = Ds
  BY DEF ListsInv
<1>. QED  BY <1>1, <1>2 DEF Once, Nothing, Ends

LEMMA OneResolves ==
  ASSUME ListsInv, subs' = subs, NEW p \in Ds, NEW n, NEW r \in Results(p), NEW b, ResolveTo(p, n, r, b)
  PROVE  Once
<1>1. CASE r \in {<<"plain", v>> : v \in Vals}
  <2>1. r[1] = "plain" /\ r[2] \in Vals /\ "done" \in Kinds
    BY <1>1 DEF Kinds
  <2>2. SettleFrom(timers, p, "done", r[2], b)
    BY <2>1 DEF ResolveTo, Settle
  <2>. QED  BY <2>1, <2>2, OneSettles
<1>2. CASE r \in {<<"promise", e>> : e \in Ds \ (unused \cup {p})}
  <2>1. r[1] = "promise"
    BY <1>2
  <2>2. UNCHANGED <<state, value>>
    BY <2>1 DEF ResolveTo
  <2>. QED  BY <2>2 DEF Once
<1>3. CASE r = <<"foreign">>
  <2>1. r[1] = "foreign"
    BY <1>3
  <2>2. UNCHANGED <<state, value>>
    BY <2>1 DEF ResolveTo
  <2>. QED  BY <2>2 DEF Once
<1>. QED  BY <1>1, <1>2, <1>3 DEF Results

LEMMA StepOnce ==
  ASSUME Inv, [Next]_vars
  PROVE  Once
<1>0. Base /\ PromInv /\ ListsInv /\ Pool \subseteq Ds /\ "fail" \in Kinds /\ "done" \in Kinds
  BY DeferredAssumption DEF Inv, Base, Kinds
<1>1. ASSUME UNCHANGED <<state, value>> PROVE Once
  BY <1>1 DEF Once
<1>2. ASSUME NEW d \in Ds, NEW k \in Kinds, NEW v \in Vals, Resolve(d, k, v) PROVE Once
  BY <1>0, <1>2, OneSettles DEF Resolve, Settle, rest
<1>3. CASE InternalRuns
  <2>1. subs' = subs
    BY <1>3 DEF InternalRuns, rest
  <2>2. ASSUME NEW m \in Masters, NEW k \in Kinds, NEW v \in Vals, Settle(m, k, v, Marked) PROVE Once
    BY <1>0, <2>1, <2>2, OneSettles DEF Settle, Masters
  <2>3. \/ UNCHANGED <<state, value>>
        \/ \E m \in Masters, v \in Vals : Settle(m, "done", v, Marked) \/ Settle(m, "fail", v, Marked)
    BY <1>0, <1>3, InternalDoes
  <2>. QED  BY <1>0, <1>1, <2>2, <2>3
<1>4. ASSUME NEW t \in timers, FollowedSettles(t) PROVE Once
  <2>1. subs' = subs
    BY <1>4 DEF FollowedSettles, rest
  <2>2. /\ t.p \in Ds /\ t.k \in Kinds /\ t.of \in Ds /\ state[t.of] = Outcome(t.k)
    BY <1>0 DEF PromInv, TokenType, Timers
  <2>3. value[t.of][1] \in Vals
    <3>1. state[t.of] # "pending"
      BY <2>2, KindFacts
    <3>2. value[t.of] # <<>> /\ value[t.of] \in Memories
      BY <1>0, <2>2, <3>1 DEF ListsInv, DefOK
    <3>. QED  BY <3>2 DEF Memories
  <2>4. UNCHANGED <<state, value>> \/ SettleFrom(timers \ {t}, t.p, t.k, value[t.of][1], <<>>)
    BY <1>4 DEF FollowedSettles
  <2>. QED  BY <1>0, <1>1, <2>1, <2>2, <2>3, <2>4, OneSettles
<1>5. ASSUME NEW r, HandlerReturns(r) PROVE Once
  <2>1. subs' = subs /\ r \in Results(Top.d) /\ ResolveTo(Top.d, 0, r, Handled)
        /\ stack # <<>> /\ Top.at = "process"
    BY <1>5 DEF HandlerReturns
  <2>2. Top.d \in Ds
    BY <1>0, <2>1, TopFacts DEF FrameOK
  <2>. QED  BY <1>0, <2>1, <2>2, OneResolves
<1>6. ASSUME NEW v \in Vals, HandlerThrows(v) PROVE Once
  <2>1. subs' = subs /\ Settle(Top.d, "fail", v, Handled) /\ stack # <<>> /\ Top.at = "process"
    BY <1>6 DEF HandlerThrows, rest
  <2>2. Top.d \in Ds
    BY <1>0, <2>1, TopFacts DEF FrameOK
  <2>. QED  BY <1>0, <2>1, <2>2, OneSettles DEF Settle
<1>7. ASSUME NEW v \in Vals, ForeignThenThrows(v) PROVE Once
  <2>1. subs' = subs /\ stack # <<>> /\ Top.at = "then"
        /\ (Settle(Top.d, "fail", v, Outer) \/ UNCHANGED <<state, value>>)
    BY <1>7 DEF ForeignThenThrows, rest
  <2>2. Top.d \in Ds
    BY <1>0, <2>1, ThenTop
  <2>. QED  BY <1>0, <1>1, <2>1, <2>2, OneSettles DEF Settle
<1>8. ASSUME NEW p, NEW n, NEW r, ForeignCalls(p, n, r) PROVE Once
  <2>1. /\ subs' = subs /\ <<p, n>> \in handed
        /\ r \in Results(p) \cup {<<"reject", v>> : v \in Vals}
        /\ \/ UNCHANGED <<state, value>>
           \/ r[1] = "reject" /\ Settle(p, "fail", r[2], stack)
           \/ r[1] # "reject" /\ ResolveTo(p, n, r, stack)
    BY <1>8 DEF ForeignCalls
  <2>2. p \in Ds
    BY <1>0, <2>1 DEF PromInv
  <2>3. CASE r[1] = "reject" /\ Settle(p, "fail", r[2], stack)
    <3>1. r[2] \in Vals
      BY <2>1, <2>3 DEF Results
    <3>. QED  BY <1>0, <2>1, <2>2, <2>3, <3>1, OneSettles DEF Settle
  <2>4. CASE r[1] # "reject" /\ ResolveTo(p, n, r, stack)
    <3>1. r \in Results(p)
      BY <2>1, <2>4
    <3>. QED  BY <1>0, <2>1, <2>2, <2>4, <3>1, OneResolves
  <2>. QED  BY <1>1, <2>1, <2>3, <2>4
<1>9. CASE UNCHANGED vars
  BY <1>1, <1>9 DEF vars
<1>10. CASE Next
  <2>1. \/ \E d \in Ds, k \in Kinds, v \in Vals : Resolve(d, k, v)
        \/ InternalRuns
        \/ \E t \in timers : FollowedSettles(t)
        \/ \E r : HandlerReturns(r)
        \/ \E v \in Vals : HandlerThrows(v) \/ ForeignThenThrows(v)
        \/ \E p, n, r : ForeignCalls(p, n, r)
        \/ UNCHANGED <<state, value>>
    <3>1. \A d, v : Notify(d, v) => UNCHANGED <<state, value>>
      BY DEF Notify
    <3>2. \A d, k, f : AddListener(d, k, f) => UNCHANGED <<state, value>>
      BY DEF AddListener
    <3>3. \A d, p : Then(d, p) => UNCHANGED <<state, value>>
      BY DEF Then
    <3>4. \A S, m : When(S, m) => UNCHANGED <<state, value>>
      BY DEF When
    <3>5. \A s : WhenAdopts(s) => UNCHANGED <<state, value>>
      BY DEF WhenAdopts
    <3>6. CallbackReturns \/ CallbackThrows \/ ForeignThenReturns \/ Leave => UNCHANGED <<state, value>>
      BY DEF CallbackReturns, CallbackThrows, ForeignThenReturns, Leave
    <3>7. \A t : TimerFires(t) => UNCHANGED <<state, value>>
      BY DEF TimerFires
    <3>. QED  BY <1>10, <3>1, <3>2, <3>3, <3>4, <3>5, <3>6, <3>7 DEF Next
  <2>. QED  BY <1>1, <1>2, <1>3, <1>4, <1>5, <1>6, <1>7, <1>8, <2>1
<1>. QED  BY <1>9, <1>10

(* Whatever its callbacks, handlers and thenables call, however often and in
   whatever order, a deferred is settled once, and with one value
   (jquery-3.4.1.js:3414-3770). *)
THEOREM SettledOnce == Spec => SettledForGood
<1>1. Inv /\ [Next]_vars => [\A d \in Ds : Settled(d) =>
                             state'[d] = state[d] /\ value'[d] = value[d]]_vars
  BY StepOnce DEF Once
<1>. QED  BY <1>1, Always, PTL DEF Spec, SettledForGood

-----------------------------------------------------------------------------
(* The masters of when(). *)

(* A callback is in a list, once at most; it is still to be called: it stands
   behind the one the list has come to, or the list has come to it. *)
Holds(l, c) == \E j \in 1 .. Len(l.list) : l.list[j] = c

Single(l, c) == \A i, j \in 1 .. Len(l.list) : l.list[i] = c /\ l.list[j] = c => i = j

Due(l, free, c) ==
  \E j \in 1 .. Len(l.list) : l.list[j] = c /\ (j > l.index \/ (free /\ j = l.index))

(* The list on the stack does not wait for a callback of when(). *)
Free(stk, s, k) == \E i \in 1 .. Len(stk) : IsList(stk[i], s, k) /\ ~stk[i].busy

(* when() has yet to adopt s for its master m. *)
Adopts(stk, s, m) ==
  \E i \in 1 .. Len(stk) : stk[i].at = "when" /\ stk[i].d = m /\ s \in stk[i].k

OneWhen(stk) ==
  \A i, j \in 1 .. Len(stk) :
    stk[i].at = "when" /\ stk[j].at = "when" /\ stk[i].d = stk[j].d => i = j

WhenSame(a, b) ==
  /\ \A s, m : Adopts(b, s, m) <=> Adopts(a, s, m)
  /\ OneWhen(a) => OneWhen(b)

FreeSame(a, b) == \A s \in Ds, k \in Kinds : Free(b, s, k) <=> Free(a, s, k)

Alike(a, b) == WhenSame(a, b) /\ FreeSame(a, b)

(* What a step may do to a callback of when() in a list. *)
Onward(l, a, r, b, c) ==
  /\ Single(l, c) => Single(r, c)
  /\ Holds(r, c) => Holds(l, c)
  /\ Due(r, b, c) => Due(l, a, c)

Stays(l, a, r, b, c) == Due(l, a, c) => Due(r, b, c)

Moves(a, b, s, k, c) ==
  Onward(lists[s][k], Free(a, s, k), lists'[s][k], Free(b, s, k), c)

Keeps(a, b, s, k, c) ==
  state'[s] \in {"pending", Outcome(k)} =>
    Stays(lists[s][k], Free(a, s, k), lists'[s][k], Free(b, s, k), c)

AllMove(a, b) == \A s \in Ds, k \in Kinds : \A c : c \notin Fns => Moves(a, b, s, k, c)
AllKeep(a, b) == \A s \in Ds, k \in Kinds : \A c : c \notin Fns => Keeps(a, b, s, k, c)

LEMMA DueAdd ==
  ASSUME NEW E, NEW l, ListOK(l, E), NEW k \in Kinds, NEW s, NEW v, KindOK(l, k, s, v),
         s \in {"pending", "resolved", "rejected"},
         NEW f, NEW r, AddedTo(l, k, s, f, r), NEW c, c # f, NEW a \in BOOLEAN, NEW b \in BOOLEAN,
         l.firing => a = b
  PROVE  Onward(l, a, r, b, c) /\ Stays(l, a, r, b, c)
<1>1. /\ l.list \in Seq(E) /\ Len(l.list) \in Nat /\ l.index \in Nat /\ l.firing \in BOOLEAN
      /\ ~l.firing => l.index = 0
  BY Fields DEF ListOK, Shape
<1>2. s \in {"pending", Outcome(k), Outcome(Other(k))}
  BY DEF Kinds, Outcome, Other
<1>3. CASE s = "pending" \/ l.firing
  <2>1. r.list = Append(l.list, f) /\ r.index = l.index
    BY <1>3 DEF AddedTo
  <2>2. PICK n : n = Len(l.list)
    OBVIOUS
  <2>3. /\ Len(r.list) = n + 1 /\ r.list[n + 1] = f /\ n \in Nat
        /\ \A j \in 1 .. n : r.list[j] = l.list[j] /\ j \in 1 .. n + 1
        /\ \A j \in 1 .. n + 1 : j \in 1 .. n \/ j = n + 1
    BY <1>1, <2>1, <2>2
  <2>4. \A j \in 1 .. n : a = b \/ j # l.index
    BY <1>1, <1>3, <2>3 DEF KindOK
  <2>. QED  BY ONLY <2>1, <2>2, <2>3, <2>4, c # f DEF Onward, Stays, Single, Holds, Due
<1>4. CASE s = Outcome(k) /\ ~l.firing
  <2>1. l.list = <<>> /\ r.list = <<f>>
    BY <1>4 DEF AddedTo, KindOK
  <2>2. Len(<<>>) = 0 /\ Len(<<f>>) = 1 /\ <<f>>[1] = f
    OBVIOUS
  <2>3. (\A j \in 1 .. Len(r.list) : r.list[j] = f) /\ ~\E j \in 1 .. Len(l.list) : TRUE
    BY ONLY <2>1, <2>2
  <2>. QED  BY ONLY <2>3, c # f DEF Onward, Stays, Single, Holds, Due
<1>5. CASE s = Outcome(Other(k)) /\ ~l.firing
  <2>1. r = l /\ l.list = <<>>
    BY <1>5 DEF AddedTo, KindOK
  <2>2. ~\E j \in 1 .. Len(l.list) : TRUE
    BY <2>1
  <2>. QED  BY ONLY <2>1, <2>2 DEF Onward, Stays, Single, Holds, Due
<1>. QED  BY <1>2, <1>3, <1>4, <1>5

(* The one that is added. *)
LEMMA DueAdded ==
  ASSUME NEW E, NEW l, ListOK(l, E), NEW k \in Kinds, NEW s, NEW v, KindOK(l, k, s, v),
         s \in {"pending", "resolved", "rejected"},
         NEW f, NEW r, AddedTo(l, k, s, f, r), NEW b \in BOOLEAN,
         s = Outcome(k) /\ ~l.firing => b
  PROVE  /\ s # Outcome(Other(k)) => Due(r, b, f)
         /\ ~Holds(l, f) => Single(r, f)
         /\ s = Outcome(Other(k)) => r = l
<1>1. /\ l.list \in Seq(E) /\ Len(l.list) \in Nat /\ l.index \in Nat /\ l.firing \in BOOLEAN
      /\ l.index <= Len(l.list)
  BY Fields DEF ListOK, Shape
<1>2. s \in {"pending", Outcome(k), Outcome(Other(k))} /\ Outcome(k) # Outcome(Other(k))
      /\ (s = Outcome(Other(k)) => ~l.firing /\ l.list = <<>>) /\ Outcome(Other(k)) # "pending"
  BY DEF Kinds, Outcome, Other, KindOK
<1>3. CASE s = "pending" \/ l.firing
  <2>1. r.list = Append(l.list, f) /\ r.index = l.index
    BY <1>3 DEF AddedTo
  <2>2. PICK n : n = Len(l.list)
    OBVIOUS
  <2>3. /\ Len(r.list) = n + 1 /\ r.list[n + 1] = f /\ n \in Nat
        /\ \A j \in 1 .. n : r.list[j] = l.list[j]
        /\ \A j \in 1 .. n + 1 : j \in 1 .. n \/ j = n + 1
        /\ n + 1 \in 1 .. n + 1 /\ n + 1 > r.index
    BY <1>1, <2>1, <2>2
  <2>4. Due(r, b, f)
    BY ONLY <2>3 DEF Due
  <2>5. ~Holds(l, f) => Single(r, f)
    BY ONLY <2>2, <2>3 DEF Single, Holds
  <2>. QED  BY <1>2, <1>3, <2>4, <2>5
<1>4. CASE s = Outcome(k) /\ ~l.firing
  <2>1. r.list = <<f>> /\ r.index = 1 /\ b
    BY <1>4 DEF AddedTo
  <2>2. Len(<<f>>) = 1 /\ <<f>>[1] = f /\ 1 \in 1 .. 1 /\ \A i \in 1 .. 1 : i = 1
    OBVIOUS
  <2>. QED  BY ONLY <1>2, <1>4, <2>1, <2>2 DEF Due, Single
<1>5. CASE s = Outcome(Other(k)) /\ ~l.firing
  <2>1. r = l /\ l.list = <<>>
    BY <1>5, <1>2 DEF AddedTo
  <2>2. ~\E j \in 1 .. Len(l.list) : TRUE
    BY <2>1
  <2>. QED  BY ONLY <1>5, <2>1, <2>2 DEF Single
<1>. QED  BY <1>2, <1>3, <1>4, <1>5

LEMMA DuePass ==
  ASSUME NEW E, NEW l, l.list \in Seq(E), l.index \in 1 .. Len(l.list),
         NEW r, PassedOn(l, r), NEW c, NEW a \in BOOLEAN, NEW b \in BOOLEAN,
         r.firing <=> b, a => l.list[l.index] # c
  PROVE  Onward(l, a, r, b, c) /\ Stays(l, a, r, b, c)
<1>1. PICK n, i : n = Len(l.list) /\ i = l.index
  OBVIOUS
<1>2. n \in Nat /\ i \in 1 .. n
  BY <1>1
<1>3. CASE i < n
  <2>1. r.list = l.list /\ r.index = i + 1 /\ b
    BY <1>1, <1>3 DEF PassedOn
  <2>2. \A j \in 1 .. n : (j > i + 1 \/ j = i + 1) <=> j > i
    BY <1>2
  <2>. QED  BY ONLY <1>1, <2>1, <2>2, a => l.list[l.index] # c DEF Onward, Stays, Single, Holds, Due
<1>4. CASE i = n
  <2>1. r.list = <<>>
    BY <1>1, <1>4 DEF PassedOn
  <2>2. (~\E j \in 1 .. Len(r.list) : TRUE) /\ \A j \in 1 .. n : ~(j > i)
    BY <1>2, <1>4, <2>1
  <2>. QED  BY ONLY <1>1, <2>2, a => l.list[l.index] # c DEF Onward, Stays, Single, Holds, Due
<1>. QED  BY <1>2, <1>3, <1>4

LEMMA DueGone ==
  ASSUME NEW l, NEW r, r.list = <<>>, NEW a, NEW b, NEW c
  PROVE  Onward(l, a, r, b, c)
<1>1. ~\E j \in 1 .. Len(r.list) : TRUE
  OBVIOUS
<1>. QED  BY <1>1 DEF Onward, Single, Holds, Due

LEMMA DueFired ==
  ASSUME NEW E, NEW L, NEW M, NEW k \in Kinds, Fired(L, k, M), ListOK(L[k], E),
         NEW a \in BOOLEAN, NEW b \in BOOLEAN, M[k].firing => b, NEW c
  PROVE  Onward(L[k], a, M[k], b, c) /\ Stays(L[k], a, M[k], b, c)
<1>1. L[k].list \in Seq(E) /\ Len(L[k].list) \in Nat /\ L[k].index = 0
  BY Fields DEF ListOK, Shape, Fired
<1>2. CASE M[k].firing
  <2>1. M[k].list = L[k].list /\ M[k].index = 1 /\ b
    BY <1>2 DEF Fired
  <2>2. \A j \in 1 .. Len(L[k].list) : (j > 1 \/ j = 1) /\ j > 0
    BY <1>1
  <2>. QED  BY ONLY <1>1, <2>1, <2>2 DEF Onward, Stays, Single, Holds, Due
<1>3. CASE ~M[k].firing
  <2>1. M[k].list = <<>> /\ L[k].list = <<>>
    BY <1>3 DEF Fired
  <2>2. ~\E j \in 1 .. Len(<<>>) : TRUE
    OBVIOUS
  <2>. QED  BY ONLY <2>1, <2>2 DEF Onward, Stays, Single, Holds, Due
<1>. QED  BY <1>2, <1>3
-----------------------------------------------------------------------------
(* What the changes of the stack are to lists and masters. *)
LEMMA AlikeStays == \A a : Alike(a, a)
BY DEF Alike, WhenSame, FreeSame

LEMMA AlikeOn ==
  ASSUME NEW a, NEW b, NEW x, Alike(a, b), Alike(b, x)
  PROVE  Alike(a, x)
BY DEF Alike, WhenSame, FreeSame

LEMMA AlikePushed ==
  ASSUME NEW b \in Seq(Frames), NEW f \in Frames, f.at \in {"process", "then"}
  PROVE  Alike(b, Append(b, f))
<1>1. PICK stk : stk = Append(b, f)
  OBVIOUS
<1>2. /\ Len(stk) = Len(b) + 1 /\ stk[Len(b) + 1] = f
      /\ \A i \in 1 .. Len(b) : stk[i] = b[i] /\ i \in 1 .. Len(stk)
      /\ \A i \in 1 .. Len(stk) : i \in 1 .. Len(b) \/ i = Len(b) + 1
  BY <1>1
<1>3. Alike(b, stk)
  BY ONLY <1>2, f.at \in {"process", "then"}
     DEF Alike, WhenSame, FreeSame, Adopts, OneWhen, Free, IsList
<1>. QED  BY <1>1, <1>3

LEMMA AlikePopped ==
  ASSUME NEW stk, NEW ls, StackOK(stk, ls), stk # <<>>, NEW f, f = stk[Len(stk)],
         f.at \in {"process", "then"} \/ (f.at = "when" /\ f.k = {})
  PROVE  Alike(stk, SubSeq(stk, 1, Len(stk) - 1))
<1>1. Len(stk) \in Nat /\ Len(stk) # 0
  BY DEF StackOK
<1>2. PICK b, n : n = Len(stk) - 1 /\ b = SubSeq(stk, 1, n)
  OBVIOUS
<1>3. n \in 0 .. Len(stk)
  BY <1>1, <1>2
<1>4. Len(b) = n /\ \A i \in 1 .. n : b[i] = stk[i]
  BY <1>2, <1>3, Popped
<1>5. /\ \A i \in 1 .. Len(stk) : i \in 1 .. n \/ i = Len(stk)
      /\ \A i \in 1 .. n : i \in 1 .. Len(stk)
  BY <1>1, <1>2
<1>6. Alike(stk, b)
  BY ONLY <1>4, <1>5, f = stk[Len(stk)], f.at \in {"process", "then"} \/ (f.at = "when" /\ f.k = {})
     DEF Alike, WhenSame, FreeSame, Adopts, OneWhen, Free, IsList
<1>. QED  BY <1>2, <1>6

(* The innermost frame changed: what is said of it alone changes. *)
SameBut(a, b, d, k) == \A s, j : s # d \/ j # k => (Free(b, s, j) <=> Free(a, s, j))

TopAlike(stk, f, b) ==
  /\ WhenSame(stk, b)
  /\ f.at # "list" => FreeSame(stk, b)
  /\ f.at = "list" => /\ SameBut(stk, b, f.d, f.k)
                      /\ Free(stk, f.d, f.k) <=> ~stk[Len(stk)].busy
                      /\ Free(b, f.d, f.k) <=> ~f.busy

LEMMA AlikeTop ==
  ASSUME NEW stk, NEW ls, StackOK(stk, ls), stk # <<>>, NEW f, NEW b,
         f.at = stk[Len(stk)].at, f.at \in {"process", "then", "list"}, f.d = stk[Len(stk)].d,
         f.k = stk[Len(stk)].k,
         Len(b) = Len(stk),
         \A i \in 1 .. Len(stk) : b[i] = IF i = Len(stk) THEN f ELSE stk[i]
  PROVE  TopAlike(stk, f, b)
<1>1. Len(stk) \in Nat /\ Len(stk) # 0 /\ Len(stk) \in 1 .. Len(stk)
  BY DEF StackOK
<1>2. WhenSame(stk, b)
  BY SMTT(30) DEF WhenSame, Adopts, OneWhen
<1>3. \A s, k : f.at # "list" \/ s # f.d \/ k # f.k => (Free(b, s, k) <=> Free(stk, s, k))
  BY DEF Free, IsList
<1>4. CASE f.at = "list"
  <2>1. \A i \in 1 .. Len(stk) : IsList(stk[i], f.d, f.k) <=> i = Len(stk)
    BY <1>1, <1>4 DEF StackOK, IsList
  <2>2. \A i \in 1 .. Len(stk) : IsList(b[i], f.d, f.k) <=> i = Len(stk)
    BY <2>1, <1>4 DEF IsList
  <2>3. (Free(stk, f.d, f.k) <=> ~stk[Len(stk)].busy) /\ (Free(b, f.d, f.k) <=> ~b[Len(stk)].busy)
    BY <1>1, <2>1, <2>2 DEF Free
  <2>. QED  BY <1>1, <1>2, <1>3, <1>4, <2>3 DEF TopAlike, SameBut
<1>. QED  BY <1>2, <1>3, <1>4 DEF FreeSame, TopAlike

(* A list entered. *)
LEMMA AlikeEntered ==
  ASSUME NEW b \in Seq(Frames), NEW d \in Ds, NEW k \in AllKinds, NEW stk,
         stk = Append(b, Firing(d, k))
  PROVE  WhenSame(b, stk) /\ Free(stk, d, k) /\ SameBut(b, stk, d, k)
<1>1. PICK f : f = Firing(d, k)
  OBVIOUS
<1>2. f \in Frames /\ f.at = "list" /\ f.d = d /\ f.k = k /\ ~f.busy
  BY <1>1 DEF Firing, Frames
<1>3. /\ Len(stk) = Len(b) + 1 /\ stk[Len(b) + 1] = f /\ Len(b) + 1 \in 1 .. Len(stk)
      /\ \A i \in 1 .. Len(b) : stk[i] = b[i] /\ i \in 1 .. Len(stk)
      /\ \A i \in 1 .. Len(stk) : i \in 1 .. Len(b) \/ i = Len(b) + 1
  BY <1>1, <1>2
<1>4. WhenSame(b, stk)
  BY ONLY <1>2, <1>3 DEF WhenSame, Adopts, OneWhen
<1>5. Free(stk, d, k) /\ SameBut(b, stk, d, k)
  BY ONLY <1>2, <1>3 DEF Free, IsList, SameBut
<1>. QED  BY <1>4, <1>5

(* The stack cut off. *)
Cut(stk, b) ==
  /\ \A s, k : Free(b, s, k) => Free(stk, s, k)
  /\ \A s, m : Adopts(b, s, m) => Adopts(stk, s, m)
  /\ OneWhen(stk) => OneWhen(b)

LEMMA AlikeCut ==
  ASSUME NEW stk, NEW ls, StackOK(stk, ls), NEW n \in 0 .. Len(stk), NEW b, b = SubSeq(stk, 1, n)
  PROVE  Cut(stk, b)
<1>1. Len(b) = n /\ (\A i \in 1 .. n : b[i] = stk[i]) /\ Len(stk) \in Nat
  BY Popped
<1>2. \A i \in 1 .. n : i \in 1 .. Len(stk)
  BY <1>1
<1>. QED  BY ONLY <1>1, <1>2 DEF Cut, Free, Adopts, OneWhen

(* The innermost list left. *)
ListOff(stk, d, k, b) ==
  /\ WhenSame(stk, b) /\ ~Free(b, d, k)
  /\ Free(stk, d, k) <=> ~stk[Len(stk)].busy
  /\ SameBut(stk, b, d, k)

LEMMA AlikeLeft ==
  ASSUME NEW stk, NEW ls, StackOK(stk, ls), stk # <<>>, NEW d, NEW k, IsList(stk[Len(stk)], d, k),
         NEW b, b = SubSeq(stk, 1, Len(stk) - 1)
  PROVE  ListOff(stk, d, k, b)
<1>1. Len(stk) \in Nat /\ Len(stk) # 0 /\ Len(stk) \in 1 .. Len(stk)
  BY DEF StackOK
<1>2. PICK n : n = Len(stk) - 1 /\ n \in 0 .. Len(stk) /\ b = SubSeq(stk, 1, n)
  BY <1>1
<1>3. Len(b) = n /\ \A i \in 1 .. n : b[i] = stk[i]
  BY <1>2, Popped
<1>4. /\ \A i \in 1 .. Len(stk) : i \in 1 .. n \/ i = Len(stk)
      /\ \A i \in 1 .. n : i \in 1 .. Len(stk) /\ i # Len(stk)
  BY <1>1, <1>2
<1>5. \A i \in 1 .. Len(stk) : IsList(stk[i], d, k) <=> i = Len(stk)
  BY <1>1 DEF StackOK, IsList
<1>6. stk[Len(stk)].at = "list" /\ stk[Len(stk)].d = d /\ stk[Len(stk)].k = k
  BY DEF IsList
<1>7. WhenSame(stk, b)
  BY ONLY <1>3, <1>4, <1>6 DEF WhenSame, Adopts, OneWhen
<1>8. ~Free(b, d, k) /\ (Free(stk, d, k) <=> ~stk[Len(stk)].busy)
  BY ONLY <1>1, <1>3, <1>4, <1>5 DEF Free
<1>9. \A s, j : s # d \/ j # k => (Free(b, s, j) <=> Free(stk, s, j))
  BY ONLY <1>3, <1>4, <1>6 DEF Free, IsList
<1>. QED  BY <1>7, <1>8, <1>9 DEF ListOff, SameBut

-----------------------------------------------------------------------------
(* What holds of a master and of one of its subordinates.  A subordinate is
   held until it has been counted: it is not resolved, or when() has yet to
   adopt it, or the callback that counts it is still to be called. *)
ToCome(s, k, c) == Due(lists[s][k], Free(stack, s, k), c)

Held(m, s) ==
  state[s] # "resolved" \/ ToCome(s, "done", Update(m)) \/ Adopts(stack, s, m)

PairOK(m, s) ==
  /\ Adopts(stack, s, m) \/ Holds(lists[s]["done"], Update(m)) \/ Holds(lists[s]["fail"], RejectMaster(m))
       => s \in subs[m]
  /\ Single(lists[s]["done"], Update(m))
  /\ Adopts(stack, s, m) => ~Holds(lists[s]["done"], Update(m))
  /\ s \in subs[m] /\ ~threw /\ ~Adopts(stack, s, m) =>
       /\ ~Settled(s) => ToCome(s, "done", Update(m)) /\ ToCome(s, "fail", RejectMaster(m))
       /\ state[s] = "rejected" => Settled(m) \/ ToCome(s, "fail", RejectMaster(m))

AllHeld(m) == {s \in subs[m] : Held(m, s)}

MasterOK(m) ==
  /\ remaining[m] \in Nat /\ Cardinality(AllHeld(m)) <= remaining[m]
  /\ remaining[m] <= Cardinality(subs[m])
  /\ ~threw => remaining[m] = Cardinality(AllHeld(m))
  /\ remaining[m] = 0 => Settled(m)
  /\ state[m] = "resolved" => remaining[m] = 0
  /\ state[m] = "rejected" => \E s \in subs[m] : state[s] = "rejected"

MastersInv ==
  /\ remaining \in [Ds -> Nat]
  /\ \A d \in Ds : subs[d] \subseteq Ds /\ (d \notin Masters => remaining[d] = 0)
  /\ OneWhen(stack)
  /\ \A m \in Masters : MasterOK(m) /\ \A s \in Ds : PairOK(m, s)

(* What a step does to a subordinate of a master: its callbacks move on, and
   unless one has thrown they are not lost. *)
PairMoved(m, s) ==
  /\ Moves(stack, stack', s, "done", Update(m)) /\ Moves(stack, stack', s, "fail", RejectMaster(m))
  /\ Adopts(stack', s, m) => Adopts(stack, s, m)
  /\ ~threw' => /\ Keeps(stack, stack', s, "done", Update(m))
                /\ Keeps(stack, stack', s, "fail", RejectMaster(m))
                /\ Adopts(stack, s, m) => Adopts(stack', s, m)

Carried(m, s) ==
  /\ PairOK(m, s)'
  /\ Held(m, s)' => Held(m, s)
  /\ ~threw' /\ s \in subs[m] /\ Held(m, s) => Held(m, s)'

LEMMA Primes ==
  ASSUME NEW m, NEW s
  PROVE  /\ \A k, c : ToCome(s, k, c)' <=> Due(lists'[s][k], Free(stack', s, k), c)
         /\ Held(m, s)' <=> state'[s] # "resolved" \/ ToCome(s, "done", Update(m))' \/ Adopts(stack', s, m)
BY DEF ToCome, Held

LEMMA PairKept ==
  ASSUME Once, threw => threw', NEW m \in Ds, NEW s \in Ds, subs'[m] = subs[m],
         state[s] \in {"pending", "resolved", "rejected"}, state'[s] \in {"pending", "resolved", "rejected"},
         PairOK(m, s), PairMoved(m, s)
  PROVE  Carried(m, s)
<1>1. /\ state[s] # "pending" => state'[s] = state[s]
      /\ state[m] # "pending" => state'[m] = state[m]
  BY DEF Once, Settled
<1>2. /\ ToCome(s, "done", Update(m))' => ToCome(s, "done", Update(m))
      /\ ToCome(s, "fail", RejectMaster(m))' => ToCome(s, "fail", RejectMaster(m))
      /\ Single(lists[s]["done"], Update(m)) => Single(lists'[s]["done"], Update(m))
      /\ Holds(lists'[s]["done"], Update(m)) => Holds(lists[s]["done"], Update(m))
      /\ Holds(lists'[s]["fail"], RejectMaster(m)) => Holds(lists[s]["fail"], RejectMaster(m))
  BY DEF PairMoved, Moves, Onward, ToCome
<1>3. ~threw' =>
      /\ state'[s] \in {"pending", "resolved"} /\ ToCome(s, "done", Update(m)) => ToCome(s, "done", Update(m))'
      /\ state'[s] \in {"pending", "rejected"} /\ ToCome(s, "fail", RejectMaster(m)) => ToCome(s, "fail", RejectMaster(m))'
      /\ Adopts(stack, s, m) => Adopts(stack', s, m)
  BY DEF PairMoved, Keeps, Stays, ToCome, Outcome
<1>4. Adopts(stack', s, m) => Adopts(stack, s, m)
  BY DEF PairMoved
<1>5. PairOK(m, s)'
  BY <1>1, <1>2, <1>3, <1>4 DEF PairOK, Settled
<1>6. Held(m, s)' => Held(m, s)
  BY <1>1, <1>2, <1>4 DEF Held
<1>7. ~threw' /\ s \in subs[m] /\ Held(m, s) => Held(m, s)'
  BY <1>1, <1>2, <1>3, <1>4 DEF Held, PairOK, Settled
<1>. QED  BY <1>5, <1>6, <1>7 DEF Carried

LEMMA HeldFinite ==
  ASSUME MastersInv, NEW m \in Ds
  PROVE  /\ IsFiniteSet(subs[m]) /\ IsFiniteSet(AllHeld(m)) /\ AllHeld(m) \subseteq subs[m]
         /\ Cardinality(AllHeld(m)) \in Nat /\ Cardinality(subs[m]) \in Nat
         /\ Cardinality(subs[m]) <= Cardinality(Ds) /\ Cardinality(Ds) \in Nat
         /\ \A T : T \subseteq AllHeld(m) =>
              Cardinality(T) \in Nat /\ Cardinality(T) <= Cardinality(AllHeld(m))
<1>1. subs[m] \subseteq Ds /\ IsFiniteSet(Ds)
  BY DeferredAssumption DEF MastersInv
<1>2. IsFiniteSet(subs[m]) /\ Cardinality(subs[m]) <= Cardinality(Ds)
  BY <1>1, FS_Subset
<1>3. AllHeld(m) \subseteq subs[m]
  BY DEF AllHeld
<1>4. IsFiniteSet(AllHeld(m))
  BY <1>2, <1>3, FS_Subset
<1>5. \A T : T \subseteq AllHeld(m) => IsFiniteSet(T) /\ Cardinality(T) <= Cardinality(AllHeld(m))
  BY <1>4, FS_Subset
<1>. QED  BY <1>1, <1>2, <1>3, <1>4, <1>5, FS_CardinalityType

(* A step that settles no master and counts nothing. *)
LEMMA MasterKept ==
  ASSUME MastersInv, Once, threw => threw', NEW m \in Masters, m \in Ds,
         subs'[m] = subs[m], remaining'[m] = remaining[m],
         \A s \in Ds : Carried(m, s),
         \/ state'[m] = state[m]
         \/ state'[m] = "rejected" /\ \E s \in subs[m] : state[s] = "rejected"
  PROVE  MasterOK(m)'
<1>1. MasterOK(m) /\ subs[m] \subseteq Ds
  BY DEF MastersInv
<1>2. AllHeld(m)' \subseteq AllHeld(m)
  BY <1>1 DEF AllHeld, Carried
<1>3. ~threw' => AllHeld(m)' = AllHeld(m)
  BY <1>1, <1>2 DEF AllHeld, Carried
<1>4. Cardinality(AllHeld(m))' \in Nat /\ Cardinality(AllHeld(m)') <= Cardinality(AllHeld(m))
      /\ Cardinality(AllHeld(m)) \in Nat
  BY <1>2, HeldFinite
<1>5. PICK x, y : x = AllHeld(m) /\ y = AllHeld(m)'
  OBVIOUS
<1>6. /\ remaining'[m] \in Nat /\ Cardinality(y) <= remaining'[m]
      /\ remaining'[m] <= Cardinality(subs'[m])
      /\ ~threw' => remaining'[m] = Cardinality(y)
  BY <1>1, <1>3, <1>4, <1>5, HeldFinite DEF MasterOK
<1>7. \A s \in Ds : state[s] # "pending" => state'[s] = state[s]
  BY DEF Once, Settled
<1>8. /\ remaining'[m] = 0 => Settled(m)'
      /\ state'[m] = "resolved" => remaining'[m] = 0
  BY <1>1, <1>7 DEF MasterOK, Settled
<1>9. state'[m] = "rejected" => \E s \in subs'[m] : state'[s] = "rejected"
  <2>1. state'[m] = "rejected" => \E s \in subs[m] : state[s] = "rejected"
    BY <1>1 DEF MasterOK
  <2>. QED  BY <1>1, <1>7, <2>1
<1>. QED  BY <1>5, <1>6, <1>8, <1>9 DEF MasterOK

(* The steps that count nothing and settle no master. *)
LEMMA MastersCarried ==
  ASSUME MastersInv, Once, threw => threw', UNCHANGED <<subs, remaining>>,
         OneWhen(stack'),
         \A m \in Masters : state'[m] = state[m],
         \A m \in Masters, s \in Ds : Carried(m, s)
  PROVE  MastersInv'
<1>1. Masters' = Masters /\ \A m \in Masters : m \in Ds
  BY DeferredAssumption DEF Masters
<1>2. ASSUME NEW m \in Masters PROVE MasterOK(m)'
  BY <1>1, <1>2, MasterKept
<1>3. \A m \in Masters, s \in Ds : PairOK(m, s)'
  BY DEF Carried
<1>4. /\ remaining' \in [Ds -> Nat]
      /\ \A d \in Ds : subs'[d] \subseteq Ds /\ (d \notin Masters' => remaining'[d] = 0)
  BY <1>1 DEF MastersInv
<1>. QED  BY <1>1, <1>2, <1>3, <1>4 DEF MastersInv

LEMMA MastersKept ==
  ASSUME Inv, MastersInv, Once, threw => threw', UNCHANGED <<subs, remaining>>,
         OneWhen(stack) => OneWhen(stack'),
         \A m \in Masters : state'[m] = state[m],
         \A m \in Masters, s \in Ds : PairMoved(m, s),
         \A s \in Ds : state'[s] \in {"pending", "resolved", "rejected"}
  PROVE  MastersInv'
<1>1. \A s \in Ds : state[s] \in {"pending", "resolved", "rejected"}
  BY DEF Inv, Base, ListsInv, DefOK
<1>2. ASSUME NEW m \in Masters, NEW s \in Ds PROVE Carried(m, s)
  <2>1. PairOK(m, s) /\ m \in Ds /\ subs'[m] = subs[m]
    BY DeferredAssumption DEF MastersInv, Masters
  <2>. QED  BY <1>1, <1>2, <2>1, PairKept
<1>3. OneWhen(stack')
  BY DEF MastersInv
<1>. QED  BY <1>2, <1>3, MastersCarried

LEMMA AllMoved ==
  ASSUME AllMove(stack, stack'), ~threw' => AllKeep(stack, stack') /\ WhenSame(stack, stack'),
         \A s, m : Adopts(stack', s, m) => Adopts(stack, s, m)
  PROVE  \A m \in Masters, s \in Ds : PairMoved(m, s)
<1>. TAKE m \in Masters, s \in Ds
<1>1. Update(m) \notin Fns /\ RejectMaster(m) \notin Fns /\ "done" \in Kinds /\ "fail" \in Kinds
  BY OwnCallbacks DEF Masters, Kinds
<1>2. Moves(stack, stack', s, "done", Update(m)) /\ Moves(stack, stack', s, "fail", RejectMaster(m))
  BY <1>1 DEF AllMove
<1>3. ~threw' => /\ Keeps(stack, stack', s, "done", Update(m))
                 /\ Keeps(stack, stack', s, "fail", RejectMaster(m))
  BY <1>1 DEF AllKeep
<1>. QED  BY <1>2, <1>3 DEF PairMoved, WhenSame

(* What the steps have in common: the invariants before and after. *)
OneStep == Inv /\ Inv' /\ MastersInv /\ Once
CountsNone == OneStep /\ UNCHANGED <<subs, remaining>>

LEMMA MastersCalm ==
  ASSUME CountsNone, UNCHANGED threw, \A m \in Masters : state'[m] = state[m],
         AllMove(stack, stack'), AllKeep(stack, stack'), WhenSame(stack, stack')
  PROVE  MastersInv'
<1>1. \A s, m : Adopts(stack', s, m) => Adopts(stack, s, m)
  BY DEF WhenSame
<1>2. \A m \in Masters, s \in Ds : PairMoved(m, s)
  BY <1>1, AllMoved
<1>3. \A s \in Ds : state'[s] \in {"pending", "resolved", "rejected"}
  BY DEF CountsNone, OneStep, Inv, Base, ListsInv, DefOK
<1>4. OneWhen(stack) => OneWhen(stack')
  BY DEF WhenSame
<1>. QED  BY <1>2, <1>3, <1>4, MastersKept DEF CountsNone, OneStep

(* The lists as they were. *)
LEMMA AlikeMoves ==
  ASSUME lists' = lists, NEW a, NEW b, FreeSame(a, b)
  PROVE  AllMove(a, b) /\ AllKeep(a, b)
BY DEF AllMove, AllKeep, Moves, Keeps, Onward, Stays, Due, FreeSame

LEMMA MastersSame ==
  ASSUME CountsNone, UNCHANGED <<threw, state, lists>>, Alike(stack, stack')
  PROVE  MastersInv'
BY AlikeMoves, MastersCalm DEF Alike

(* A deferred settled. *)
LEMMA SettleMoves ==
  ASSUME Base, subs' = subs, NEW ts, NEW d \in Ds, NEW k \in Kinds, NEW v \in Vals,
         NEW b, SettleFrom(ts, d, k, v, b), StackOK(b, lists)
  PROVE  /\ AllMove(b, stack') /\ AllKeep(b, stack') /\ WhenSame(b, stack')
         /\ \A s \in Ds : s # d => state'[s] = state[s]
         /\ Settled(d) => state'[d] = state[d]
         /\ ~Settled(d) => state'[d] = Outcome(k)
<1>1. /\ Settled(d) => Nothing(ts, b)
      /\ ~Settled(d) => Ends(ts, d, k, v, b)
  BY SettleIs DEF Base
<1>2. CASE Settled(d)
  <2>1. stack' = b /\ lists' = lists /\ state' = state
    BY <1>1, <1>2 DEF Nothing
  <2>2. Alike(b, b)
    BY AlikeStays
  <2>. QED  BY <1>2, <2>1, <2>2, AlikeMoves DEF Alike
<1>3. CASE ~Settled(d)
  <2>1. /\ Ends(ts, d, k, v, b) /\ DOMAIN state = Ds /\ DOMAIN lists = Ds /\ b \in Seq(Frames)
        /\ k \in AllKinds /\ Other(k) \in Kinds /\ \A j \in Kinds : j = k \/ j = Other(k)
    BY <1>1, <1>3, KindFacts DEF Base, ListsInv, StackOK
  <2>2. /\ state'[d] = Outcome(k) /\ \A s \in Ds : s # d => state'[s] = state[s] /\ lists'[s] = lists[s]
        /\ Fired(lists[d], k, lists'[d])
        /\ stack' = IF lists'[d][k].firing THEN Append(b, Firing(d, k)) ELSE b
    BY <2>1 DEF Ends
  <2>3. /\ WhenSame(b, stack') /\ (lists'[d][k].firing => Free(stack', d, k))
        /\ SameBut(b, stack', d, k)
    <3>1. CASE lists'[d][k].firing
      BY <2>1, <2>2, <3>1, AlikeEntered
    <3>2. CASE ~lists'[d][k].firing
      <4>1. stack' = b
        BY <2>2, <3>2
      <4>2. Alike(b, b)
        BY AlikeStays
      <4>. QED  BY <3>2, <4>1, <4>2 DEF Alike, SameBut
    <3>. QED  BY <3>1, <3>2
  <2>4. ListOK(lists[d][k], Entries[k])
    BY <2>1, ListFacts DEF Base
  <2>5. ASSUME NEW c
        PROVE  /\ Moves(b, stack', d, k, c) /\ Keeps(b, stack', d, k, c)
               /\ Moves(b, stack', d, Other(k), c) /\ Keeps(b, stack', d, Other(k), c)
    <3>1. PICK x, y \in BOOLEAN : x = Free(b, d, k) /\ y = Free(stack', d, k)
      BY DEF Free
    <3>2. PICK L, M, E : L = lists[d] /\ M = lists'[d] /\ E = Entries[k]
      OBVIOUS
    <3>3. /\ Onward(L[k], x, M[k], y, c) /\ Stays(L[k], x, M[k], y, c)
          /\ Onward(L[Other(k)], Free(b, d, Other(k)), M[Other(k)], Free(stack', d, Other(k)), c)
      <4>1. Fired(L, k, M) /\ ListOK(L[k], E) /\ (M[k].firing => y) /\ M[Other(k)].list = <<>>
        BY <2>2, <2>3, <2>4, <3>1, <3>2 DEF Fired
      <4>2. Onward(L[k], x, M[k], y, c) /\ Stays(L[k], x, M[k], y, c)
        BY ONLY <4>1, k \in Kinds, x \in BOOLEAN, y \in BOOLEAN, DueFired
      <4>. QED  BY <4>1, <4>2, DueGone
    <3>4. state'[d] \notin {"pending", Outcome(Other(k))}
      BY <2>2, KindFacts
    <3>. QED  BY <3>1, <3>2, <3>3, <3>4 DEF Moves, Keeps
  <2>6. ASSUME NEW s \in Ds, s # d, NEW j \in Kinds, NEW c
        PROVE  Moves(b, stack', s, j, c) /\ Keeps(b, stack', s, j, c)
    <3>1. lists'[s][j] = lists[s][j] /\ (Free(stack', s, j) <=> Free(b, s, j))
      BY <2>2, <2>3, <2>6 DEF SameBut
    <3>. QED  BY <3>1 DEF Moves, Keeps, Onward, Stays, Due
  <2>7. AllMove(b, stack') /\ AllKeep(b, stack')
    BY <2>1, <2>5, <2>6 DEF AllMove, AllKeep
  <2>. QED  BY <1>3, <2>2, <2>3, <2>7
<1>. QED  BY <1>2, <1>3

(* A stack changed before the lists are. *)
LEMMA AlikeFirst ==
  ASSUME NEW a, NEW b, NEW x, Alike(a, b), AllMove(b, x), AllKeep(b, x), WhenSame(b, x)
  PROVE  AllMove(a, x) /\ AllKeep(a, x) /\ WhenSame(a, x)
<1>1. AllMove(a, x) /\ AllKeep(a, x)
  BY DEF Alike, FreeSame, AllMove, AllKeep, Moves, Keeps, Onward, Stays, Due
<1>. QED  BY <1>1 DEF Alike, WhenSame

LEMMA SettleMasters ==
  ASSUME CountsNone, UNCHANGED threw, NEW ts, NEW d \in Ds, d \notin Masters, NEW k \in Kinds, NEW v \in Vals,
         NEW b, SettleFrom(ts, d, k, v, b), StackOK(b, lists), Alike(stack, b)
  PROVE  MastersInv'
<1>1. /\ AllMove(b, stack') /\ AllKeep(b, stack') /\ WhenSame(b, stack')
      /\ \A s \in Ds : s # d => state'[s] = state[s]
  BY SettleMoves DEF CountsNone, OneStep, Inv
<1>2. \A m \in Masters : state'[m] = state[m]
  BY <1>1, DeferredAssumption DEF Masters
<1>. QED  BY <1>1, <1>2, AlikeFirst, MastersCalm

(* One list changed. *)
LEMMA ListMasters ==
  ASSUME CountsNone, UNCHANGED <<threw, state>>, NEW d \in Ds, NEW k \in AllKinds, NEW l,
         lists' = [lists EXCEPT ![d][k] = l], WhenSame(stack, stack'),
         SameBut(stack, stack', d, k),
         k \in Kinds => \A c : c \notin Fns =>
           /\ Onward(lists[d][k], Free(stack, d, k), l, Free(stack', d, k), c)
           /\ Stays(lists[d][k], Free(stack, d, k), l, Free(stack', d, k), c)
  PROVE  MastersInv'
<1>1. DOMAIN lists = Ds /\ DOMAIN lists[d] = AllKinds /\ \A j \in Kinds : j \in AllKinds
  BY KindFacts DEF CountsNone, OneStep, Inv, Base, ListsInv, DefOK
<1>2. \A s \in Ds, j \in Kinds :
        IF s = d /\ j = k THEN lists'[s][j] = l ELSE lists'[s][j] = lists[s][j]
  BY <1>1
<1>3. ASSUME NEW s \in Ds, NEW j \in Kinds, NEW c, c \notin Fns
      PROVE  Moves(stack, stack', s, j, c) /\ Keeps(stack, stack', s, j, c)
  <2>1. CASE s = d /\ j = k
    BY <1>2, <1>3, <2>1 DEF Moves, Keeps
  <2>2. CASE s # d \/ j # k
    <3>1. lists'[s][j] = lists[s][j] /\ (Free(stack', s, j) <=> Free(stack, s, j))
      BY <1>2, <1>3, <2>2 DEF SameBut
    <3>. QED  BY <3>1 DEF Moves, Keeps, Onward, Stays, Due
  <2>. QED  BY <2>1, <2>2
<1>4. AllMove(stack, stack') /\ AllKeep(stack, stack')
  BY <1>3 DEF AllMove, AllKeep
<1>. QED  BY <1>4, MastersCalm

(* A list entered, or not. *)
LEMMA EnteredOrNot ==
  ASSUME NEW a \in Seq(Frames), NEW d \in Ds, NEW k \in AllKinds, NEW b,
         b = a \/ b = Append(a, Firing(d, k))
  PROVE  WhenSame(a, b) /\ SameBut(a, b, d, k)
<1>1. CASE b = Append(a, Firing(d, k))
  BY <1>1, AlikeEntered, ZenonT(60) DEF SameBut
<1>2. CASE b = a
  BY <1>2, AlikeStays DEF Alike, SameBut
<1>. QED  BY <1>1, <1>2

LEMMA AddListenerMasters ==
  ASSUME CountsNone, NEW d \in Ds, NEW k \in AllKinds, NEW f \in Fns, AddListener(d, k, f)
  PROVE  MastersInv'
<1>1. PICK l, p : l = Add(OptionsOf(k), p, f) /\ p = lists[d][k]
  OBVIOUS
<1>2. /\ UNCHANGED <<threw, state>>
      /\ lists' = [lists EXCEPT ![d][k] = l]
      /\ stack' = IF l.firing /\ ~p.firing THEN Append(stack, Firing(d, k)) ELSE stack
  BY <1>1 DEF AddListener, Listen
<1>3. /\ Base /\ f \in Entries[k] /\ ListOK(p, Entries[k]) /\ p.firing \in BOOLEAN
      /\ k \in Kinds => KindOK(p, k, state[d], value[d])
      /\ state[d] \in {"pending", "resolved", "rejected"}
      /\ state[d] # "pending" => value[d] # <<>>
  BY <1>1, EntriesAre, ListFacts DEF Base, CountsNone, OneStep, Inv
<1>4. stack \in Seq(Frames)
  BY <1>3 DEF Base, StackInv, StackOK
<1>5. stack' = stack \/ stack' = Append(stack, Firing(d, k))
  BY <1>2
<1>7. WhenSame(stack, stack') /\ SameBut(stack, stack', d, k)
  BY ONLY <1>4, <1>5, d \in Ds, k \in AllKinds, EnteredOrNot
<1>8. ASSUME k \in Kinds, NEW c, c \notin Fns
      PROVE  /\ Onward(p, Free(stack, d, k), l, Free(stack', d, k), c)
             /\ Stays(p, Free(stack, d, k), l, Free(stack', d, k), c)
  <2>1. AddedTo(p, k, state[d], f, l)
    BY ONLY <1>1, <1>3, <1>8, AddKind
  <2>2. PICK x, y \in BOOLEAN : x = Free(stack, d, k) /\ y = Free(stack', d, k)
    BY DEF Free
  <2>3. p.firing => x = y
    BY <1>2, <2>2
  <2>4. PICK E, s, v : E = Entries[k] /\ s = state[d] /\ v = value[d]
    OBVIOUS
  <2>5. /\ ListOK(p, E) /\ KindOK(p, k, s, v) /\ s \in {"pending", "resolved", "rejected"}
        /\ AddedTo(p, k, s, f, l) /\ (p.firing => x = y) /\ c # f /\ k \in Kinds
    BY <1>3, <1>8, <2>1, <2>3, <2>4
  <2>6. Onward(p, x, l, y, c) /\ Stays(p, x, l, y, c)
    BY ONLY <2>5, x \in BOOLEAN, y \in BOOLEAN, DueAdd
  <2>. QED  BY <2>2, <2>6
<1>. QED  BY <1>1, <1>2, <1>7, <1>8, ListMasters

LEMMA NotifyMasters ==
  ASSUME CountsNone, NEW d \in Ds, NEW v \in Vals, Notify(d, v)
  PROVE  MastersInv'
<1>1. PICK l : l = FireWith({"memory"}, lists[d].progress, v)
  OBVIOUS
<1>2. /\ UNCHANGED <<threw, state>>
      /\ lists' = [lists EXCEPT ![d]["progress"] = l]
      /\ stack' = IF l.firing /\ ~lists[d].progress.firing
                  THEN Append(stack, Firing(d, "progress")) ELSE stack
  BY <1>1 DEF Notify
<1>3. "progress" \in AllKinds /\ "progress" \notin Kinds /\ stack \in Seq(Frames)
  BY KindFacts DEF CountsNone, OneStep, Inv, Base, StackInv, StackOK
<1>4. stack' = stack \/ stack' = Append(stack, Firing(d, "progress"))
  BY <1>2
<1>6. WhenSame(stack, stack') /\ SameBut(stack, stack', d, "progress")
  BY ONLY <1>3, <1>4, d \in Ds, EnteredOrNot
<1>. QED  BY <1>2, <1>3, <1>6, ListMasters

LEMMA ReturnsMasters ==
  ASSUME CountsNone, CallbackReturns
  PROVE  MastersInv'
<1>0. stack # <<>> /\ Top.at = "list" /\ Base
  BY DEF CallbackReturns, CountsNone, OneStep, Inv
<1>1. PICK d, k, l : AtList(d, k, l)
  BY <1>0, AtListFacts
<1>2. PICK r : r = Returned(OptionsOf(k), l, FALSE)
  OBVIOUS
<1>3. /\ UNCHANGED <<threw, state>> /\ (Top.busy \/ Current \in Fns)
      /\ lists' = [lists EXCEPT ![d][k] = r]
      /\ stack' = IF r.firing THEN [stack EXCEPT ![Inner].busy = FALSE] ELSE Outer
      /\ d \in Ds /\ k \in AllKinds /\ lists[d][k] = l /\ Top.d = d /\ Top.k = k
  BY <1>1, <1>2 DEF CallbackReturns, Proceed, AtList
<1>4. ListOK(r, Entries[k])
  BY ONLY <1>1, <1>2, ReturnedOK DEF AtList
<1>5. r.firing \in BOOLEAN
  BY <1>4, Fields DEF ListOK, Shape
<1>6. PICK f : f = [Top EXCEPT !.busy = FALSE]
  OBVIOUS
<1>7. /\ StackOK(stack, lists) /\ Inner = Len(stack) /\ Top = stack[Len(stack)]
      /\ stack \in Seq(Frames) /\ Inner \in Nat /\ Inner # 0 /\ Inner \in 1 .. Len(stack)
  BY <1>0, TopFacts DEF Inner, Top
<1>8. FrameOK(f) /\ f.at = "list" /\ f.d = d /\ f.k = k /\ ~f.busy
  BY <1>0, <1>3, <1>6, TopFacts DEF FrameOK, Frames
<1>9. /\ WhenSame(stack, stack') /\ (Free(stack', d, k) <=> r.firing)
      /\ Free(stack, d, k) <=> ~Top.busy
      /\ SameBut(stack, stack', d, k)
  <2>1. CASE r.firing
    <3>1. stack' = [stack EXCEPT ![Len(stack)] = f]
      BY <1>3, <1>6, <1>7, <2>1
    <3>2. /\ StackOK(stack, lists) /\ stack # <<>> /\ FrameOK(f) /\ f.at = stack[Len(stack)].at
          /\ f.d = stack[Len(stack)].d /\ f.k = stack[Len(stack)].k /\ f.at = "list"
      BY <1>0, <1>3, <1>7, <1>8
    <3>3. /\ Len(stack') = Len(stack)
          /\ \A i \in 1 .. Len(stack) : stack'[i] = IF i = Len(stack) THEN f ELSE stack[i]
      BY ONLY <3>1, <3>2, TopChanged
    <3>4. TopAlike(stack, f, stack')
      BY ONLY <3>2, <3>3, AlikeTop
    <3>. QED  BY <1>7, <1>8, <2>1, <3>4 DEF TopAlike, SameBut
  <2>2. CASE ~r.firing
    <3>1. stack' = SubSeq(stack, 1, Len(stack) - 1)
      BY <1>3, <1>7, <2>2 DEF Outer
    <3>2. IsList(stack[Len(stack)], d, k)
      BY <1>0, <1>3, <1>7 DEF IsList
    <3>3. ListOff(stack, d, k, stack')
      BY <1>0, <1>7, <3>1, <3>2, AlikeLeft
    <3>. QED  BY <1>7, <2>2, <3>3 DEF ListOff
  <2>. QED  BY <2>1, <2>2
<1>10. ASSUME k \in Kinds, NEW c, c \notin Fns
       PROVE  /\ Onward(l, Free(stack, d, k), r, Free(stack', d, k), c)
              /\ Stays(l, Free(stack, d, k), r, Free(stack', d, k), c)
  <2>1. PassedOn(l, r)
    BY ONLY <1>1, <1>2, <1>10, ReturnedKind DEF AtList
  <2>2. PICK x, y \in BOOLEAN : x = Free(stack, d, k) /\ y = Free(stack', d, k)
    BY DEF Free
  <2>3. l.list \in Seq(Entries[k]) /\ l.index \in 1 .. Len(l.list) /\ Current = l.list[l.index]
    BY <1>1 DEF AtList
  <2>4. (r.firing <=> y) /\ (x => l.list[l.index] # c)
    BY <1>3, <1>9, <1>10, <2>2, <2>3
  <2>5. PICK E : E = Entries[k]
    OBVIOUS
  <2>6. l.list \in Seq(E)
    BY <2>3, <2>5
  <2>7. Onward(l, x, r, y, c) /\ Stays(l, x, r, y, c)
    BY ONLY <2>1, <2>3, <2>4, <2>6, x \in BOOLEAN, y \in BOOLEAN, DuePass
  <2>. QED  BY <2>2, <2>7
<1>. QED  BY <1>3, <1>9, <1>10, ListMasters

(* A promise of then() is no master. *)
LEMMA NoMaster ==
  ASSUME Inv, NEW p \in Pool, parent[p] # <<>>
  PROVE  p \notin Masters
BY DEF Inv, PromInv, PromiseOK, Masters

(* The stacks that say the same of lists and masters. *)
LEMMA AlikeOuter ==
  ASSUME Base, stack # <<>>, Top.at \in {"process", "then"} \/ (Top.at = "when" /\ Top.k = {})
  PROVE  Alike(stack, Outer)
<1>1. StackOK(stack, lists) /\ stack[Len(stack)] = Top /\ Outer = SubSeq(stack, 1, Len(stack) - 1)
  BY TopFacts DEF Top, Inner, Outer
<1>2. PICK f : f = stack[Len(stack)]
  OBVIOUS
<1>. QED  BY <1>1, <1>2, AlikePopped

LEMMA AlikeHandled ==
  ASSUME Base, stack # <<>>, Top.at = "process"
  PROVE  Alike(stack, Handled)
<1>1. /\ StackOK(stack, lists) /\ Inner = Len(stack) /\ Top = stack[Len(stack)] /\ FrameOK(Top)
  BY TopFacts DEF Inner, Top
<1>2. PICK f : f = [Top EXCEPT !.busy = TRUE]
  OBVIOUS
<1>3. FrameOK(f) /\ f.at = "process" /\ f.d = Top.d /\ f.k = Top.k
  BY <1>1, <1>2 DEF FrameOK, Frames
<1>4. PICK b : b = Handled
  OBVIOUS
<1>5. b = [stack EXCEPT ![Len(stack)] = f]
  BY <1>1, <1>2, <1>4 DEF Handled
<1>6. StackOK(stack, lists) /\ stack # <<>> /\ FrameOK(f) /\ f.at = stack[Len(stack)].at
      /\ f.d = stack[Len(stack)].d /\ f.k = stack[Len(stack)].k /\ f.at = "process"
  BY <1>1, <1>3
<1>7. /\ Len(b) = Len(stack)
      /\ \A i \in 1 .. Len(stack) : b[i] = IF i = Len(stack) THEN f ELSE stack[i]
  BY ONLY <1>5, <1>6, TopChanged
<1>8. TopAlike(stack, f, b)
  BY ONLY <1>6, <1>7, AlikeTop
<1>. QED  BY <1>4, <1>6, <1>8 DEF TopAlike, Alike

LEMMA ResolveMasters ==
  ASSUME CountsNone, NEW d \in Ds, NEW k \in Kinds, NEW v \in Vals, Resolve(d, k, v)
  PROVE  MastersInv'
<1>1. UNCHANGED threw /\ d \notin Masters /\ SettleFrom(timers, d, k, v, stack)
  BY DEF Resolve, Settle, Masters
<1>2. StackOK(stack, lists) /\ Alike(stack, stack)
  BY AlikeStays DEF CountsNone, OneStep, Inv, Base, StackInv
<1>. QED  BY <1>1, <1>2, SettleMasters

LEMMA ResolveToMasters ==
  ASSUME CountsNone, UNCHANGED threw, NEW p \in Pool, p \notin Masters, NEW n \in Nat, NEW r \in Results(p),
         NEW b, StackOK(b, lists), Alike(stack, b), ResolveTo(p, n, r, b)
  PROVE  MastersInv'
<1>0. p \in Ds /\ "done" \in Kinds
  BY DeferredAssumption DEF Kinds
<1>1. \/ \E v \in Vals : r = <<"plain", v>>
      \/ maxDepth[p] # MaxDepth /\ \E e \in Ds : r = <<"promise", e>>
      \/ maxDepth[p] # MaxDepth /\ r = <<"foreign">>
  BY DEF Results
<1>2. CASE \E v \in Vals : r = <<"plain", v>>
  <2>1. PICK v \in Vals : r = <<"plain", v>>
    BY <1>2
  <2>2. SettleFrom(timers, p, "done", v, b)
    BY <2>1 DEF ResolveTo, Settle
  <2>. QED  BY <1>0, <2>2, SettleMasters
<1>3. CASE maxDepth[p] # MaxDepth /\ \E e \in Ds : r = <<"promise", e>>
  <2>1. stack' = b /\ UNCHANGED <<state, lists>>
    BY <1>3 DEF ResolveTo
  <2>. QED  BY <2>1, MastersSame
<1>4. CASE maxDepth[p] # MaxDepth /\ r = <<"foreign">>
  <2>1. stack' = Append(b, ThenCall(p, n)) /\ UNCHANGED <<state, lists>>
    BY <1>4 DEF ResolveTo
  <2>2. PICK f : f = ThenCall(p, n)
    OBVIOUS
  <2>3. f \in Frames /\ f.at = "then" /\ b \in Seq(Frames)
    BY <1>0, <2>2 DEF Frames, ThenCall, StackOK
  <2>4. Alike(b, Append(b, f))
    BY <2>3, AlikePushed
  <2>5. Alike(stack, stack')
    BY <2>1, <2>2, <2>4, AlikeOn
  <2>. QED  BY <2>1, <2>5, MastersSame
<1>. QED  BY <1>1, <1>2, <1>3, <1>4

(* The promise whose handler has returned, or thrown. *)
LEMMA HandlerTop ==
  ASSUME Inv, stack # <<>>, Top.at = "process", ~Top.busy
  PROVE  /\ Top.d \notin Masters /\ Top.d \in Pool /\ Top.d \in Ds
         /\ StackOK(Handled, lists) /\ Alike(stack, Handled)
<1>1. Base /\ PromInv
  BY DEF Inv
<1>2. Same(stack, Handled, lists, lists) /\ Top.d \in Pool /\ Runs(Top.d)
  BY <1>1, HandledOK
<1>3. parent[Top.d] # <<>>
  BY <1>1, <1>2, RunsFacts
<1>. QED  BY <1>1, <1>2, <1>3, NoMaster, AlikeHandled, DeferredAssumption DEF Same

LEMMA HandlerReturnsMasters ==
  ASSUME CountsNone, NEW r, HandlerReturns(r)
  PROVE  MastersInv'
<1>1. /\ stack # <<>> /\ Top.at = "process" /\ ~Top.busy /\ UNCHANGED threw /\ Inv
      /\ r \in Results(Top.d) /\ ResolveTo(Top.d, 0, r, Handled)
  BY DEF HandlerReturns, CountsNone, OneStep
<1>2. PICK p, b : p = Top.d /\ b = Handled
  OBVIOUS
<1>3. /\ p \notin Masters /\ p \in Pool /\ StackOK(b, lists) /\ Alike(stack, b) /\ 0 \in Nat
      /\ r \in Results(p) /\ ResolveTo(p, 0, r, b)
  BY <1>1, <1>2, HandlerTop
<1>. QED  BY <1>1, <1>3, ResolveToMasters

LEMMA HandlerThrowsMasters ==
  ASSUME CountsNone, NEW v \in Vals, HandlerThrows(v)
  PROVE  MastersInv'
<1>1. /\ stack # <<>> /\ Top.at = "process" /\ ~Top.busy /\ UNCHANGED threw /\ Inv
      /\ SettleFrom(timers, Top.d, "fail", v, Handled)
  BY DEF HandlerThrows, Settle, CountsNone, OneStep
<1>2. PICK p, b : p = Top.d /\ b = Handled
  OBVIOUS
<1>3. /\ p \notin Masters /\ p \in Ds /\ StackOK(b, lists) /\ Alike(stack, b) /\ "fail" \in Kinds
      /\ SettleFrom(timers, p, "fail", v, b)
  BY <1>1, <1>2, HandlerTop DEF Kinds
<1>. QED  BY <1>1, <1>3, SettleMasters

LEMMA ThenThrowsMasters ==
  ASSUME CountsNone, NEW v \in Vals, ForeignThenThrows(v)
  PROVE  MastersInv'
<1>1. /\ stack # <<>> /\ Top.at = "then" /\ UNCHANGED threw /\ Base /\ PromInv
      /\ \/ SettleFrom(timers, Top.d, "fail", v, Outer)
         \/ stack' = Outer /\ UNCHANGED <<state, lists>>
  BY DEF ForeignThenThrows, Settle, CountsNone, OneStep, Inv
<1>2. Top.d \in Pool /\ Top.k \in Nat /\ Asks(Top.d, Top.k) /\ Same(stack, Outer, lists, lists)
  BY <1>1, ThenTop
<1>3. parent[Top.d] # <<>>
  <2>1. PICK p, n : p = Top.d /\ n = Top.k /\ p \in Pool /\ n + 1 \in Nat /\ n \in Nat
    BY <1>2
  <2>2. <<p, n + 1>> \in handed
    BY <1>1, <1>2, <2>1 DEF PromInv, PromiseOK
  <2>3. HandedOK(p, n + 1)
    BY <1>1, <2>1, <2>2 DEF PromInv, PromiseOK
  <2>. QED  BY <2>1, <2>3 DEF HandedOK
<1>4. PICK p, b : p = Top.d /\ b = Outer
  OBVIOUS
<1>5. /\ p \notin Masters /\ p \in Ds /\ "fail" \in Kinds
      /\ StackOK(b, lists) /\ Alike(stack, b)
      /\ \/ SettleFrom(timers, p, "fail", v, b)
         \/ stack' = b /\ UNCHANGED <<state, lists>>
  BY <1>1, <1>2, <1>3, <1>4, NoMaster, AlikeOuter, DeferredAssumption DEF Same, Kinds, CountsNone, OneStep
<1>. QED  BY <1>1, <1>5, SettleMasters, MastersSame

LEMMA ForeignMasters ==
  ASSUME CountsNone, NEW p, NEW n, NEW r, ForeignCalls(p, n, r)
  PROVE  MastersInv'
<1>1. /\ <<p, n>> \in handed /\ UNCHANGED threw /\ Inv
      /\ \/ UNCHANGED <<state, lists, stack>>
         \/ \E v \in Vals : SettleFrom(timers, p, "fail", v, stack)
         \/ r \in Results(p) /\ ResolveTo(p, n, r, stack)
  <2>1. /\ <<p, n>> \in handed /\ UNCHANGED threw
        /\ r \in Results(p) \cup {<<"reject", v>> : v \in Vals}
        /\ \/ UNCHANGED <<state, lists, stack>>
           \/ r[1] = "reject" /\ SettleFrom(timers, p, "fail", r[2], stack)
           \/ r[1] # "reject" /\ ResolveTo(p, n, r, stack)
    BY DEF ForeignCalls, Settle
  <2>2. r[1] = "reject" => r[2] \in Vals
    BY <2>1 DEF Results
  <2>3. r[1] # "reject" => r \in Results(p)
    BY <2>1
  <2>. QED  BY <2>1, <2>2, <2>3 DEF CountsNone, OneStep
<1>2. p \in Pool /\ n \in Nat /\ HandedOK(p, n)
  BY <1>1 DEF Inv, PromInv, PromiseOK
<1>3. p \notin Masters /\ p \in Ds /\ "fail" \in Kinds
  BY <1>1, <1>2, NoMaster, DeferredAssumption DEF HandedOK, Kinds
<1>4. StackOK(stack, lists) /\ Alike(stack, stack)
  BY <1>1, AlikeStays DEF Inv, Base, StackInv
<1>5. CASE UNCHANGED <<state, lists, stack>>
  BY <1>1, <1>4, <1>5, MastersSame
<1>6. CASE \E v \in Vals : SettleFrom(timers, p, "fail", v, stack)
  BY <1>1, <1>3, <1>4, <1>6, SettleMasters
<1>7. CASE r \in Results(p) /\ ResolveTo(p, n, r, stack)
  BY <1>1, <1>2, <1>3, <1>4, <1>7, ResolveToMasters
<1>. QED  BY <1>1, <1>5, <1>6, <1>7

LEMMA FollowedMasters ==
  ASSUME CountsNone, NEW t \in timers, FollowedSettles(t)
  PROVE  MastersInv'
<1>1. /\ stack = <<>> /\ UNCHANGED threw /\ Inv
      /\ \/ UNCHANGED <<state, lists, stack>>
         \/ SettleFrom(timers \ {t}, t.p, t.k, value[t.of][1], stack)
  BY DEF FollowedSettles, CountsNone, OneStep
<1>2. /\ t.p \in Pool /\ t.p \in Ds /\ t.k \in Kinds /\ t.of \in Ds /\ t.depth \in Nat
      /\ state[t.of] = Outcome(t.k)
  BY <1>1, DeferredAssumption DEF Inv, PromInv, TokenType, Timers
<1>3. value[t.of][1] \in Vals
  <2>1. state[t.of] # "pending"
    BY <1>2, KindFacts
  <2>2. value[t.of] # <<>> /\ value[t.of] \in Memories
    BY <1>1, <1>2, <2>1 DEF Inv, Base, ListsInv, DefOK
  <2>. QED  BY <2>2 DEF Memories
<1>4. t.p \notin Masters
  <2>1. Comes(t.p, t.depth, t.of)
    BY DEF Comes
  <2>2. Awaits(t.p, t.depth, t.of)
    BY <1>1, <1>2, <2>1 DEF Inv, PromInv, PromiseOK
  <2>. QED  BY <1>1, <1>2, <2>2, NoMaster DEF Awaits
<1>5. StackOK(stack, lists) /\ Alike(stack, stack)
  BY <1>1, AlikeStays DEF Inv, Base, StackInv
<1>6. CASE UNCHANGED <<state, lists, stack>>
  BY <1>1, <1>5, <1>6, MastersSame
<1>7. CASE SettleFrom(timers \ {t}, t.p, t.k, value[t.of][1], stack)
  <2>1. PICK ts, d, k, v : ts = timers \ {t} /\ d = t.p /\ k = t.k /\ v = value[t.of][1]
    OBVIOUS
  <2>2. SettleFrom(ts, d, k, v, stack) /\ d \in Ds /\ d \notin Masters /\ k \in Kinds /\ v \in Vals
    BY <1>2, <1>3, <1>4, <1>7, <2>1
  <2>. QED  BY <1>1, <1>5, <2>2, SettleMasters
<1>. QED  BY <1>1, <1>6, <1>7

(* What leaves lists and masters as they are. *)
LEMMA QuietMasters ==
  ASSUME CountsNone,
         \/ \E t \in timers : TimerFires(t)
         \/ \E d \in Ds, p \in Pool : Then(d, p)
         \/ ForeignThenReturns \/ Leave \/ UNCHANGED vars
  PROVE  MastersInv'
<1>1. UNCHANGED <<threw, state, lists>> /\ Base
  BY DEF TimerFires, Then, ForeignThenReturns, Leave, vars, CountsNone, OneStep, Inv
<1>2. Alike(stack, stack')
  <2>1. ASSUME NEW t \in timers, TimerFires(t) PROVE Alike(stack, stack')
    <3>1. stack = <<>> /\ (stack' = <<>> \/ stack' = <<Process(t.p)>>)
      BY <2>1 DEF TimerFires
    <3>2. PICK f : f = Process(t.p)
      OBVIOUS
    <3>3. t.p \in Ds
      BY DeferredAssumption DEF CountsNone, OneStep, Inv, PromInv, TokenType, Timers
    <3>4. f \in Frames /\ f.at = "process" /\ stack \in Seq(Frames)
      BY <3>1, <3>2, <3>3 DEF Process, Frames
    <3>5. Alike(stack, Append(stack, f))
      BY <3>4, AlikePushed
    <3>6. stack' = stack \/ stack' = Append(stack, f)
      BY <3>1, <3>2
    <3>. QED  BY <3>5, <3>6, AlikeStays
  <2>2. ASSUME stack' = stack PROVE Alike(stack, stack')
    BY <2>2, AlikeStays
  <2>3. CASE ForeignThenReturns \/ Leave
    BY <1>1, <2>3, AlikeOuter DEF ForeignThenReturns, Leave
  <2>. QED  BY <2>1, <2>2, <2>3 DEF Then, vars
<1>. QED  BY <1>1, <1>2, MastersSame

LEMMA ThrowsMasters ==
  ASSUME CountsNone, CallbackThrows
  PROVE  MastersInv'
<1>1. PICK n \in 0 .. Len(stack) - 1 : stack' = SubSeq(stack, 1, n) /\ Len(stack) \in Nat
  BY ThrowsTo DEF CountsNone, OneStep, Inv
<1>2. threw' = TRUE /\ UNCHANGED <<state, lists>> /\ StackOK(stack, lists) /\ n \in 0 .. Len(stack)
  BY <1>1 DEF CallbackThrows, CountsNone, OneStep, Inv, Base, StackInv
<1>3. Cut(stack, stack')
  BY <1>1, <1>2, AlikeCut
<1>4. AllMove(stack, stack')
  BY <1>2, <1>3 DEF Cut, AllMove, Moves, Onward, Due
<1>5. \A m \in Masters, s \in Ds : PairMoved(m, s)
  BY <1>2, <1>3, <1>4, AllMoved DEF Cut
<1>6. \A s \in Ds : state'[s] \in {"pending", "resolved", "rejected"}
  BY DEF CountsNone, OneStep, Inv, Base, ListsInv, DefOK
<1>. QED  BY <1>2, <1>3, <1>5, <1>6, MastersKept DEF Cut, CountsNone, OneStep

-----------------------------------------------------------------------------
(* A callback of when() runs: it is due no more. *)
LEMMA MarkedMoves ==
  ASSUME Base, stack # <<>>, Top.at = "list", ~Top.busy, NEW d, NEW k, NEW l, AtList(d, k, l)
  PROVE  /\ WhenSame(stack, Marked) /\ SameBut(stack, Marked, d, k)
         /\ Free(stack, d, k) /\ ~Free(Marked, d, k)
<1>1. /\ StackOK(stack, lists) /\ Inner = Len(stack) /\ Top = stack[Len(stack)] /\ FrameOK(Top)
  BY TopFacts DEF Inner, Top
<1>2. PICK f : f = [Top EXCEPT !.busy = TRUE]
  OBVIOUS
<1>3. FrameOK(f) /\ f.at = "list" /\ f.d = Top.d /\ f.k = Top.k /\ f.busy
  BY <1>1, <1>2 DEF FrameOK, Frames
<1>4. PICK b : b = Marked
  OBVIOUS
<1>5. /\ Len(b) = Len(stack)
      /\ \A i \in 1 .. Len(stack) : b[i] = IF i = Len(stack) THEN f ELSE stack[i]
  BY <1>2, <1>4, MarkedOK
<1>6. StackOK(stack, lists) /\ stack # <<>> /\ f.at = stack[Len(stack)].at
      /\ f.d = stack[Len(stack)].d /\ f.k = stack[Len(stack)].k /\ f.at = "list"
  BY <1>1, <1>3
<1>7. TopAlike(stack, f, b)
  BY ONLY <1>5, <1>6, AlikeTop
<1>8. f.d = d /\ f.k = k
  BY <1>3 DEF AtList
<1>. QED  BY <1>1, <1>3, <1>4, <1>7, <1>8 DEF TopAlike

(* Whatever it does then: what is due of other callbacks moves on and stays. *)
CallsOne(d, k, c) ==
  /\ \A s \in Ds, j \in Kinds : \A e : e \notin Fns =>
       /\ Moves(stack, stack', s, j, e)
       /\ s # d \/ j # k \/ e # c => Keeps(stack, stack', s, j, e)
  /\ WhenSame(stack, stack')
  /\ ToCome(d, k, c) /\ Holds(lists[d][k], c)
  /\ Single(lists[d][k], c) => ~ToCome(d, k, c)'

LEMMA InternalMoves ==
  ASSUME Base, stack # <<>>, Top.at = "list", ~Top.busy, NEW d, NEW k \in Kinds, NEW l, AtList(d, k, l),
         NEW c, c = Current, c \notin Fns,
         AllMove(Marked, stack'), AllKeep(Marked, stack'), WhenSame(Marked, stack')
  PROVE  CallsOne(d, k, c)
<1>1. /\ WhenSame(stack, Marked) /\ SameBut(stack, Marked, d, k)
      /\ Free(stack, d, k) /\ ~Free(Marked, d, k)
  BY MarkedMoves
<1>2. /\ lists[d][k] = l /\ l.index \in 1 .. Len(l.list) /\ l.list[l.index] = c /\ d \in Ds
      /\ Len(l.list) \in Nat
  <2>1. /\ lists[d][k] = l /\ l.index \in 1 .. Len(l.list) /\ l.list[l.index] = c /\ d \in Ds
        /\ l.list \in Seq(Entries[k])
    BY ONLY AtList(d, k, l), c = Current DEF AtList
  <2>. QED  BY ONLY <2>1
<1>3. ToCome(d, k, c) /\ Holds(l, c)
  BY <1>1, <1>2 DEF ToCome, Due, Holds
<1>4. ASSUME NEW s \in Ds, NEW j \in Kinds, NEW e, e \notin Fns
      PROVE  /\ Moves(stack, stack', s, j, e)
             /\ s # d \/ j # k \/ e # c => Keeps(stack, stack', s, j, e)
  <2>1. Moves(Marked, stack', s, j, e) /\ Keeps(Marked, stack', s, j, e)
    BY <1>4 DEF AllMove, AllKeep
  <2>2. CASE s # d \/ j # k
    <3>1. Free(Marked, s, j) <=> Free(stack, s, j)
      BY <1>1, <2>2 DEF SameBut
    <3>. QED  BY <2>1, <3>1 DEF Moves, Keeps, Onward, Stays, Due
  <2>3. CASE s = d /\ j = k
    <3>1. Due(l, FALSE, e) => Due(l, TRUE, e)
      BY DEF Due
    <3>2. e # c => (Due(l, TRUE, e) => Due(l, FALSE, e))
      BY <1>2 DEF Due
    <3>3. PICK r, y : r = lists'[d][k] /\ y = Free(stack', d, k)
      OBVIOUS
    <3>4. Onward(l, FALSE, r, y, e)
      BY <1>1, <1>2, <2>1, <2>3, <3>3 DEF Moves, Onward, Due
    <3>5. state'[d] \in {"pending", Outcome(k)} => Stays(l, FALSE, r, y, e)
      BY <1>1, <1>2, <2>1, <2>3, <3>3 DEF Keeps, Stays, Due
    <3>6. Onward(l, TRUE, r, y, e)
      BY <3>1, <3>4 DEF Onward
    <3>7. state'[d] \in {"pending", Outcome(k)} /\ e # c => Stays(l, TRUE, r, y, e)
      BY <3>2, <3>5 DEF Stays
    <3>8. Moves(stack, stack', d, k, e)
      BY <1>1, <1>2, <3>3, <3>6 DEF Moves, Onward, Due
    <3>9. e # c => Keeps(stack, stack', d, k, e)
      BY <1>1, <1>2, <3>3, <3>7 DEF Keeps, Stays, Due
    <3>. QED  BY <2>3, <3>8, <3>9
  <2>. QED  BY <2>2, <2>3
<1>5. Single(l, c) => ~ToCome(d, k, c)'
  <2>. SUFFICES ASSUME Single(l, c), ToCome(d, k, c)' PROVE FALSE
    OBVIOUS
  <2>1. Due(lists'[d][k], Free(stack', d, k), c)
    BY DEF ToCome
  <2>2. Due(l, Free(Marked, d, k), c)
    BY <1>2, <2>1 DEF AllMove, Moves, Onward
  <2>3. PICK j \in 1 .. Len(l.list) : l.list[j] = c /\ j > l.index
    BY <1>1, <2>2 DEF Due
  <2>4. j = l.index
    BY <1>2, <2>3 DEF Single
  <2>. QED  BY <1>2, <2>3, <2>4
<1>6. WhenSame(stack, stack')
  BY <1>1 DEF WhenSame
<1>. QED  BY <1>2, <1>3, <1>4, <1>5, <1>6 DEF CallsOne

(* The pair whose callback has run: nothing is due of it. *)
LEMMA CalledPair ==
  ASSUME Once, NEW m \in Ds, NEW s \in Ds, subs'[m] = subs[m], PairOK(m, s),
         Moves(stack, stack', s, "done", Update(m)), Moves(stack, stack', s, "fail", RejectMaster(m)),
         Adopts(stack', s, m) <=> Adopts(stack, s, m),
         state[s] # "pending", state[s] = "rejected" => Settled(m)'
  PROVE  PairOK(m, s)'
<1>1. state'[s] = state[s]
  BY DEF Once, Settled
<1>2. /\ Single(lists[s]["done"], Update(m)) => Single(lists'[s]["done"], Update(m))
      /\ Holds(lists'[s]["done"], Update(m)) => Holds(lists[s]["done"], Update(m))
      /\ Holds(lists'[s]["fail"], RejectMaster(m)) => Holds(lists[s]["fail"], RejectMaster(m))
  BY DEF Moves, Onward
<1>. QED  BY <1>1, <1>2 DEF PairOK, Settled

(* The pairs beside it. *)
LEMMA OtherPairs ==
  ASSUME OneStep, UNCHANGED <<subs, threw>>, NEW d \in Ds, NEW k \in Kinds, NEW c, CallsOne(d, k, c),
         NEW m \in Masters, NEW s \in Ds,
         s # d \/ k # "done" \/ c # Update(m), s # d \/ k # "fail" \/ c # RejectMaster(m)
  PROVE  Carried(m, s)
<1>1. m \in Ds /\ PairOK(m, s)
  BY DeferredAssumption DEF Masters, OneStep, MastersInv
<1>2. Update(m) \notin Fns /\ RejectMaster(m) \notin Fns /\ "done" \in Kinds /\ "fail" \in Kinds
  BY OwnCallbacks DEF Masters, Kinds
<1>3. PairMoved(m, s)
  BY <1>2 DEF CallsOne, PairMoved, WhenSame
<1>4. state[s] \in {"pending", "resolved", "rejected"} /\ state'[s] \in {"pending", "resolved", "rejected"}
  BY DEF OneStep, Inv, Base, ListsInv, DefOK
<1>. QED  BY <1>1, <1>3, <1>4, PairKept DEF OneStep

(* The master that counts one of its subordinates. *)
LEMMA MasterCounts ==
  ASSUME OneStep, UNCHANGED <<subs, threw>>, NEW m \in Masters, NEW s0 \in subs[m],
         remaining'[m] = remaining[m] - 1,
         \A s \in Ds : s # s0 => Carried(m, s), Held(m, s0), ~Held(m, s0)',
         \/ state'[m] = state[m] /\ (remaining[m] = 1 => Settled(m))
         \/ state'[m] = "resolved" /\ remaining[m] = 1
  PROVE  MasterOK(m)'
<1>1. MasterOK(m) /\ subs[m] \subseteq Ds /\ m \in Ds
  BY DeferredAssumption DEF OneStep, MastersInv, Masters
<1>2. PICK x, y, z : x = AllHeld(m) /\ y = AllHeld(m)' /\ z = AllHeld(m) \ {s0}
  OBVIOUS
<1>3. s0 \in x /\ y \subseteq z /\ z \subseteq x /\ z = x \ {s0}
  BY <1>1, <1>2 DEF AllHeld, Carried
<1>4. ~threw => y = z
  BY <1>1, <1>2, <1>3 DEF AllHeld, Carried
<1>5. /\ IsFiniteSet(x) /\ Cardinality(x) \in Nat /\ Cardinality(subs[m]) \in Nat
      /\ Cardinality(z) \in Nat /\ IsFiniteSet(z)
  <2>1. MastersInv
    BY DEF OneStep
  <2>2. IsFiniteSet(x) /\ Cardinality(x) \in Nat /\ Cardinality(subs[m]) \in Nat
    BY <1>1, <1>2, <2>1, HeldFinite
  <2>. QED  BY <1>3, <2>2, FS_Subset, FS_CardinalityType
<1>6. Cardinality(z) = Cardinality(x) - 1
  BY <1>3, <1>5, FS_RemoveElement
<1>7. Cardinality(y) \in Nat /\ Cardinality(y) <= Cardinality(z)
  <2>1. IsFiniteSet(y) /\ Cardinality(y) <= Cardinality(z)
    BY <1>3, <1>5, FS_Subset
  <2>. QED  BY <2>1, FS_CardinalityType
<1>8. /\ remaining[m] \in Nat /\ Cardinality(x) <= remaining[m] /\ remaining[m] <= Cardinality(subs[m])
      /\ ~threw => remaining[m] = Cardinality(x)
      /\ state[m] = "resolved" => remaining[m] = 0
      /\ state[m] = "rejected" => \E s \in subs[m] : state[s] = "rejected"
  BY <1>1, <1>2 DEF MasterOK
<1>9. /\ remaining'[m] \in Nat /\ Cardinality(y) <= remaining'[m] /\ remaining'[m] <= Cardinality(subs[m])
      /\ ~threw => remaining'[m] = Cardinality(y)
      /\ remaining[m] # 0 /\ (remaining'[m] = 0 <=> remaining[m] = 1)
  BY <1>4, <1>5, <1>6, <1>7, <1>8
<1>10. /\ remaining'[m] = 0 => Settled(m)'
       /\ state'[m] = "resolved" => remaining'[m] = 0
  BY <1>8, <1>9 DEF Settled
<1>11. state'[m] = "rejected" => \E s \in subs[m] : state'[s] = "rejected"
  <2>1. \A s \in Ds : state[s] # "pending" => state'[s] = state[s]
    BY DEF OneStep, Once, Settled
  <2>. QED  BY <1>1, <1>8, <2>1
<1>. QED  BY <1>2, <1>9, <1>10, <1>11 DEF MasterOK

LEMMA InternalMasters ==
  ASSUME OneStep, InternalRuns
  PROVE  MastersInv'
<1>0. stack # <<>> /\ Top.at = "list" /\ ~Top.busy /\ Current \notin Fns /\ UNCHANGED <<subs, threw>> /\ Base
  BY DEF InternalRuns, rest, OneStep, Inv
<1>1. PICK d, k, l : AtList(d, k, l) /\ d = Top.d /\ k = Top.k /\ d \in Ds
  BY <1>0, AtListFacts DEF AtList
<1>2. PICK c : c = Current
  OBVIOUS
<1>3. Masters' = Masters /\ \A m \in Masters : m \in Ds /\ m \in Pool
  BY <1>0, DeferredAssumption DEF Masters
<1>4. StackOK(Marked, lists)
  BY <1>0, MarkedOK DEF Same
<1>5. \A m1, m2 : /\ Update(m1) = Update(m2) => m1 = m2
                  /\ RejectMaster(m1) = RejectMaster(m2) => m1 = m2
  <2>. TAKE m1, m2
  <2>1. Update(m1).update = m1 /\ Update(m2).update = m2
        /\ RejectMaster(m1).reject = m1 /\ RejectMaster(m2).reject = m2
    BY DEF Update, RejectMaster
  <2>. QED  BY <2>1
<1>6. ASSUME NEW m \in Masters, NEW j \in Kinds, NEW v \in Vals, Settle(m, j, v, Marked)
      PROVE  /\ AllMove(Marked, stack') /\ AllKeep(Marked, stack') /\ WhenSame(Marked, stack')
             /\ \A s \in Ds : s # m => state'[s] = state[s]
             /\ Settled(m) => state'[m] = state[m]
             /\ ~Settled(m) => state'[m] = Outcome(j)
  <2>1. m \in Ds /\ SettleFrom(timers, m, j, v, Marked) /\ subs' = subs
    BY <1>0, <1>3, <1>6 DEF Settle
  <2>. QED  BY ONLY <1>0, <1>4, <2>1, j \in Kinds, v \in Vals, SettleMoves
<1>7. ASSUME stack' = Marked, UNCHANGED <<state, value, lists, waiting, timers>>
      PROVE  AllMove(Marked, stack') /\ AllKeep(Marked, stack') /\ WhenSame(Marked, stack')
  <2>1. Alike(Marked, stack')
    BY <1>7, AlikeStays
  <2>. QED  BY <1>7, <2>1, AlikeMoves DEF Alike
<1>8. ASSUME k \in Kinds, AllMove(Marked, stack'), AllKeep(Marked, stack'), WhenSame(Marked, stack')
      PROVE  CallsOne(d, k, c)
  BY ONLY <1>0, <1>1, <1>2, <1>8, InternalMoves
<1>9. OneWhen(stack) /\ MastersInv /\ Once
  BY DEF OneStep, MastersInv
<1>10. CASE \E m \in Masters :
              /\ Top.k = "done" /\ state[Top.d] = "resolved" /\ Current = Update(m)
              /\ remaining' = [remaining EXCEPT ![m] = @ - 1]
              /\ IF remaining[m] = 1
                 THEN \E v \in Vals : Settle(m, "done", v, Marked)
                 ELSE stack' = Marked /\ UNCHANGED <<state, value, lists, waiting, timers>>
  <2>1. PICK m \in Masters :
          /\ k = "done" /\ state[d] = "resolved" /\ c = Update(m)
          /\ remaining' = [remaining EXCEPT ![m] = @ - 1]
          /\ IF remaining[m] = 1
             THEN \E v \in Vals : Settle(m, "done", v, Marked)
             ELSE stack' = Marked /\ UNCHANGED <<state, value, lists, waiting, timers>>
    BY <1>1, <1>2, <1>10
  <2>2. /\ AllMove(Marked, stack') /\ AllKeep(Marked, stack') /\ WhenSame(Marked, stack')
        /\ \A s \in Ds : s # m => state'[s] = state[s]
        /\ remaining[m] # 1 \/ Settled(m) => state'[m] = state[m]
        /\ remaining[m] = 1 /\ ~Settled(m) => state'[m] = "resolved"
    BY <1>6, <1>7, <2>1 DEF Kinds, Outcome
  <2>3. CallsOne(d, "done", Update(m)) /\ "done" \in Kinds
    BY <1>8, <2>1, <2>2 DEF Kinds
  <2>4. m \in Ds /\ PairOK(m, d) /\ Update(m) \notin Fns /\ RejectMaster(m) \notin Fns /\ "fail" \in Kinds
    BY <1>1, <1>3, <1>9, OwnCallbacks DEF MastersInv, Kinds
  <2>5. /\ Moves(stack, stack', d, "done", Update(m)) /\ Moves(stack, stack', d, "fail", RejectMaster(m))
        /\ Adopts(stack', d, m) <=> Adopts(stack, d, m)
        /\ OneWhen(stack')
        /\ ToCome(d, "done", Update(m)) /\ Holds(lists[d]["done"], Update(m))
        /\ Single(lists[d]["done"], Update(m)) => ~ToCome(d, "done", Update(m))'
    BY <1>1, <1>9, <2>3, <2>4 DEF CallsOne, WhenSame
  <2>6. PairOK(m, d)'
    <3>1. subs'[m] = subs[m] /\ state[d] # "pending" /\ state[d] # "rejected"
      BY <1>0, <2>1
    <3>. QED  BY <1>1, <1>9, <2>4, <2>5, <3>1, CalledPair
  <2>7. d \in subs[m] /\ Held(m, d) /\ ~Held(m, d)'
    <3>1. d \in subs[m] /\ ~Adopts(stack, d, m) /\ Single(lists[d]["done"], Update(m))
      BY <2>4, <2>5 DEF PairOK
    <3>2. state'[d] = "resolved"
      BY <1>1, <1>9, <2>1 DEF Once, Settled
    <3>. QED  BY <2>5, <3>1, <3>2 DEF Held
  <2>8. ASSUME NEW n \in Masters, NEW s \in Ds, s # d \/ n # m PROVE Carried(n, s)
    <3>1. s # d \/ Update(m) # Update(n)
      BY <1>5, <2>8
    <3>. QED  BY <1>0, <1>1, <2>3, <2>8, <3>1, OtherPairs
  <2>9. \A n \in Masters, s \in Ds : PairOK(n, s)'
    BY <2>6, <2>8 DEF Carried
  <2>10. DOMAIN remaining = Ds /\ remaining'[m] = remaining[m] - 1 /\ remaining[m] \in Nat
         /\ \A n \in Ds : n # m => remaining'[n] = remaining[n]
    BY <1>9, <2>1, <2>4 DEF MastersInv
  <2>11. MasterOK(m)'
    <3>1. \/ state'[m] = state[m] /\ (remaining[m] = 1 => Settled(m))
          \/ state'[m] = "resolved" /\ remaining[m] = 1
      BY <2>2
    <3>2. \A s \in Ds : s # d => Carried(m, s)
      BY <2>8
    <3>. QED  BY <1>0, <2>7, <2>10, <3>1, <3>2, MasterCounts
  <2>12. ASSUME NEW n \in Masters, n # m PROVE MasterOK(n)'
    <3>1. \A s \in Ds : Carried(n, s)
      BY <2>8, <2>12
    <3>2. n \in Ds /\ subs'[n] = subs[n] /\ remaining'[n] = remaining[n] /\ state'[n] = state[n]
      BY <1>0, <1>3, <2>2, <2>10, <2>12
    <3>. QED  BY <1>0, <1>9, <3>1, <3>2, MasterKept
  <2>13. remaining' \in [Ds -> Nat]
    <3>1. remaining[m] # 0
      <4>1. d \in AllHeld(m) /\ IsFiniteSet(AllHeld(m)) /\ Cardinality(AllHeld(m)) \in Nat
            /\ Cardinality(AllHeld(m)) <= remaining[m]
        BY <1>9, <2>4, <2>7, HeldFinite DEF AllHeld, MastersInv, MasterOK
      <4>2. Cardinality(AllHeld(m)) # 0
        BY <4>1, FS_EmptySet
      <4>. QED  BY <2>10, <4>1, <4>2
    <3>2. remaining[m] - 1 \in Nat
      BY <2>10, <3>1
    <3>. QED  BY <1>9, <2>1, <3>2 DEF MastersInv
  <2>14. \A n \in Ds : subs'[n] \subseteq Ds /\ (n \notin Masters' => remaining'[n] = 0)
    BY <1>0, <1>3, <1>9, <2>10 DEF MastersInv
  <2>. QED  BY <1>3, <2>5, <2>9, <2>11, <2>12, <2>13, <2>14 DEF MastersInv
<1>11. CASE \E m \in Masters :
              /\ Top.k = "fail" /\ state[Top.d] = "rejected" /\ Current = RejectMaster(m)
              /\ remaining' = remaining
              /\ \E v \in Vals : Settle(m, "fail", v, Marked)
  <2>1. PICK m \in Masters :
          /\ k = "fail" /\ state[d] = "rejected" /\ c = RejectMaster(m)
          /\ remaining' = remaining
          /\ \E v \in Vals : Settle(m, "fail", v, Marked)
    BY <1>1, <1>2, <1>11
  <2>2. /\ AllMove(Marked, stack') /\ AllKeep(Marked, stack') /\ WhenSame(Marked, stack')
        /\ \A s \in Ds : s # m => state'[s] = state[s]
        /\ Settled(m) => state'[m] = state[m]
        /\ ~Settled(m) => state'[m] = "rejected"
    BY <1>6, <2>1 DEF Kinds, Outcome
  <2>3. CallsOne(d, "fail", RejectMaster(m)) /\ "fail" \in Kinds
    BY <1>8, <2>1, <2>2 DEF Kinds
  <2>4. m \in Ds /\ PairOK(m, d) /\ Update(m) \notin Fns /\ RejectMaster(m) \notin Fns /\ "done" \in Kinds
    BY <1>1, <1>3, <1>9, OwnCallbacks DEF MastersInv, Kinds
  <2>5. /\ Moves(stack, stack', d, "done", Update(m)) /\ Moves(stack, stack', d, "fail", RejectMaster(m))
        /\ Adopts(stack', d, m) <=> Adopts(stack, d, m)
        /\ OneWhen(stack')
        /\ Holds(lists[d]["fail"], RejectMaster(m))
        /\ Keeps(stack, stack', d, "done", Update(m))
    BY <1>1, <1>9, <2>3, <2>4 DEF CallsOne, WhenSame
  <2>6. d \in subs[m] /\ Settled(m)' /\ state'[d] = "rejected"
    BY <1>1, <1>9, <2>1, <2>2, <2>4, <2>5 DEF PairOK, Settled, Once
  <2>7. Carried(m, d)
    <3>1. subs'[m] = subs[m] /\ state[d] # "pending"
      BY <1>0, <2>1
    <3>2. PairOK(m, d)'
      BY <1>1, <1>9, <2>4, <2>5, <2>6, <3>1, CalledPair
    <3>. QED  BY <2>1, <2>6, <3>2 DEF Carried, Held
  <2>8. ASSUME NEW n \in Masters, NEW s \in Ds PROVE Carried(n, s)
    <3>1. CASE s = d /\ n = m
      BY <2>7, <3>1
    <3>2. CASE s # d \/ n # m
      <4>1. s # d \/ RejectMaster(m) # RejectMaster(n)
        BY <1>5, <3>2
      <4>. QED  BY <1>0, <1>1, <2>3, <2>8, <4>1, OtherPairs
    <3>. QED  BY <3>1, <3>2
  <2>9. ASSUME NEW n \in Masters PROVE MasterOK(n)'
    <3>1. \/ state'[n] = state[n]
          \/ state'[n] = "rejected" /\ \E s \in subs[n] : state[s] = "rejected"
      BY <1>3, <2>1, <2>2, <2>6
    <3>2. n \in Ds /\ subs'[n] = subs[n] /\ remaining'[n] = remaining[n]
      BY <1>0, <1>3, <2>1
    <3>. QED  BY <1>0, <1>9, <2>8, <3>1, <3>2, MasterKept
  <2>10. \A n \in Masters, s \in Ds : PairOK(n, s)'
    BY <2>8 DEF Carried
  <2>11. /\ remaining' \in [Ds -> Nat]
         /\ \A n \in Ds : subs'[n] \subseteq Ds /\ (n \notin Masters' => remaining'[n] = 0)
    BY <1>0, <1>3, <1>9, <2>1 DEF MastersInv
  <2>. QED  BY <1>3, <2>5, <2>9, <2>10, <2>11 DEF MastersInv
<1>. QED  BY <1>0, <1>10, <1>11, InternalDoes

-----------------------------------------------------------------------------
(* when(): a master and what it is to adopt. *)
WhenOn(a, b, m, S) ==
  /\ FreeSame(a, b)
  /\ \A s, n : n # m => (Adopts(b, s, n) <=> Adopts(a, s, n))
  /\ \A s : Adopts(b, s, m) <=> s \in S
  /\ OneWhen(a) => OneWhen(b)

LEMMA WhenPushed ==
  ASSUME NEW a \in Seq(Frames), NEW m, NEW S, NEW b, b = Append(a, Adopting(m, S)),
         Adopting(m, S) \in Frames,
         \A i \in 1 .. Len(a) : a[i].at = "when" => a[i].d # m
  PROVE  WhenOn(a, b, m, S)
<1>1. PICK f : f = Adopting(m, S)
  OBVIOUS
<1>2. f \in Frames /\ f.at = "when" /\ f.d = m /\ f.k = S
  BY <1>1 DEF Adopting
<1>3. /\ Len(b) = Len(a) + 1 /\ b[Len(a) + 1] = f /\ Len(a) + 1 \in 1 .. Len(b)
      /\ \A i \in 1 .. Len(a) : b[i] = a[i] /\ i \in 1 .. Len(b)
      /\ \A i \in 1 .. Len(b) : i \in 1 .. Len(a) \/ i = Len(a) + 1
  BY <1>1, <1>2
<1>4. FreeSame(a, b)
  BY ONLY <1>2, <1>3 DEF FreeSame, Free, IsList
<1>5. \A s, n : n # m => (Adopts(b, s, n) <=> Adopts(a, s, n))
  BY ONLY <1>2, <1>3 DEF Adopts
<1>6. \A s : Adopts(b, s, m) <=> s \in S
  BY ONLY <1>2, <1>3, \A i \in 1 .. Len(a) : a[i].at = "when" => a[i].d # m DEF Adopts
<1>7. OneWhen(a) => OneWhen(b)
  BY ONLY <1>2, <1>3, \A i \in 1 .. Len(a) : a[i].at = "when" => a[i].d # m DEF OneWhen
<1>. QED  BY <1>4, <1>5, <1>6, <1>7 DEF WhenOn

LEMMA WhenMasters ==
  ASSUME OneStep, NEW S \in SUBSET Ds, NEW m \in Pool, When(S, m)
  PROVE  MastersInv'
<1>1. /\ UNCHANGED <<state, lists, threw>> /\ Cardinality(S) > 1 /\ m \in unused
      /\ subs' = [subs EXCEPT ![m] = S] /\ remaining' = [remaining EXCEPT ![m] = Cardinality(S)]
      /\ stack' = Append(stack, Adopting(m, S))
  BY DEF When, Count
<1>2. /\ Base /\ PromInv /\ MastersInv /\ Once /\ m \in Ds /\ IsFiniteSet(Ds)
      /\ DOMAIN subs = Ds /\ remaining \in [Ds -> Nat]
  BY DeferredAssumption DEF OneStep, Inv, PromInv, MastersInv
<1>3. subs[m] = {} /\ ~Settled(m)
  BY <1>1, <1>2 DEF PromInv, PromiseOK
<1>4. IsFiniteSet(S) /\ Cardinality(S) \in Nat /\ S # {}
  <2>1. IsFiniteSet(S)
    BY <1>2, FS_Subset
  <2>. QED  BY <1>1, <2>1, FS_CardinalityType, FS_EmptySet
<1>5. /\ subs'[m] = S /\ remaining'[m] = Cardinality(S)
      /\ \A n \in Ds : n # m => subs'[n] = subs[n] /\ remaining'[n] = remaining[n]
      /\ remaining' \in [Ds -> Nat]
  BY <1>1, <1>2, <1>4
<1>6. Masters' = Masters \cup {m} /\ m \notin Masters
  BY <1>2, <1>3, <1>4, <1>5, DeferredAssumption DEF Masters
<1>7. WhenOn(stack, stack', m, S)
  <2>1. stack \in Seq(Frames) /\ \A i \in 1 .. Len(stack) : stack[i].at = "when" => stack[i].d # m
    BY <1>2, <1>6 DEF Base, StackInv, StackOK, FrameOK
  <2>2. Adopting(m, S) \in Frames
    BY <1>2 DEF Adopting, Frames
  <2>. QED  BY <1>1, <2>1, <2>2, WhenPushed
<1>8. \A s \in Ds : state[s] \in {"pending", "resolved", "rejected"}
  BY <1>2 DEF Base, ListsInv, DefOK
<1>9. ASSUME NEW n \in Masters, NEW s \in Ds PROVE Carried(n, s)
  <2>1. n \in Ds /\ n # m /\ PairOK(n, s) /\ n \in Pool
    BY <1>2, <1>6, DeferredAssumption DEF MastersInv, Masters
  <2>2. PairMoved(n, s)
    BY <1>1, <1>7, <2>1, OwnCallbacks DEF PairMoved, WhenOn, FreeSame, Moves, Keeps, Onward, Stays, Due, Kinds
  <2>. QED  BY <1>1, <1>2, <1>5, <1>8, <2>1, <2>2, PairKept
<1>10. ASSUME NEW n \in Masters PROVE MasterOK(n)'
  <2>1. n \in Ds /\ n # m
    BY <1>6, DeferredAssumption DEF Masters
  <2>2. subs'[n] = subs[n] /\ remaining'[n] = remaining[n] /\ state'[n] = state[n]
    BY <1>1, <1>5, <2>1
  <2>. QED  BY <1>1, <1>2, <1>9, <2>1, <2>2, MasterKept
<1>11. \A s \in Ds : ~Holds(lists[s]["done"], Update(m)) /\ ~Holds(lists[s]["fail"], RejectMaster(m))
  <2>. TAKE s \in Ds
  <2>1. \A n \in Masters : Update(n) # Update(m) /\ RejectMaster(n) # RejectMaster(m)
    <3>1. \A n : Update(n).update = n /\ RejectMaster(n).reject = n
      BY DEF Update, RejectMaster
    <3>. QED  BY <1>6, <3>1
  <2>2. Update(m) \notin Entries["done"] /\ RejectMaster(m) \notin Entries["fail"]
    BY <2>1, OwnCallbacks, EntriesAre
  <2>3. lists[s]["done"].list \in Seq(Entries["done"]) /\ lists[s]["fail"].list \in Seq(Entries["fail"])
    BY <1>2, ListFacts DEF Base, AllKinds
  <2>. QED  BY <2>2, <2>3 DEF Holds
<1>12. \A s \in Ds : PairOK(m, s)'
  <2>. TAKE s \in Ds
  <2>1. \A c : ~Holds(lists[s]["done"], c) => Single(lists[s]["done"], c)
    BY DEF Holds, Single
  <2>2. (Adopts(stack', s, m) <=> s \in S) /\ lists' = lists
    BY <1>1, <1>7 DEF WhenOn
  <2>. QED  BY <1>5, <1>11, <2>1, <2>2 DEF PairOK
<1>13. MasterOK(m)'
  <2>1. AllHeld(m)' = S
    BY <1>5, <1>7 DEF AllHeld, Held, WhenOn
  <2>2. state'[m] = "pending"
    BY <1>1, <1>3 DEF Settled
  <2>3. PICK x, y : x = AllHeld(m)' /\ y = Cardinality(S)
    OBVIOUS
  <2>4. /\ remaining'[m] \in Nat /\ Cardinality(x) <= remaining'[m]
        /\ remaining'[m] <= Cardinality(subs'[m]) /\ remaining'[m] = Cardinality(x)
        /\ remaining'[m] # 0
    BY <1>1, <1>4, <1>5, <2>1, <2>3
  <2>. QED  BY <2>2, <2>3, <2>4 DEF MasterOK
<1>14. \A d \in Ds : subs'[d] \subseteq Ds /\ (d \notin Masters' => remaining'[d] = 0)
  BY <1>2, <1>5, <1>6 DEF MastersInv
<1>15. OneWhen(stack')
  BY <1>2, <1>7 DEF WhenOn, MastersInv
<1>16. ASSUME NEW n \in Masters' PROVE MasterOK(n)' /\ \A s \in Ds : PairOK(n, s)'
  BY <1>6, <1>9, <1>10, <1>12, <1>13, <1>16 DEF Carried
<1>. QED  BY <1>5, <1>14, <1>15, <1>16 DEF MastersInv

(* One that was to be adopted taken out. *)
WhenOff(a, b, m, s) ==
  /\ FreeSame(a, b) /\ OneWhen(b) /\ Adopts(a, s, m)
  /\ \A x, n : Adopts(b, x, n) <=> (Adopts(a, x, n) /\ (x # s \/ n # m))

LEMMA WhenTaken ==
  ASSUME NEW a, Len(a) \in Nat, Len(a) # 0, OneWhen(a), NEW f, NEW b, NEW m, NEW s,
         a[Len(a)].at = "when", f.at = "when", a[Len(a)].d = m, f.d = m,
         s \in a[Len(a)].k, f.k = a[Len(a)].k \ {s},
         Len(b) = Len(a), \A i \in 1 .. Len(a) : b[i] = IF i = Len(a) THEN f ELSE a[i]
  PROVE  WhenOff(a, b, m, s)
<1>1. Len(a) \in 1 .. Len(a)
  OBVIOUS
<1>2. FreeSame(a, b)
  BY DEF FreeSame, Free, IsList
<1>3. OneWhen(b)
  BY DEF OneWhen
<1>4. Adopts(a, s, m)
  BY <1>1 DEF Adopts
<1>5. ASSUME NEW x, NEW n, Adopts(b, x, n) PROVE Adopts(a, x, n) /\ (x # s \/ n # m)
  <2>1. PICK i \in 1 .. Len(b) : b[i].at = "when" /\ b[i].d = n /\ x \in b[i].k
    BY <1>5 DEF Adopts
  <2>2. CASE i = Len(a)
    BY <1>1, <2>1, <2>2 DEF Adopts
  <2>3. CASE i # Len(a)
    <3>1. a[i].at = "when" /\ a[i].d = n /\ x \in a[i].k /\ i \in 1 .. Len(a)
      BY <2>1, <2>3
    <3>2. n # m
      BY <1>1, <2>3, <3>1 DEF OneWhen
    <3>. QED  BY <3>1, <3>2 DEF Adopts
  <2>. QED  BY <2>2, <2>3
<1>6. ASSUME NEW x, NEW n, Adopts(a, x, n), x # s \/ n # m PROVE Adopts(b, x, n)
  <2>1. PICK i \in 1 .. Len(a) : a[i].at = "when" /\ a[i].d = n /\ x \in a[i].k
    BY <1>6 DEF Adopts
  <2>2. b[i].at = "when" /\ b[i].d = n /\ x \in b[i].k /\ i \in 1 .. Len(b)
    BY <1>6, <2>1
  <2>. QED  BY <2>2 DEF Adopts
<1>. QED  BY <1>2, <1>3, <1>4, <1>5, <1>6 DEF WhenOff

(* The two lists of the deferred that is adopted. *)
AdoptedLists(s, m, D, F) ==
  /\ \A x \in Ds, j \in AllKinds :
       lists'[x][j] = IF x = s /\ j = "done" THEN D
                      ELSE IF x = s /\ j = "fail" THEN F ELSE lists[x][j]
  /\ AddedTo(lists[s]["done"], "done", state[s], Update(m), D)
  /\ AddedTo(lists[s]["fail"], "fail", state[s], RejectMaster(m), F)
  /\ \A x \in Ds, j \in Kinds :
       /\ x # s \/ lists[x][j].firing => (Free(stack', x, j) <=> Free(stack, x, j))
       /\ x = s /\ lists'[x][j].firing /\ ~lists[x][j].firing => Free(stack', x, j)
  /\ OneWhen(stack') /\ Adopts(stack, s, m)
  /\ \A x, n : Adopts(stack', x, n) <=> (Adopts(stack, x, n) /\ (x # s \/ n # m))

LEMMA AdoptFrees ==
  ASSUME Base, OneWhen(stack), NEW s \in Ds, NEW m, NEW k, NEW D, NEW F, NEW b, Adopted(s, m, k, D, F, b)
  PROVE  AdoptedLists(s, m, D, F)
<1>0. /\ stack # <<>> /\ Top.at = "when" /\ m = Top.d /\ s \in Top.k /\ k \in Kinds
      /\ b = [stack EXCEPT ![Inner] = [Top EXCEPT !.k = Top.k \ {s}]]
      /\ \A x \in Ds, j \in AllKinds :
           x # s \/ j # k => lists'[x][j].firing = lists[x][j].firing
      /\ stack' = IF lists'[s][k].firing /\ ~lists[s][k].firing
                  THEN Append(b, Firing(s, k)) ELSE b
  BY DEF Adopted
<1>1. PICK f : f = [Top EXCEPT !.k = Top.k \ {s}]
  OBVIOUS
<1>2. /\ StackOK(stack, lists) /\ Inner = Len(stack) /\ Top = stack[Len(stack)]
      /\ stack \in Seq(Frames) /\ FrameOK(Top) /\ Len(stack) \in Nat /\ Len(stack) # 0
  BY <1>0, TopFacts DEF Inner, Top
<1>3. /\ FrameOK(f) /\ f.at = "when" /\ f.d = m /\ f.k = Top.k \ {s}
  <2>1. Top.k \ {s} \in SUBSET Ds
    BY ONLY <1>0, <1>2 DEF FrameOK
  <2>. QED  BY ONLY <1>0, <1>1, <1>2, <2>1 DEF FrameOK, Frames
<1>4. /\ b \in Seq(Frames) /\ Len(b) = Len(stack)
      /\ \A i \in 1 .. Len(stack) : b[i] = IF i = Len(stack) THEN f ELSE stack[i]
  <2>1. f \in Frames
    BY <1>3 DEF FrameOK
  <2>2. b = [stack EXCEPT ![Len(stack)] = f]
    BY <1>0, <1>1, <1>2
  <2>. QED  BY ONLY <1>2, <2>1, <2>2
<1>5. stack[Len(stack)].at = "when" /\ stack[Len(stack)].d = m /\ s \in stack[Len(stack)].k
      /\ f.k = stack[Len(stack)].k \ {s}
  BY <1>0, <1>2, <1>3
<1>6. WhenOff(stack, b, m, s)
  BY ONLY OneWhen(stack), <1>2, <1>3, <1>4, <1>5, WhenTaken
<1>7. k \in AllKinds /\ \A j \in Kinds : j \in AllKinds
  BY <1>0, KindFacts
<1>8. stack' = b \/ stack' = Append(b, Firing(s, k))
  BY <1>0
<1>9. WhenSame(b, stack') /\ SameBut(b, stack', s, k)
  BY ONLY <1>4, <1>7, <1>8, s \in Ds, EnteredOrNot
<1>10. lists'[s][k].firing /\ ~lists[s][k].firing => Free(stack', s, k)
  <2>. SUFFICES ASSUME lists'[s][k].firing, ~lists[s][k].firing PROVE Free(stack', s, k)
    OBVIOUS
  <2>1. stack' = Append(b, Firing(s, k))
    BY <1>0
  <2>. QED  BY ONLY <1>4, <1>7, <2>1, s \in Ds, AlikeEntered
<1>11. ASSUME NEW x \in Ds, NEW j \in Kinds
       PROVE  /\ x # s \/ j # k \/ lists[x][j].firing => (Free(stack', x, j) <=> Free(stack, x, j))
              /\ x = s /\ lists'[x][j].firing /\ ~lists[x][j].firing => Free(stack', x, j)
  <2>1. Free(b, x, j) <=> Free(stack, x, j)
    BY <1>6 DEF WhenOff, FreeSame
  <2>2. CASE x # s \/ j # k
    BY <1>0, <1>7, <1>9, <2>1, <2>2 DEF SameBut
  <2>3. CASE x = s /\ j = k
    <3>1. lists[s][k].firing => stack' = b
      BY <1>0
    <3>. QED  BY <1>10, <2>1, <2>3, <3>1
  <2>. QED  BY <2>2, <2>3
<1>12. /\ OneWhen(stack') /\ Adopts(stack, s, m)
       /\ \A x, n : Adopts(stack', x, n) <=> (Adopts(stack, x, n) /\ (x # s \/ n # m))
  BY ONLY <1>6, <1>9 DEF WhenOff, WhenSame
<1>13. /\ \A x \in Ds, j \in AllKinds :
            lists'[x][j] = IF x = s /\ j = "done" THEN D
                           ELSE IF x = s /\ j = "fail" THEN F ELSE lists[x][j]
       /\ AddedTo(lists[s]["done"], "done", state[s], Update(m), D)
       /\ AddedTo(lists[s]["fail"], "fail", state[s], RejectMaster(m), F)
  BY DEF Adopted
<1>. QED  BY ONLY <1>11, <1>12, <1>13 DEF AdoptedLists

(* What was in the lists of one that is adopted, and what is put into them. *)
AdoptMove(s, k, l, c, r) ==
  /\ \A e : e # c => /\ Onward(l, Free(stack, s, k), r, Free(stack', s, k), e)
                     /\ Stays(l, Free(stack, s, k), r, Free(stack', s, k), e)
  /\ state[s] # Outcome(Other(k)) => Due(r, Free(stack', s, k), c)
  /\ ~Holds(l, c) => Single(r, c)
  /\ \A e : e # c /\ Holds(r, e) => Holds(l, e)

LEMMA AdoptMoves ==
  ASSUME Base, NEW s \in Ds, NEW k \in Kinds, NEW c, NEW r, AddedTo(lists[s][k], k, state[s], c, r),
         lists[s][k].firing => (Free(stack', s, k) <=> Free(stack, s, k)),
         r.firing /\ ~lists[s][k].firing => Free(stack', s, k)
  PROVE  AdoptMove(s, k, lists[s][k], c, r)
<1>1. k \in AllKinds /\ ListsInv
  BY KindFacts DEF Base
<1>2. PICK x, y \in BOOLEAN : x = Free(stack, s, k) /\ y = Free(stack', s, k)
  BY DEF Free
<1>3. PICK l, E, t, v : l = lists[s][k] /\ E = Entries[k] /\ t = state[s] /\ v = value[s]
  OBVIOUS
<1>4. /\ ListOK(l, E) /\ KindOK(l, k, t, v) /\ t \in {"pending", "resolved", "rejected"}
      /\ AddedTo(l, k, t, c, r) /\ k \in Kinds
  BY <1>1, <1>3, ListFacts
<1>5. (l.firing => x = y) /\ (t = Outcome(k) /\ ~l.firing => y)
  <2>1. t = Outcome(k) /\ ~l.firing => r.firing
    BY <1>4 DEF AddedTo
  <2>. QED  BY <1>2, <1>3, <2>1
<1>6. \A e : e # c => Onward(l, x, r, y, e) /\ Stays(l, x, r, y, e)
  BY ONLY <1>4, <1>5, x \in BOOLEAN, y \in BOOLEAN, DueAdd
<1>7. (t # Outcome(Other(k)) => Due(r, y, c)) /\ (~Holds(l, c) => Single(r, c))
  BY ONLY <1>4, <1>5, y \in BOOLEAN, DueAdded
<1>8. \A e : e # c /\ Holds(r, e) => Holds(l, e)
  BY <1>6 DEF Onward
<1>. QED  BY <1>2, <1>3, <1>6, <1>7, <1>8 DEF AdoptMove

LEMMA AdoptMasters ==
  ASSUME CountsNone, NEW s \in Ds, WhenAdopts(s)
  PROVE  MastersInv'
<1>0. /\ Base /\ MastersInv /\ OneWhen(stack) /\ UNCHANGED <<state, threw, subs>> /\ Once
      /\ \A d \in Ds : state[d] \in {"pending", "resolved", "rejected"}
  BY DEF WhenAdopts, rest, CountsNone, OneStep, Inv, MastersInv, Base, ListsInv, DefOK
<1>1. PICK m, k, D, F, b : Adopted(s, m, k, D, F, b)
  BY <1>0, AdoptIs
<1>2. m \in Masters
  BY <1>1 DEF Adopted
<1>3. AdoptedLists(s, m, D, F)
  BY ONLY <1>0, <1>1, s \in Ds, AdoptFrees
<1>4. /\ "done" \in Kinds /\ "fail" \in Kinds /\ \A j \in Kinds : j \in AllKinds
      /\ Outcome(Other("done")) = "rejected" /\ Outcome(Other("fail")) = "resolved"
  BY DEF Kinds, AllKinds, Outcome, Other
<1>5. /\ \A x \in Ds, j \in Kinds : x # s => lists'[x][j] = lists[x][j]
      /\ lists'[s]["done"] = D /\ lists'[s]["fail"] = F
  BY <1>3, <1>4 DEF AdoptedLists
<1>6. AdoptMove(s, "done", lists[s]["done"], Update(m), D)
  <2>1. /\ AddedTo(lists[s]["done"], "done", state[s], Update(m), D)
        /\ lists[s]["done"].firing => (Free(stack', s, "done") <=> Free(stack, s, "done"))
        /\ D.firing /\ ~lists[s]["done"].firing => Free(stack', s, "done")
    BY <1>3, <1>4, <1>5 DEF AdoptedLists
  <2>. QED  BY ONLY <1>0, <1>4, <2>1, s \in Ds, AdoptMoves
<1>7. AdoptMove(s, "fail", lists[s]["fail"], RejectMaster(m), F)
  <2>1. /\ AddedTo(lists[s]["fail"], "fail", state[s], RejectMaster(m), F)
        /\ lists[s]["fail"].firing => (Free(stack', s, "fail") <=> Free(stack, s, "fail"))
        /\ F.firing /\ ~lists[s]["fail"].firing => Free(stack', s, "fail")
    BY <1>3, <1>4, <1>5 DEF AdoptedLists
  <2>. QED  BY ONLY <1>0, <1>4, <2>1, s \in Ds, AdoptMoves
<1>8. /\ OneWhen(stack') /\ Adopts(stack, s, m)
      /\ \A x, n : Adopts(stack', x, n) <=> (Adopts(stack, x, n) /\ (x # s \/ n # m))
  BY <1>3 DEF AdoptedLists
<1>9. ASSUME NEW n \in Masters, NEW x \in Ds, x # s \/ n # m PROVE Carried(n, x)
  <2>1. /\ Moves(stack, stack', x, "done", Update(n)) /\ Keeps(stack, stack', x, "done", Update(n))
        /\ Moves(stack, stack', x, "fail", RejectMaster(n))
        /\ Keeps(stack, stack', x, "fail", RejectMaster(n))
    <3>1. CASE x # s
      <4>1. /\ lists'[x]["done"] = lists[x]["done"] /\ lists'[x]["fail"] = lists[x]["fail"]
            /\ Free(stack', x, "done") <=> Free(stack, x, "done")
            /\ Free(stack', x, "fail") <=> Free(stack, x, "fail")
        BY <1>3, <1>4, <1>5, <3>1 DEF AdoptedLists
      <4>. QED  BY <4>1 DEF Moves, Keeps, Onward, Stays, Due
    <3>2. CASE x = s /\ n # m
      <4>1. Update(n) # Update(m) /\ RejectMaster(n) # RejectMaster(m)
        <5>1. \A y : Update(y).update = y /\ RejectMaster(y).reject = y
          BY DEF Update, RejectMaster
        <5>. QED  BY <3>2, <5>1
      <4>. QED  BY <1>5, <1>6, <1>7, <3>2, <4>1 DEF AdoptMove, Moves, Keeps
    <3>. QED  BY <1>9, <3>1, <3>2
  <2>2. PairMoved(n, x)
    BY <1>8, <1>9, <2>1 DEF PairMoved
  <2>3. PairOK(n, x) /\ n \in Ds /\ subs'[n] = subs[n] /\ state'[x] \in {"pending", "resolved", "rejected"}
        /\ state[x] \in {"pending", "resolved", "rejected"} /\ (threw => threw')
    BY <1>0, DeferredAssumption DEF MastersInv, Masters
  <2>. QED  BY ONLY <1>0, <2>2, <2>3, x \in Ds, PairKept
<1>10. Carried(m, s)
  <2>1. PairOK(m, s) /\ s \in subs[m] /\ ~Holds(lists[s]["done"], Update(m)) /\ Held(m, s)
    BY <1>0, <1>2, <1>8 DEF MastersInv, PairOK, Held
  <2>2. /\ state[s] # "rejected" => ToCome(s, "done", Update(m))'
        /\ state[s] # "resolved" => ToCome(s, "fail", RejectMaster(m))'
        /\ Single(lists'[s]["done"], Update(m))
    BY <1>4, <1>5, <1>6, <1>7, <2>1 DEF AdoptMove, ToCome
  <2>3. ~Adopts(stack', s, m)
    BY <1>8
  <2>4. PairOK(m, s)'
    BY <1>0, <2>1, <2>2, <2>3 DEF PairOK, Settled
  <2>5. Held(m, s)'
    BY <1>0, <2>2 DEF Held
  <2>. QED  BY <2>1, <2>4, <2>5 DEF Carried
<1>11. \A n \in Masters, x \in Ds : Carried(n, x)
  BY <1>9, <1>10
<1>. QED  BY <1>0, <1>8, <1>11, MastersCarried DEF CountsNone

-----------------------------------------------------------------------------
LEMMA MastersAtFirst ==
  ASSUME Init
  PROVE  MastersInv
<1>1. Masters = {} /\ remaining = [d \in Ds |-> 0] /\ subs = [d \in Ds |-> {}] /\ Len(stack) = 0
  BY DeferredAssumption DEF Init, Masters
<1>. QED  BY <1>1 DEF MastersInv, OneWhen

LEMMA MastersStep ==
  ASSUME Inv, Inv', MastersInv, [Next]_vars
  PROVE  MastersInv'
<1>0. OneStep
  BY StepOnce DEF OneStep
<1>1. ASSUME NEW d \in Ds, NEW k \in Kinds, NEW v \in Vals, Resolve(d, k, v) PROVE MastersInv'
  <2>1. CountsNone
    BY <1>0, <1>1 DEF Resolve, rest, CountsNone
  <2>. QED  BY ONLY <1>1, <2>1, ResolveMasters
<1>2. ASSUME NEW d \in Ds, NEW v \in Vals, Notify(d, v) PROVE MastersInv'
  <2>1. CountsNone
    BY <1>0, <1>2 DEF Notify, rest, CountsNone
  <2>. QED  BY ONLY <1>2, <2>1, NotifyMasters
<1>3. ASSUME NEW d \in Ds, NEW k \in Kinds \cup {"progress"}, NEW f \in Fns, AddListener(d, k, f)
      PROVE  MastersInv'
  <2>1. CountsNone
    BY <1>0, <1>3 DEF AddListener, rest, CountsNone
  <2>2. k \in AllKinds
    BY KindFacts
  <2>. QED  BY ONLY <1>3, <2>1, <2>2, AddListenerMasters
<1>4. ASSUME \/ \E t \in timers : TimerFires(t)
             \/ \E d \in Ds, p \in Pool : Then(d, p)
             \/ ForeignThenReturns \/ Leave \/ UNCHANGED vars
      PROVE  MastersInv'
  <2>1. CountsNone
    BY <1>0, <1>4 DEF TimerFires, Then, ForeignThenReturns, Leave, vars, rest, CountsNone
  <2>. QED  BY ONLY <1>4, <2>1, QuietMasters
<1>5. ASSUME NEW S \in SUBSET Ds, NEW m \in Pool, When(S, m) PROVE MastersInv'
  BY ONLY <1>0, <1>5, WhenMasters
<1>6. ASSUME NEW s \in Ds, WhenAdopts(s) PROVE MastersInv'
  <2>1. CountsNone
    BY <1>0, <1>6 DEF WhenAdopts, rest, CountsNone
  <2>. QED  BY ONLY <1>6, <2>1, AdoptMasters
<1>7. ASSUME CallbackReturns PROVE MastersInv'
  <2>1. CountsNone
    BY <1>0, <1>7 DEF CallbackReturns, rest, CountsNone
  <2>. QED  BY ONLY <1>7, <2>1, ReturnsMasters
<1>8. ASSUME CallbackThrows PROVE MastersInv'
  <2>1. CountsNone
    BY <1>0, <1>8 DEF CallbackThrows, rest, CountsNone
  <2>. QED  BY ONLY <1>8, <2>1, ThrowsMasters
<1>9. ASSUME InternalRuns PROVE MastersInv'
  BY ONLY <1>0, <1>9, InternalMasters
<1>10. ASSUME NEW t \in timers, FollowedSettles(t) PROVE MastersInv'
  <2>1. CountsNone
    BY <1>0, <1>10 DEF FollowedSettles, rest, CountsNone
  <2>. QED  BY ONLY <1>10, <2>1, FollowedMasters
<1>11. ASSUME NEW r, HandlerReturns(r) PROVE MastersInv'
  <2>1. CountsNone
    BY <1>0, <1>11 DEF HandlerReturns, CountsNone
  <2>. QED  BY ONLY <1>11, <2>1, HandlerReturnsMasters
<1>12. ASSUME NEW v \in Vals, HandlerThrows(v) PROVE MastersInv'
  <2>1. CountsNone
    BY <1>0, <1>12 DEF HandlerThrows, rest, CountsNone
  <2>. QED  BY ONLY <1>12, <2>1, HandlerThrowsMasters
<1>13. ASSUME NEW v \in Vals, ForeignThenThrows(v) PROVE MastersInv'
  <2>1. CountsNone
    BY <1>0, <1>13 DEF ForeignThenThrows, rest, CountsNone
  <2>. QED  BY ONLY <1>13, <2>1, ThenThrowsMasters
<1>14. ASSUME NEW p, NEW n, NEW r, ForeignCalls(p, n, r) PROVE MastersInv'
  <2>1. CountsNone
    BY <1>0, <1>14 DEF ForeignCalls, CountsNone
  <2>. QED  BY ONLY <1>14, <2>1, ForeignMasters
<1>15. CASE Next
  <2>1. \/ \E d \in Ds, k \in Kinds, v \in Vals : Resolve(d, k, v)
        \/ \E d \in Ds, v \in Vals : Notify(d, v)
        \/ \E d \in Ds \ unused, k \in Kinds \cup {"progress"}, f \in Fns : AddListener(d, k, f)
        \/ \E d \in Ds, p \in Pool : Then(d, p)
        \/ \E S \in SUBSET Ds, m \in Pool : When(S, m)
        \/ \E s \in Ds : WhenAdopts(s)
        \/ CallbackReturns \/ CallbackThrows \/ InternalRuns
        \/ \E t \in timers : TimerFires(t) \/ FollowedSettles(t)
        \/ \E r : HandlerReturns(r)
        \/ \E v \in Vals : HandlerThrows(v) \/ ForeignThenThrows(v)
        \/ ForeignThenReturns \/ Leave
        \/ \E p, n, r : ForeignCalls(p, n, r)
    BY <1>15 DEF Next
  <2>. QED  BY ONLY <1>1, <1>2, <1>3, <1>4, <1>5, <1>6, <1>7, <1>8, <1>9, <1>10, <1>11, <1>12,
                    <1>13, <1>14, <2>1
<1>. QED  BY <1>4, <1>15

-----------------------------------------------------------------------------
(* state and waiting are functions on the deferreds: a step changes them at
   one deferred or not at all. *)
OnDs(f) == f = [d \in Ds |-> f[d]]

Touches(f, g) == g = f \/ \E d, x : g = [f EXCEPT ![d] = x]

Touched == Touches(state, state') /\ Touches(waiting, waiting')

LEMMA StaysOnDs ==
  ASSUME NEW f, NEW g, OnDs(f), Touches(f, g)
  PROVE  OnDs(g)
<1>1. CASE g = f
  BY <1>1
<1>2. ASSUME NEW d, NEW x, g = [f EXCEPT ![d] = x] PROVE OnDs(g)
  <2>1. DOMAIN f = Ds
    BY DEF OnDs
  <2>2. g = [e \in Ds |-> IF e = d THEN x ELSE f[e]]
    BY <1>2, <2>1
  <2>. QED  BY <2>2 DEF OnDs
<1>. QED  BY <1>1, <1>2 DEF Touches

LEMMA SettleTouches ==
  ASSUME NEW ts, NEW d, NEW k, NEW v, NEW b, SettleFrom(ts, d, k, v, b)
  PROVE  Touched
BY DEF SettleFrom, Touched, Touches

LEMMA AwaitTouches ==
  ASSUME NEW d, NEW p, NEW n, Await(d, p, n)
  PROVE  Touches(waiting, waiting')
BY DEF Await, Touches

LEMMA ResolveToTouches ==
  ASSUME NEW p, NEW n, NEW r, r \in Results(p), NEW b, ResolveTo(p, n, r, b)
  PROVE  Touched
<1>0. \/ \E v \in Vals : r = <<"plain", v>>
      \/ \E e : r = <<"promise", e>>
      \/ r = <<"foreign">>
  BY DEF Results
<1>1. CASE \E v \in Vals : r = <<"plain", v>>
  BY <1>1, SettleTouches DEF ResolveTo, Settle
<1>2. CASE \E e : r = <<"promise", e>>
  <2>1. state' = state /\ Await(r[2], p, maxDepth[p] + 1)
    BY <1>2 DEF ResolveTo
  <2>. QED  BY <2>1, AwaitTouches DEF Touched, Touches
<1>3. CASE r = <<"foreign">>
  BY <1>3 DEF ResolveTo, Touched, Touches
<1>. QED  BY <1>0, <1>1, <1>2, <1>3

LEMMA StepTouches ==
  ASSUME [Next]_vars
  PROVE  Touched
<1>1. ASSUME UNCHANGED <<state, waiting>> PROVE Touched
  BY <1>1 DEF Touched, Touches
<1>2. ASSUME NEW d, NEW k, NEW v, Resolve(d, k, v) PROVE Touched
  BY <1>2, SettleTouches DEF Resolve, Settle
<1>3. ASSUME NEW d, NEW v, Notify(d, v) PROVE Touched
  BY <1>1, <1>3 DEF Notify
<1>4. ASSUME NEW d, NEW k, NEW f, AddListener(d, k, f) PROVE Touched
  BY <1>1, <1>4 DEF AddListener
<1>5. ASSUME NEW d, NEW p, Then(d, p) PROVE Touched
  <2>1. state' = state /\ Await(d, p, 0)
    BY <1>5 DEF Then
  <2>. QED  BY <2>1, AwaitTouches DEF Touched, Touches
<1>6. ASSUME NEW S, NEW m, When(S, m) PROVE Touched
  BY <1>1, <1>6 DEF When
<1>7. ASSUME NEW s, WhenAdopts(s) PROVE Touched
  BY <1>1, <1>7 DEF WhenAdopts
<1>8. CASE CallbackReturns \/ CallbackThrows \/ ForeignThenReturns \/ Leave
  BY <1>1, <1>8 DEF CallbackReturns, CallbackThrows, ForeignThenReturns, Leave
<1>9. CASE InternalRuns
  <2>1. \/ UNCHANGED <<state, waiting>>
        \/ \E d, k, v, b : SettleFrom(timers, d, k, v, b)
    BY <1>9 DEF InternalRuns, Settle
  <2>. QED  BY <1>1, <2>1, SettleTouches
<1>10. ASSUME NEW t, TimerFires(t) PROVE Touched
  BY <1>1, <1>10 DEF TimerFires
<1>11. ASSUME NEW t, FollowedSettles(t) PROVE Touched
  <2>1. \/ UNCHANGED <<state, waiting>>
        \/ SettleFrom(timers \ {t}, t.p, t.k, value[t.of][1], <<>>)
    BY <1>11 DEF FollowedSettles
  <2>. QED  BY <1>1, <2>1, SettleTouches
<1>12. ASSUME NEW r, HandlerReturns(r) PROVE Touched
  BY <1>12, ResolveToTouches DEF HandlerReturns
<1>13. ASSUME NEW v, HandlerThrows(v) PROVE Touched
  BY <1>13, SettleTouches DEF HandlerThrows, Settle
<1>14. ASSUME NEW v, ForeignThenThrows(v) PROVE Touched
  <2>1. \/ UNCHANGED <<state, waiting>>
        \/ SettleFrom(timers, Top.d, "fail", v, Outer)
    BY <1>14 DEF ForeignThenThrows, Settle
  <2>. QED  BY <1>1, <2>1, SettleTouches
<1>15. ASSUME NEW p, NEW n, NEW r, ForeignCalls(p, n, r) PROVE Touched
  <2>1. /\ r \in Results(p) \cup {<<"reject", v>> : v \in Vals}
        /\ \/ UNCHANGED <<state, waiting>>
           \/ r[1] = "reject" /\ SettleFrom(timers, p, "fail", r[2], stack)
           \/ r[1] # "reject" /\ ResolveTo(p, n, r, stack)
    BY <1>15 DEF ForeignCalls, Settle
  <2>2. r[1] # "reject" => r \in Results(p)
    BY <2>1
  <2>. QED  BY <1>1, <2>1, <2>2, SettleTouches, ResolveToTouches
<1>16. CASE UNCHANGED vars
  BY <1>1, <1>16 DEF vars
<1>17. CASE Next
  <2>1. \/ \E d \in Ds, k \in Kinds, v \in Vals : Resolve(d, k, v)
        \/ \E d \in Ds, v \in Vals : Notify(d, v)
        \/ \E d \in Ds \ unused, k \in Kinds \cup {"progress"}, f \in Fns : AddListener(d, k, f)
        \/ \E d \in Ds, p \in Pool : Then(d, p)
        \/ \E S \in SUBSET Ds, m \in Pool : When(S, m)
        \/ \E s \in Ds : WhenAdopts(s)
        \/ CallbackReturns \/ CallbackThrows \/ InternalRuns
        \/ \E t \in timers : TimerFires(t) \/ FollowedSettles(t)
        \/ \E r : HandlerReturns(r)
        \/ \E v \in Vals : HandlerThrows(v) \/ ForeignThenThrows(v)
        \/ ForeignThenReturns \/ Leave
        \/ \E p, n, r : ForeignCalls(p, n, r)
    BY <1>17 DEF Next
  <2>. QED  BY ONLY <1>2, <1>3, <1>4, <1>5, <1>6, <1>7, <1>8, <1>9, <1>10, <1>11, <1>12,
                    <1>13, <1>14, <1>15, <2>1
<1>. QED  BY <1>16, <1>17

(* The invariant with the masters. *)
FullInv == Inv /\ MastersInv /\ OnDs(state) /\ OnDs(waiting)

LEMMA AlwaysFull == Spec => []FullInv
<1>1. Init => MastersInv /\ OnDs(state) /\ OnDs(waiting)
  <2>1. ASSUME Init PROVE OnDs(state) /\ OnDs(waiting)
    BY <2>1 DEF Init, OnDs
  <2>. QED  BY <2>1, MastersAtFirst
<1>2. Inv /\ Inv' /\ MastersInv /\ OnDs(state) /\ OnDs(waiting) /\ [Next]_vars
        => MastersInv' /\ OnDs(state)' /\ OnDs(waiting)'
  <2>. SUFFICES ASSUME Inv, Inv', MastersInv, OnDs(state), OnDs(waiting), [Next]_vars
                PROVE  MastersInv' /\ OnDs(state)' /\ OnDs(waiting)'
    OBVIOUS
  <2>1. MastersInv'
    BY MastersStep
  <2>2. Touches(state, state') /\ Touches(waiting, waiting')
    BY StepTouches DEF Touched
  <2>3. OnDs(state') /\ OnDs(waiting')
    BY <2>2, StaysOnDs
  <2>4. OnDs(state)' /\ OnDs(waiting)'
    BY <2>3 DEF OnDs
  <2>. QED  BY <2>1, <2>4
<1>. QED  BY <1>1, <1>2, Always, PTL DEF Spec, FullInv

LEMMA FullType ==
  ASSUME FullInv
  PROVE  TypeOK
<1>0. ListsInv /\ PromInv /\ MastersInv /\ OnDs(state) /\ OnDs(waiting)
  BY DEF FullInv, Inv, Base
<1>1. state \in [Ds -> {"pending", "resolved", "rejected"}]
  BY <1>0 DEF ListsInv, DefOK, OnDs
<1>2. \A d \in Ds : /\ value[d] \in {<<>>} \cup {<<v>> : v \in Vals}
                    /\ value[d] = <<>> <=> state[d] = "pending"
  BY <1>0 DEF ListsInv, DefOK, Memories
<1>3. maxDepth \in [Ds -> 0..MaxDepth] /\ MaxDepth \in Nat
  BY <1>0, DeferredAssumption DEF PromInv
<1>4. ASSUME NEW d \in Ds PROVE waiting[d] \in SUBSET (Ds \X (0..MaxDepth))
  <2>. SUFFICES ASSUME NEW w \in waiting[d] PROVE w \in Ds \X (0..MaxDepth)
    OBVIOUS
  <2>1. w \in Pool \X Nat
    BY <1>0 DEF PromInv, TokenType
  <2>2. PICK p \in Pool, n \in Nat : w = <<p, n>>
    BY <2>1
  <2>3. Comes(p, n, d)
    BY <2>2 DEF Comes
  <2>4. n <= maxDepth[p]
    BY <1>0, <2>3 DEF PromInv, PromiseOK, Awaits
  <2>5. p \in Ds
    BY DeferredAssumption
  <2>6. n \in 0..MaxDepth
    BY <1>3, <2>4, <2>5
  <2>. QED  BY <2>2, <2>5, <2>6
<1>5. waiting \in [Ds -> SUBSET (Ds \X (0..MaxDepth))]
  BY <1>0, <1>4 DEF OnDs
<1>6. ASSUME NEW d \in Ds PROVE remaining[d] \in 0..Cardinality(Ds)
  <2>1. remaining[d] \in Nat /\ (d \notin Masters => remaining[d] = 0)
        /\ (d \in Masters => remaining[d] <= Cardinality(subs[d]))
    BY <1>0 DEF MastersInv, MasterOK
  <2>2. Cardinality(subs[d]) \in Nat /\ Cardinality(subs[d]) <= Cardinality(Ds) /\ Cardinality(Ds) \in Nat
    BY <1>0, HeldFinite
  <2>3. PICK x, y, z : x = remaining[d] /\ y = Cardinality(subs[d]) /\ z = Cardinality(Ds)
    OBVIOUS
  <2>4. x \in 0 .. z
    BY ONLY <2>1, <2>2, <2>3
  <2>. QED  BY <2>3, <2>4
<1>7. remaining \in [Ds -> 0..Cardinality(Ds)]
  <2>1. remaining = [d \in Ds |-> remaining[d]]
    BY <1>0 DEF MastersInv
  <2>. QED  BY <1>6, <2>1
<1>. QED  BY <1>1, <1>2, <1>3, <1>5, <1>7 DEF TypeOK

(* when() resolves its master when and only when all it was made of is
   resolved, and rejects it when one of them is rejected, whatever the order
   in which they end and whatever their listeners do meanwhile
   (jquery-3.4.1.js:3773-3829). *)
THEOREM MastersCount == Spec => []MasterCountsAll
<1>1. FullInv => MasterCountsAll
  <2>. SUFFICES ASSUME FullInv PROVE MasterCountsAll
    OBVIOUS
  <2>. DEFINE All(m) == \A s \in subs[m] : state[s] = "resolved"
              One(m) == \E s \in subs[m] : state[s] = "rejected"
  <2>0. Inv /\ Base /\ ListsInv /\ MastersInv
    BY DEF FullInv, Inv, Base
  <2>1. ASSUME NEW m \in Pool, subs[m] # {}
        PROVE  /\ state[m] = "resolved" => All(m)
               /\ Quiet /\ ~threw => /\ All(m) => state[m] = "resolved"
                                     /\ One(m) => state[m] = "rejected"
    <3>1. m \in Masters /\ m \in Ds /\ MasterOK(m) /\ subs[m] \subseteq Ds
          /\ (\A s \in Ds : PairOK(m, s)) /\ state[m] \in {"pending", "resolved", "rejected"}
      BY <2>0, <2>1, DeferredAssumption DEF MastersInv, Masters, ListsInv, DefOK
    <3>2. /\ IsFiniteSet(AllHeld(m)) /\ Cardinality(AllHeld(m)) \in Nat
          /\ Cardinality(AllHeld(m)) = 0 <=> AllHeld(m) = {}
      BY <2>0, <3>1, HeldFinite, FS_EmptySet
    <3>3. state[m] = "resolved" => All(m)
      <4>. SUFFICES ASSUME state[m] = "resolved" PROVE All(m)
        OBVIOUS
      <4>1. Cardinality(AllHeld(m)) <= 0
        BY <3>1 DEF MasterOK
      <4>2. Cardinality(AllHeld(m)) = 0
        BY ONLY <3>2, <4>1
      <4>3. AllHeld(m) = {}
        BY <3>2, <4>2
      <4>. QED  BY <4>3 DEF AllHeld, Held
    <3>4. ASSUME Quiet, ~threw
          PROVE  (All(m) => state[m] = "resolved") /\ (One(m) => state[m] = "rejected")
      <4>1. \A s, n : ~Adopts(stack, s, n)
        <5>1. stack = <<>> /\ Len(<<>>) = 0
          BY <3>4 DEF Quiet
        <5>. QED  BY <5>1 DEF Adopts
      <4>2. ASSUME NEW s \in Ds, NEW k \in Kinds, NEW c, Settled(s) PROVE ~ToCome(s, k, c)
        <5>1. lists[s][k].list = <<>>
          BY <2>0, <3>4, <4>2, ListenersCalled DEF ListenersAllCalled
        <5>2. Len(<<>>) = 0
          OBVIOUS
        <5>. QED  BY <5>1, <5>2 DEF ToCome, Due
      <4>3. One(m) => Settled(m)
        <5>. SUFFICES ASSUME NEW s \in subs[m], state[s] = "rejected" PROVE Settled(m)
          OBVIOUS
        <5>1. s \in Ds /\ Settled(s) /\ "fail" \in Kinds
          BY <3>1 DEF Settled, Kinds
        <5>2. ~ToCome(s, "fail", RejectMaster(m))
          BY <4>2, <5>1
        <5>. QED  BY <3>1, <3>4, <4>1, <5>1, <5>2 DEF PairOK
      <4>4. All(m) => Settled(m)
        <5>. SUFFICES ASSUME All(m) PROVE Settled(m)
          OBVIOUS
        <5>1. AllHeld(m) = {}
          <6>. SUFFICES ASSUME NEW s \in subs[m], Held(m, s) PROVE FALSE
            BY DEF AllHeld
          <6>1. s \in Ds /\ state[s] = "resolved" /\ Settled(s) /\ "done" \in Kinds
            BY <3>1 DEF Settled, Kinds
          <6>2. ~ToCome(s, "done", Update(m))
            BY <4>2, <6>1
          <6>. QED  BY <4>1, <6>1, <6>2 DEF Held
        <5>2. remaining[m] = 0
          BY <3>1, <3>2, <3>4, <5>1 DEF MasterOK
        <5>. QED  BY <3>1, <5>2 DEF MasterOK
      <4>5. state[m] = "rejected" => One(m)
        BY <3>1 DEF MasterOK
      <4>6. ~(All(m) /\ One(m))
        OBVIOUS
      <4>. QED  BY <3>1, <3>3, <4>3, <4>4, <4>5, <4>6 DEF Settled
    <3>. QED  BY <3>3, <3>4
  <2>. QED  BY <2>1, FullType DEF MasterCountsAll
<1>. QED  BY <1>1, AlwaysFull, PTL
=============================================================================
