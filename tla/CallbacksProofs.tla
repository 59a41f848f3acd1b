-------------------------- MODULE CallbacksProofs --------------------------
(***************************************************************************)
(* What holds of a callback list for any callbacks, values, options and    *)
(* number of calls.  That a locked list keeps its value depends on the     *)
(* queue alone (IInv), that `once' calls with one value on the lock        *)
(* (OneValue); what a pass still owes (PassInv) depends on the list, on    *)
(* its index and on what remove() takes out, for which the operator of     *)
(* remove() is first shown to do, for every sequence, what it should.      *)
(***************************************************************************)
EXTENDS Callbacks, TLAPS, WellFoundedInduction, FiniteSetTheorems,
        SequenceTheorems

HasFields(l) ==
  /\ "list" \in DOMAIN l /\ "alive" \in DOMAIN l /\ "queue" \in DOMAIN l
  /\ "memory" \in DOMAIN l /\ "firing" \in DOMAIN l
  /\ "locked" \in DOMAIN l /\ "index" \in DOMAIN l

(* What the operators need of the record they are given. *)
Shape(l) ==
  /\ HasFields(l)
  /\ l.queue \in Seq(Vals)
  /\ l.memory = <<>> \/ \E v \in Vals : l.memory = <<v>>
  /\ l.firing \in BOOLEAN
  /\ l.locked \in BOOLEAN

(* A list that does not fire has nothing waiting, and neither has a locked
   one: lock() empties the queue and fireWith() refuses to fill it. *)
NothingWaits(l) ==
  /\ ~l.firing => l.queue = <<>>
  /\ l.locked => l.queue = <<>>

(* What every method does to a list that was in order. *)
Keeps(l, r) ==
  /\ Shape(r)
  /\ NothingWaits(r)
  /\ l.locked => r.locked
  /\ l.locked => r.memory \in {l.memory, <<>>}

(* With `once', nothing was called before the list was locked, and what was
   called since was called with one value, the one still remembered if any. *)
OneValue ==
  "once" \in opt =>
    /\ c.firing => c.locked
    /\ ~c.locked => c.memory = <<>> /\ \A a \in Fns : got[a] = <<>>
    /\ \A a, b \in Fns : got[a] # <<>> /\ got[b] # <<>> => got[a] = got[b]
    /\ \A a \in Fns : got[a] # <<>> /\ c.memory # <<>> => got[a] = c.memory

IInv == Shape(c) /\ NothingWaits(c) /\ (running # <<>> => c.firing)

OInv == DOMAIN got = Fns /\ OneValue

(* From one callback to the next: a list with nothing waiting is left with
   its value or none. *)
LEMMA AdvanceLemma ==
  ASSUME NEW l, Shape(l), NEW o
  PROVE  /\ Shape(Advance(o, l))
         /\ Advance(o, l).locked = l.locked
         /\ l.firing /\ ~Advance(o, l).firing => Advance(o, l).queue = <<>>
         /\ l.queue = <<>> => Advance(o, l).queue = <<>>
         /\ l.queue = <<>> => Advance(o, l).memory \in {l.memory, <<>>}
<1>1. HasFields(Advance(o, l))
  BY DEF Advance, Finish, Shape, HasFields
<1>2. Advance(o, l).queue \in Seq(Vals)
  BY DEF Advance, Finish, Shape, HasFields
<1>3. Advance(o, l).firing \in BOOLEAN
  BY DEF Advance, Finish, Shape, HasFields
<1>4. Advance(o, l).locked \in BOOLEAN
  BY DEF Advance, Finish, Shape, HasFields
<1>5. Advance(o, l).memory = <<>> \/ \E v \in Vals : Advance(o, l).memory = <<v>>
  BY DEF Advance, Finish, Shape, HasFields
<1>6. Shape(Advance(o, l))
  BY <1>1, <1>2, <1>3, <1>4, <1>5 DEF Shape
<1>7. Advance(o, l).locked = l.locked
  BY DEF Advance, Finish, Shape, HasFields
<1>8. l.firing /\ ~Advance(o, l).firing => Advance(o, l).queue = <<>>
  BY DEF Advance, Finish, Shape, HasFields
<1>9. l.queue = <<>> => Advance(o, l).queue = <<>>
  BY DEF Advance, Finish, Shape, HasFields
<1>10. l.queue = <<>> => Advance(o, l).memory \in {l.memory, <<>>}
  BY DEF Advance, Finish, Shape, HasFields
<1> QED
  BY <1>6, <1>7, <1>8, <1>9, <1>10

(* The beginning of fire(). *)
LEMMA StartLemma ==
  ASSUME NEW l, Shape(l), l.queue # <<>>, NEW o
  PROVE  /\ Shape(Start(o, l))
         /\ l.locked => Start(o, l).locked
         /\ "once" \in o => Start(o, l).locked
         /\ ~Start(o, l).firing => Start(o, l).queue = <<>>
         /\ Tail(l.queue) = <<>> => Start(o, l).queue = <<>>
         /\ Tail(l.queue) = <<>> => Start(o, l).memory \in {<<Head(l.queue)>>, <<>>}
<1> DEFINE m == [l EXCEPT !.locked = @ \/ "once" \in o,
                          !.fired = TRUE, !.firing = TRUE,
                          !.memory = <<Head(l.queue)>>, !.queue = Tail(@)]
<1>1. Start(o, l) = Advance(o, m)
  BY DEF Start
<1>2. m.queue = Tail(l.queue)
  BY DEF Shape, HasFields
<1>3. m.memory = <<Head(l.queue)>>
  BY DEF Shape, HasFields
<1>4. m.firing
  BY DEF Shape, HasFields
<1>5. m.locked \in BOOLEAN /\ (l.locked \/ "once" \in o => m.locked)
  BY DEF Shape, HasFields
<1>6. HasFields(m)
  BY DEF Shape, HasFields
<1>7. m.memory = <<>> \/ \E v \in Vals : m.memory = <<v>>
  BY <1>3 DEF Shape
<1>8. m.queue \in Seq(Vals)
  BY <1>2 DEF Shape
<1>9. Shape(m)
  BY <1>4, <1>5, <1>6, <1>7, <1>8 DEF Shape
<1> HIDE DEF m
<1>10. Shape(Start(o, l)) /\ Start(o, l).locked = m.locked
  BY <1>1, <1>9, AdvanceLemma
<1>11. ~Start(o, l).firing => Start(o, l).queue = <<>>
  BY <1>1, <1>4, <1>9, AdvanceLemma
<1>12. m.queue = <<>> => Start(o, l).queue = <<>>
  BY <1>1, <1>9, AdvanceLemma
<1>13. m.queue = <<>> => Start(o, l).memory \in {m.memory, <<>>}
  BY <1>1, <1>9, AdvanceLemma
<1> QED
  BY <1>2, <1>3, <1>5, <1>10, <1>11, <1>12, <1>13

LEMMA PushLemma ==
  ASSUME NEW l, Shape(l), NEW o, NEW f
  PROVE  /\ Shape(Push(o, l, f))
         /\ NothingWaits(l) => NothingWaits(Push(o, l, f))
         /\ Push(o, l, f).queue = l.queue
         /\ Push(o, l, f).locked = l.locked
         /\ Push(o, l, f).memory = l.memory
<1>1. Push(o, l, f).queue = l.queue
  BY DEF Push, Shape, HasFields
<1>2. Push(o, l, f).locked = l.locked
  BY DEF Push, Shape, HasFields
<1>3. Push(o, l, f).memory = l.memory
  BY DEF Push, Shape, HasFields
<1>4. Push(o, l, f).firing = l.firing
  BY DEF Push, Shape, HasFields
<1>5. HasFields(Push(o, l, f))
  BY DEF Push, Shape, HasFields
<1> QED
  BY <1>1, <1>2, <1>3, <1>4, <1>5 DEF Shape, NothingWaits

(* fire() begun with one value waiting. *)
LEMMA StartKeeps ==
  ASSUME NEW l, NEW m, Shape(l), Shape(m), NEW v \in Vals, m.queue = <<v>>,
         m.locked = l.locked, NEW o,
         l.locked => l.memory = <<v>>
  PROVE  Keeps(l, Start(o, m)) /\ ("once" \in o => Start(o, m).locked)
<1>1. Tail(m.queue) = <<>> /\ Head(m.queue) = v /\ m.queue # <<>>
  OBVIOUS
<1>2. Shape(Start(o, m))
  BY <1>1, StartLemma
<1>3. Start(o, m).queue = <<>>
  BY <1>1, StartLemma
<1>4. Start(o, m).memory \in {<<v>>, <<>>}
  BY <1>1, StartLemma
<1>5. l.locked \/ "once" \in o => Start(o, m).locked
  BY <1>1, StartLemma
<1> QED
  BY <1>2, <1>3, <1>4, <1>5 DEF Keeps, NothingWaits

LEMMA AddKeeps ==
  ASSUME NEW f, Shape(c), NothingWaits(c)
  PROVE  Keeps(c, Add(opt, c, f))
<1>1. CASE ~c.alive
  <2>1. Add(opt, c, f) = c
    BY <1>1 DEF Add
  <2> QED
    BY <2>1 DEF Keeps
<1>2. CASE c.alive /\ c.memory # <<>> /\ ~c.firing
  <2>1. PICK v \in Vals : c.memory = <<v>>
    BY <1>2 DEF Shape
  <2> DEFINE a == [c EXCEPT !.index = Len(c.list),
                            !.queue = Append(@, c.memory[1])]
  <2>2a. c.queue = <<>> /\ c.memory[1] = v
    BY <1>2, <2>1 DEF NothingWaits
  <2>2b. a.queue = Append(c.queue, c.memory[1])
    BY DEF Shape, HasFields
  <2>2. a.queue = <<v>>
    BY <2>2a, <2>2b
  <2>3. a.locked = c.locked
    BY DEF Shape, HasFields
  <2>4. a.memory = c.memory
    BY DEF Shape, HasFields
  <2>5. a.firing \in BOOLEAN
    BY DEF Shape, HasFields
  <2>6. HasFields(a)
    BY DEF Shape, HasFields
  <2>7. Shape(a)
    BY <2>1, <2>2, <2>3, <2>4, <2>5, <2>6 DEF Shape
  <2>8. Add(opt, c, f) = Start(opt, Push(opt, a, f))
    BY <1>2 DEF Add
  <2> HIDE DEF a
  <2>9. Shape(Push(opt, a, f))
    BY <2>7, PushLemma
  <2>10. Push(opt, a, f).queue = <<v>> /\ Push(opt, a, f).locked = c.locked
    BY <2>2, <2>3, <2>7, PushLemma
  <2> QED
    BY <2>1, <2>8, <2>9, <2>10, StartKeeps
<1>3. CASE c.alive /\ (c.memory = <<>> \/ c.firing)
  <2>1. Add(opt, c, f) = Push(opt, c, f)
    BY <1>3 DEF Add
  <2>2. /\ Shape(Push(opt, c, f)) /\ NothingWaits(Push(opt, c, f))
        /\ Push(opt, c, f).locked = c.locked
        /\ Push(opt, c, f).memory = c.memory
    BY PushLemma
  <2> QED
    BY <2>1, <2>2 DEF Keeps
<1> QED
  BY <1>1, <1>2, <1>3

LEMMA FireWithKeeps ==
  ASSUME NEW v \in Vals, Shape(c), NothingWaits(c)
  PROVE  /\ Keeps(c, FireWith(opt, c, v))
         /\ "once" \in opt /\ ~c.firing => FireWith(opt, c, v).locked
<1> DEFINE q == [c EXCEPT !.queue = Append(@, v)]
<1>1. CASE c.locked
  <2>1. FireWith(opt, c, v) = c
    BY <1>1 DEF FireWith
  <2> HIDE DEF q
  <2> QED
    BY <1>1, <2>1 DEF Keeps
<1>2. q.queue = Append(c.queue, v)
  BY DEF Shape, HasFields
<1>3. q.locked = c.locked
  BY DEF Shape, HasFields
<1>4. q.memory = c.memory
  BY DEF Shape, HasFields
<1>5. q.firing = c.firing
  BY DEF Shape, HasFields
<1>6. HasFields(q)
  BY DEF Shape, HasFields
<1>7. q.queue \in Seq(Vals)
  BY <1>2 DEF Shape
<1>8. Shape(q)
  BY <1>3, <1>4, <1>5, <1>6, <1>7 DEF Shape
<1>9. CASE ~c.locked /\ c.firing
  <2>1. FireWith(opt, c, v) = q
    BY <1>9 DEF FireWith
  <2> HIDE DEF q
  <2> QED
    BY <1>3, <1>5, <1>8, <1>9, <2>1 DEF Keeps, NothingWaits
<1>10. CASE ~c.locked /\ ~c.firing
  <2>1. FireWith(opt, c, v) = Start(opt, q)
    BY <1>10 DEF FireWith
  <2>2a. c.queue = <<>>
    BY <1>10 DEF NothingWaits
  <2>2. q.queue = <<v>>
    BY <1>2, <2>2a
  <2> HIDE DEF q
  <2> QED
    BY <1>3, <1>8, <1>10, <2>1, <2>2, StartKeeps
<1> QED
  BY <1>1, <1>9, <1>10 DEF Shape

(* The methods that call nobody. *)
LEMMA RemoveKeeps ==
  ASSUME NEW f, Shape(c), NothingWaits(c)
  PROVE  Keeps(c, Remove(c, f)) /\ Remove(c, f).memory = c.memory
                                /\ Remove(c, f).locked = c.locked
<1> DEFINE r == Remove(c, f)
<1>1. r.queue = c.queue
  BY DEF Remove, Shape, HasFields
<1>2. r.locked = c.locked
  BY DEF Remove, Shape, HasFields
<1>3. r.memory = c.memory
  BY DEF Remove, Shape, HasFields
<1>4. r.firing = c.firing
  BY DEF Remove, Shape, HasFields
<1>5. HasFields(r)
  BY DEF Remove, Shape, HasFields
<1> HIDE DEF r
<1>6. Keeps(c, r)
  BY <1>1, <1>2, <1>3, <1>4, <1>5 DEF Keeps, Shape, NothingWaits
<1> QED
  BY <1>2, <1>3, <1>6 DEF r

LEMMA EmptyKeeps ==
  ASSUME Shape(c), NothingWaits(c)
  PROVE  Keeps(c, Empty(c)) /\ Empty(c).memory = c.memory
                            /\ Empty(c).locked = c.locked
<1> DEFINE r == Empty(c)
<1>1. r.queue = c.queue
  BY DEF Empty, Shape, HasFields
<1>2. r.locked = c.locked
  BY DEF Empty, Shape, HasFields
<1>3. r.memory = c.memory
  BY DEF Empty, Shape, HasFields
<1>4. r.firing = c.firing
  BY DEF Empty, Shape, HasFields
<1>5. HasFields(r)
  BY DEF Empty, Shape, HasFields
<1> HIDE DEF r
<1>6. Keeps(c, r)
  BY <1>1, <1>2, <1>3, <1>4, <1>5 DEF Keeps, Shape, NothingWaits
<1> QED
  BY <1>2, <1>3, <1>6 DEF r

LEMMA DisableKeeps ==
  ASSUME Shape(c)
  PROVE  Keeps(c, Disable(c)) /\ Disable(c).memory = <<>> /\ Disable(c).locked
<1> DEFINE r == Disable(c)
<1>1. r.queue = <<>>
  BY DEF Disable, Shape, HasFields
<1>2. r.locked
  BY DEF Disable, Shape, HasFields
<1>3. r.memory = <<>>
  BY DEF Disable, Shape, HasFields
<1>4. r.firing = c.firing
  BY DEF Disable, Shape, HasFields
<1>5. HasFields(r)
  BY DEF Disable, Shape, HasFields
<1> HIDE DEF r
<1>6. r.queue \in Seq(Vals) /\ r.locked \in BOOLEAN
  BY <1>1, <1>2
<1>7. Keeps(c, r)
  BY <1>1, <1>2, <1>3, <1>4, <1>5, <1>6 DEF Keeps, Shape, NothingWaits
<1> QED
  BY <1>2, <1>3, <1>7 DEF r

LEMMA LockKeeps ==
  ASSUME Shape(c)
  PROVE  Keeps(c, Lock(c)) /\ Lock(c).memory = c.memory /\ Lock(c).locked
<1> DEFINE r == Lock(c)
<1>1. r.queue = <<>>
  BY DEF Lock, Shape, HasFields
<1>2. r.locked
  BY DEF Lock, Shape, HasFields
<1>3. r.memory = c.memory
  BY DEF Lock, Shape, HasFields
<1>4. r.firing = c.firing
  BY DEF Lock, Shape, HasFields
<1>5. HasFields(r)
  BY DEF Lock, Shape, HasFields
<1> HIDE DEF r
<1>6. r.queue \in Seq(Vals) /\ r.locked \in BOOLEAN
  BY <1>1, <1>2
<1>7. Keeps(c, r)
  BY <1>1, <1>2, <1>3, <1>4, <1>5, <1>6 DEF Keeps, Shape, NothingWaits
<1> QED
  BY <1>2, <1>3, <1>7 DEF r

LEMMA ReturnedKeeps ==
  ASSUME NEW isFalse \in BOOLEAN, Shape(c), NothingWaits(c), c.firing
  PROVE  Keeps(c, Returned(opt, c, isFalse))
<1>1. CASE isFalse /\ "stopOnFalse" \in opt
  <2> DEFINE m == [c EXCEPT !.index = Len(c.list), !.memory = <<>>]
  <2>1. Returned(opt, c, isFalse) = Advance(opt, m)
    BY <1>1 DEF Returned
  <2>2. m.queue = c.queue
    BY DEF Shape, HasFields
  <2>3. m.locked = c.locked
    BY DEF Shape, HasFields
  <2>4. m.memory = <<>>
    BY DEF Shape, HasFields
  <2>5. m.firing
    BY DEF Shape, HasFields
  <2>6. HasFields(m)
    BY DEF Shape, HasFields
  <2> HIDE DEF m
  <2>7. Shape(m)
    BY <2>2, <2>3, <2>4, <2>5, <2>6 DEF Shape
  <2>8. Shape(Advance(opt, m)) /\ Advance(opt, m).locked = c.locked
    BY <2>3, <2>7, AdvanceLemma
  <2>9. ~Advance(opt, m).firing => Advance(opt, m).queue = <<>>
    BY <2>5, <2>7, AdvanceLemma
  <2>10. c.locked => Advance(opt, m).queue = <<>>
                     /\ Advance(opt, m).memory = <<>>
    BY <2>2, <2>4, <2>7, AdvanceLemma DEF NothingWaits
  <2> QED
    BY <2>1, <2>8, <2>9, <2>10 DEF Keeps, NothingWaits
<1>2. CASE ~(isFalse /\ "stopOnFalse" \in opt)
  <2>1. Returned(opt, c, isFalse) = Advance(opt, c)
    BY <1>2 DEF Returned
  <2>2. Shape(Advance(opt, c)) /\ Advance(opt, c).locked = c.locked
    BY AdvanceLemma
  <2>3. ~Advance(opt, c).firing => Advance(opt, c).queue = <<>>
    BY AdvanceLemma
  <2>4. c.locked => Advance(opt, c).queue = <<>>
                    /\ Advance(opt, c).memory \in {c.memory, <<>>}
    BY AdvanceLemma DEF NothingWaits
  <2> QED
    BY <2>1, <2>2, <2>3, <2>4 DEF Keeps, NothingWaits
<1> QED
  BY <1>1, <1>2

(* While the list fires no method ends the firing. *)
LEMMA StillFiring ==
  ASSUME NEW f, NEW v, Shape(c), c.firing
  PROVE  /\ Add(opt, c, f).firing
         /\ FireWith(opt, c, v).firing
         /\ Remove(c, f).firing
         /\ Empty(c).firing
         /\ Disable(c).firing
         /\ Lock(c).firing
<1>1. Add(opt, c, f).firing
  BY DEF Add, Push, Shape, HasFields
<1>2. FireWith(opt, c, v).firing
  BY DEF FireWith, Shape, HasFields
<1>3. Remove(c, f).firing
  BY DEF Remove, Shape, HasFields
<1>4. Empty(c).firing
  BY DEF Empty, Shape, HasFields
<1>5. Disable(c).firing
  BY DEF Disable, Shape, HasFields
<1>6. Lock(c).firing
  BY DEF Lock, Shape, HasFields
<1> QED
  BY <1>1, <1>2, <1>3, <1>4, <1>5, <1>6

(* One case for each action; the same split serves every property. *)
LEMMA NextKeeps ==
  ASSUME IInv, [Next]_vars
  PROVE  Keeps(c, c') /\ (running' # <<>> => c'.firing)
<1>1. CASE UNCHANGED vars
  BY <1>1 DEF vars, IInv, Keeps
<1>2. CASE \E f \in Fns : CallAdd(f)
  <2>1. PICK f \in Fns : CallAdd(f)
    BY <1>2
  <2>2. c' = Add(opt, c, f) /\ Keeps(c, c')
    BY <2>1, AddKeeps DEF CallAdd, Begin, IInv
  <2>3. running' # <<>> => c'.firing
    BY <2>1, <2>2, StillFiring DEF CallAdd, Begin, Enter, IInv
  <2> QED
    BY <2>2, <2>3
<1>3. CASE \E v \in Vals : CallFireWith(v)
  <2>1. PICK v \in Vals : CallFireWith(v)
    BY <1>3
  <2>2. c' = FireWith(opt, c, v) /\ Keeps(c, c')
    BY <2>1, FireWithKeeps DEF CallFireWith, Begin, IInv
  <2>3. running' # <<>> => c'.firing
    BY <2>1, <2>2, StillFiring DEF CallFireWith, Begin, Enter, IInv
  <2> QED
    BY <2>2, <2>3
<1>4. CASE \E f \in Fns : CallRemove(f)
  BY <1>4, RemoveKeeps, StillFiring DEF CallRemove, IInv
<1>5. CASE CallEmpty
  BY <1>5, EmptyKeeps, StillFiring DEF CallEmpty, IInv
<1>6. CASE CallDisable
  BY <1>6, DisableKeeps, StillFiring DEF CallDisable, IInv
<1>7. CASE CallLock
  BY <1>7, LockKeeps, StillFiring DEF CallLock, IInv
<1>8. CASE \E isFalse \in BOOLEAN : Return(isFalse)
  <2>1. PICK isFalse \in BOOLEAN : Return(isFalse)
    BY <1>8
  <2>2. c.firing /\ c' = Returned(opt, c, isFalse)
    BY <2>1 DEF Return, IInv
  <2>3. Keeps(c, c')
    BY <2>2, ReturnedKeeps DEF IInv
  <2> QED
    BY <2>1, <2>3 DEF Return, Enter
<1>9. CASE Throw
  BY <1>9 DEF Throw, IInv, Keeps
<1> QED
  BY <1>1, <1>2, <1>3, <1>4, <1>5, <1>6, <1>7, <1>8, <1>9 DEF Next, Method

LEMMA InvInit == Init => IInv
<1> SUFFICES ASSUME Init PROVE IInv
  OBVIOUS
<1>1. HasFields(c)
  BY DEF Init, Callbacks, HasFields
<1>2. c.queue = <<>> /\ c.memory = <<>> /\ running = <<>>
  BY DEF Init, Callbacks
<1>3. c.firing \in BOOLEAN /\ c.locked \in BOOLEAN
  BY DEF Init, Callbacks
<1>4. c.queue \in Seq(Vals)
  BY <1>2
<1> QED
  BY <1>1, <1>2, <1>3, <1>4 DEF IInv, Shape, NothingWaits

LEMMA InvNext == IInv /\ [Next]_vars => IInv'
  BY NextKeeps DEF IInv, Keeps, Shape, NothingWaits, HasFields

LEMMA Invariant == Spec => []IInv
  BY InvInit, InvNext, PTL DEF Spec

(* A locked list never takes up another value (lines 3257-3300, 3380-3389):
   what was waiting when lock() was called is not fired afterwards. *)
THEOREM LockedListKeepsValue == Spec => LockedKeepsItsValue
<1>1. IInv /\ [Next]_vars
        => [c.locked /\ c.memory # c'.memory => c'.memory = <<>>]_vars
  BY NextKeeps DEF Keeps
<1> QED
  BY <1>1, Invariant, PTL DEF Spec, LockedKeepsItsValue

(* Whoever is entered is called with the value of the list. *)
Entered == \/ got' = got
           \/ \E x : got' = [got EXCEPT ![x] = c'.memory]

LEMMA NextEnters ==
  ASSUME [Next]_vars
  PROVE  Entered
<1>1. CASE \E f \in Fns : CallAdd(f)
  BY <1>1 DEF CallAdd, Begin, Enter, Entered
<1>2. CASE \E v \in Vals : CallFireWith(v)
  BY <1>2 DEF CallFireWith, Begin, Enter, Entered
<1>3. CASE \E isFalse \in BOOLEAN : Return(isFalse)
  BY <1>3 DEF Return, Enter, Entered
<1>4. CASE \E f \in Fns : CallRemove(f)
  BY <1>4 DEF CallRemove, Entered
<1>5. CASE CallEmpty \/ CallDisable \/ CallLock \/ Throw \/ UNCHANGED vars
  BY <1>5 DEF CallEmpty, CallDisable, CallLock, Throw, vars, Entered
<1> QED
  BY <1>1, <1>2, <1>3, <1>4, <1>5 DEF Next, Method

(* A list made with `once' that was never fired is fired by fireWith alone,
   and is locked by it. *)
LEMMA FirstFiring ==
  ASSUME IInv, OInv, [Next]_vars, "once" \in opt, ~c.locked, got' # got \/ c'.memory # <<>> \/ c'.firing
  PROVE  c'.locked
<1>1. ~c.firing /\ c.memory = <<>> /\ running = <<>>
  BY DEF OInv, OneValue, IInv
<1>2. CASE \E f \in Fns : CallAdd(f)
  <2>1. PICK f \in Fns : CallAdd(f)
    BY <1>2
  <2>2. c' = IF c.alive THEN Push(opt, c, f) ELSE c
    BY <1>1, <2>1 DEF CallAdd, Begin, Add
  <2>3. c'.memory = <<>>
    BY <1>1, <2>2, PushLemma DEF IInv
  <2>4. ~c'.firing
    BY <1>1, <2>2 DEF Push, IInv, Shape, HasFields
  <2> QED
    BY <1>1, <2>1, <2>3, <2>4 DEF CallAdd, Begin, Enter
<1>3. CASE \E v \in Vals : CallFireWith(v)
  <2>1. PICK v \in Vals : CallFireWith(v)
    BY <1>3
  <2> QED
    BY <1>1, <2>1, FireWithKeeps DEF CallFireWith, Begin, IInv
<1>4. CASE \E f \in Fns : CallRemove(f)
  <2>1. PICK f \in Fns : CallRemove(f)
    BY <1>4
  <2>2. ~c'.firing
    BY <1>1, <2>1 DEF CallRemove, Remove, IInv, Shape, HasFields
  <2> QED
    BY <1>1, <2>1, <2>2, RemoveKeeps DEF CallRemove, IInv
<1>5. CASE CallEmpty
  <2>1. ~c'.firing
    BY <1>1, <1>5 DEF CallEmpty, Empty, IInv, Shape, HasFields
  <2> QED
    BY <1>1, <1>5, <2>1, EmptyKeeps DEF CallEmpty, IInv
<1>6. CASE CallDisable
  BY <1>6, DisableKeeps DEF CallDisable, IInv
<1>7. CASE CallLock
  BY <1>7, LockKeeps DEF CallLock, IInv
<1>8. CASE UNCHANGED vars
  BY <1>1, <1>8 DEF vars
<1> QED
  BY <1>1, <1>2, <1>3, <1>4, <1>5, <1>6, <1>7, <1>8
     DEF Next, Method, Return, Throw

LEMMA OnceInit == Init => OInv
<1> SUFFICES ASSUME Init PROVE OInv
  OBVIOUS
<1>1. c.memory = <<>> /\ ~c.firing /\ ~c.locked
  BY DEF Init, Callbacks
<1>2. got = [f \in Fns |-> <<>>]
  BY DEF Init
<1> QED
  BY <1>1, <1>2 DEF OInv, OneValue

LEMMA OnceNext == IInv /\ OInv /\ [Next]_vars => OInv'
<1> SUFFICES ASSUME IInv, OInv, [Next]_vars PROVE OInv'
  OBVIOUS
<1>1. Keeps(c, c') /\ Entered
  BY NextKeeps, NextEnters
<1>2. DOMAIN got' = Fns
  BY <1>1 DEF Entered, OInv
<1>3. opt' = opt
  BY DEF Next, Method, Call, CallAdd, CallRemove, CallEmpty, CallDisable,
         CallLock, CallFireWith, Return, Throw, vars
<1>4. CASE "once" \in opt /\ c.locked
  <2>1. c'.locked /\ c'.memory \in {c.memory, <<>>}
    BY <1>1, <1>4 DEF Keeps
  <2> QED
    BY <1>1, <1>2, <1>3, <1>4, <2>1 DEF Entered, OInv, OneValue
<1>5. CASE "once" \in opt /\ ~c.locked
  <2>1. \A a \in Fns : got[a] = <<>>
    BY <1>5 DEF OInv, OneValue
  <2>2. \A a \in Fns : got'[a] \in {<<>>, c'.memory}
    BY <1>1, <2>1 DEF Entered, OInv
  <2>3. CASE c'.locked
    BY <1>2, <1>3, <2>2, <2>3 DEF OInv, OneValue
  <2>4. CASE ~c'.locked
    <3>1. got' = got /\ c'.memory = <<>> /\ ~c'.firing
      BY <1>5, <2>4, FirstFiring
    <3> QED
      BY <1>2, <1>3, <2>1, <3>1 DEF OInv, OneValue
  <2> QED
    BY <2>3, <2>4
<1>6. CASE "once" \notin opt
  BY <1>2, <1>3, <1>6 DEF OInv, OneValue
<1> QED
  BY <1>4, <1>5, <1>6

(* A list made with `once' calls everyone with one value (lines 3224, 3269):
   a settled promise never shows its late listeners another result. *)
THEOREM OnceListOneValue == Spec => []OnceOneValue
<1>1. OInv => OnceOneValue
  BY DEF OInv, OneValue, OnceOneValue
<1> QED
  BY <1>1, OnceInit, OnceNext, Invariant, PTL DEF Spec

-----------------------------------------------------------------------------
(* Induction.  A library theorem with an operator for the induction hypothesis
   cannot be applied here; the least element of a set can, and with it sets of
   numbers and of sequences in place of hypotheses. *)
Less == {ss \in Nat \X Nat : ss[1] < ss[2]}

LEMMA NatMin ==
  ASSUME NEW T, T \subseteq Nat, T # {}
  PROVE \E x \in T : \A y \in T : x <= y
<1>1. OpToRel(<, Nat) = Less
  BY Zenon DEF OpToRel, Less
<1>2. IsWellFoundedOn(Less, Nat)
  BY <1>1, NatLessThanWellFounded, Zenon
<1>3. PICK x \in T : \A y \in T : ~(<<y,x>> \in Less)
  BY <1>2, WFMin, Zenon
<1>4. \A a, b \in Nat : a < b => <<a, b>> \in Less
  <2>. TAKE a, b \in Nat
  <2>. HAVE a < b
  <2>1. <<a, b>> \in Nat \X Nat /\ <<a, b>>[1] < <<a, b>>[2]
    OBVIOUS
  <2>. QED  BY <2>1, Zenon DEF Less
<1>5. \A y \in T : ~(y < x)
  BY <1>3, <1>4
<1>. QED  BY <1>5

LEMMA Induct ==
  ASSUME NEW T, 0 \in T, \A n \in Nat : n \in T => n + 1 \in T
  PROVE  Nat \subseteq T
<1>. SUFFICES ASSUME Nat \ T # {} PROVE FALSE
  OBVIOUS
<1>1. PICK x \in Nat \ T : \A y \in Nat \ T : x <= y
  BY NatMin
<1>2. x # 0 /\ x - 1 \in Nat
  BY <1>1
<1>3. x - 1 \in T
  BY <1>1, <1>2
<1>. QED  BY <1>2, <1>3

(* What g[i] is, for the first n elements: those of the first i but f. *)
IsPrefixWithout(g, s, f, n) ==
  g = [i \in 0 .. n |-> IF i = 0 THEN <<>>
        ELSE IF s[i] = f THEN g[i - 1] ELSE Append(g[i - 1], s[i])]

LEMMA PrefixesExist ==
  ASSUME NEW s, NEW f, NEW n \in Nat
  PROVE  \E g : IsPrefixWithout(g, s, f, n)
<1>. DEFINE T == {m \in Nat : \E g : IsPrefixWithout(g, s, f, m)}
<1>1. 0 \in T
  <2>1. IsPrefixWithout([i \in 0 .. 0 |-> <<>>], s, f, 0)
    BY DEF IsPrefixWithout
  <2>. QED  BY <2>1
<1>2. ASSUME NEW m \in Nat, m \in T PROVE m + 1 \in T
  <2>1. PICK g : IsPrefixWithout(g, s, f, m)
    BY <1>2
  <2>. DEFINE h == [i \in 0 .. m + 1 |-> IF i <= m THEN g[i]
                     ELSE IF s[i] = f THEN g[i - 1] ELSE Append(g[i - 1], s[i])]
  <2>2. \A i \in 0 .. m : g[i] = IF i = 0 THEN <<>>
           ELSE IF s[i] = f THEN g[i - 1] ELSE Append(g[i - 1], s[i])
    BY <2>1 DEF IsPrefixWithout
  <2>3. \A i \in 0 .. m + 1 : h[i] = IF i = 0 THEN <<>>
           ELSE IF s[i] = f THEN h[i - 1] ELSE Append(h[i - 1], s[i])
    BY <2>2
  <2>4. h = [i \in 0 .. m + 1 |-> h[i]]
    OBVIOUS
  <2>. HIDE DEF h
  <2>5. IsPrefixWithout(h, s, f, m + 1)
    BY <2>3, <2>4 DEF IsPrefixWithout
  <2>. QED  BY <2>5
<1>. HIDE DEF T
<1>3. Nat \subseteq T
  BY <1>1, <1>2, Induct
<1>. QED  BY <1>3 DEF T

LEMMA PrefixesAre ==
  ASSUME NEW S, NEW s \in Seq(S), NEW f
  PROVE  IsPrefixWithout(PrefixWithout(s, f), s, f, Len(s))
<1>1. PrefixWithout(s, f) = CHOOSE g : IsPrefixWithout(g, s, f, Len(s))
  BY DEF PrefixWithout, IsPrefixWithout
<1>2. \E g : IsPrefixWithout(g, s, f, Len(s))
  <2>1. Len(s) \in Nat
    OBVIOUS
  <2>. QED  BY <2>1, PrefixesExist
<1>. QED  BY <1>1, <1>2

(* Induction over sequences. *)
LEMMA SeqInduct ==
  ASSUME NEW S, NEW T, <<>> \in T,
         \A s \in Seq(S) : \A x \in S : s \in T => Append(s, x) \in T
  PROVE  Seq(S) \subseteq T
<1>. DEFINE N == {n \in Nat : \A s \in Seq(S) : Len(s) = n => s \in T}
<1>1. 0 \in N
  <2>1. \A s \in Seq(S) : Len(s) = 0 => s = <<>>
    OBVIOUS
  <2>. QED  BY <2>1
<1>2. ASSUME NEW n \in Nat, n \in N PROVE n + 1 \in N
  <2>. SUFFICES ASSUME NEW s \in Seq(S), Len(s) = n + 1 PROVE s \in T
    OBVIOUS
  <2>. DEFINE r == SubSeq(s, 1, n)
  <2>1. r \in Seq(S) /\ Len(r) = n /\ s[n + 1] \in S
    OBVIOUS
  <2>2. s = Append(r, s[n + 1])
    OBVIOUS
  <2>3. r \in T
    BY <1>2, <2>1
  <2>. QED  BY <2>1, <2>2, <2>3
<1>. HIDE DEF N
<1>3. Nat \subseteq N
  BY <1>1, <1>2, Induct
<1>4. \A s \in Seq(S) : Len(s) \in N
  BY <1>3
<1>. QED  BY <1>4 DEF N

(* What remove() leaves of a list, built up from its end. *)
LEMMA WithoutEmpty == ASSUME NEW f PROVE Without(<<>>, f) = <<>>
<1>1. <<>> \in Seq({}) /\ Len(<<>>) = 0
  OBVIOUS
<1>2. IsPrefixWithout(PrefixWithout(<<>>, f), <<>>, f, 0)
  BY <1>1, PrefixesAre
<1>3. PrefixWithout(<<>>, f)[0] = <<>>
  BY <1>2 DEF IsPrefixWithout
<1>. QED  BY <1>1, <1>3 DEF Without

(* What comes after a prefix has no part in what is left of it. *)
LEMMA PrefixesAgree ==
  ASSUME NEW S, NEW s \in Seq(S), NEW x \in S, NEW f, NEW n \in 0 .. Len(s)
  PROVE  PrefixWithout(Append(s, x), f)[n] = PrefixWithout(s, f)[n]
<1>. DEFINE t == Append(s, x)
            T == {m \in Nat : m <= Len(s) => PrefixWithout(t, f)[m] = PrefixWithout(s, f)[m]}
<1>1. t \in Seq(S) /\ Len(t) = Len(s) + 1 /\ \A i \in 1 .. Len(s) : t[i] = s[i]
  OBVIOUS
<1>2. IsPrefixWithout(PrefixWithout(s, f), s, f, Len(s)) /\ IsPrefixWithout(PrefixWithout(t, f), t, f, Len(t))
  BY <1>1, PrefixesAre
<1>. HIDE DEF t
<1>3. 0 \in T
  BY <1>1, <1>2 DEF IsPrefixWithout
<1>4. ASSUME NEW m \in Nat, m \in T PROVE m + 1 \in T
  <2>. SUFFICES ASSUME m + 1 <= Len(s) PROVE PrefixWithout(t, f)[m + 1] = PrefixWithout(s, f)[m + 1]
    OBVIOUS
  <2>1. PrefixWithout(t, f)[m] = PrefixWithout(s, f)[m] /\ t[m + 1] = s[m + 1]
    BY <1>1, <1>4
  <2>2. /\ PrefixWithout(t, f)[m + 1] = IF t[m + 1] = f THEN PrefixWithout(t, f)[m] ELSE Append(PrefixWithout(t, f)[m], t[m + 1])
        /\ PrefixWithout(s, f)[m + 1] = IF s[m + 1] = f THEN PrefixWithout(s, f)[m] ELSE Append(PrefixWithout(s, f)[m], s[m + 1])
    <3>1. m + 1 \in 0 .. Len(s) /\ m + 1 \in 0 .. Len(t) /\ m + 1 # 0 /\ (m + 1) - 1 = m
      BY <1>1
    <3>. QED  BY <1>2, <3>1 DEF IsPrefixWithout
  <2>. QED  BY <2>1, <2>2
<1>. HIDE DEF T
<1>5. n \in T
  BY <1>3, <1>4, Induct
<1>. QED  BY <1>5 DEF T, t

LEMMA WithoutAppend ==
  ASSUME NEW S, NEW s \in Seq(S), NEW x \in S, NEW f
  PROVE  Without(Append(s, x), f) = IF x = f THEN Without(s, f) ELSE Append(Without(s, f), x)
<1>. DEFINE t == Append(s, x)
<1>1. t \in Seq(S) /\ Len(t) = Len(s) + 1 /\ t[Len(s) + 1] = x /\ Len(s) \in Nat
  OBVIOUS
<1>2. IsPrefixWithout(PrefixWithout(t, f), t, f, Len(t))
  BY <1>1, PrefixesAre
<1>3. PrefixWithout(t, f)[Len(s)] = PrefixWithout(s, f)[Len(s)]
  BY <1>1, PrefixesAgree
<1>. HIDE DEF t
<1>4. PrefixWithout(t, f)[Len(t)] = IF x = f THEN PrefixWithout(t, f)[Len(s)] ELSE Append(PrefixWithout(t, f)[Len(s)], x)
  <2>1. Len(t) \in 0 .. Len(t) /\ Len(t) # 0 /\ Len(t) - 1 = Len(s) /\ t[Len(t)] = x
    BY <1>1
  <2>. QED  BY <1>2, <2>1 DEF IsPrefixWithout
<1>. QED  BY <1>3, <1>4 DEF Without, t

LEMMA WithoutSeq ==
  ASSUME NEW S, NEW f
  PROVE  \A s \in Seq(S) : Without(s, f) \in Seq(S)
<1>. DEFINE T == {s \in Seq(S) : Without(s, f) \in Seq(S)}
<1>1. <<>> \in T
  <2>1. <<>> \in Seq(S) /\ DOMAIN <<>> = {}
    OBVIOUS
  <2>2. Without(<<>>, f) = <<>>
    BY WithoutEmpty
  <2>. QED  BY <2>1, <2>2
<1>2. ASSUME NEW s \in Seq(S), NEW x \in S, s \in T PROVE Append(s, x) \in T
  BY <1>2, WithoutAppend
<1>. HIDE DEF T
<1>3. Seq(S) \subseteq T
  BY <1>1, <1>2, SeqInduct
<1>. QED  BY <1>3 DEF T

(* The parts of a list are cleared one by one. *)
LEMMA WithoutConcat ==
  ASSUME NEW S, NEW f, NEW a \in Seq(S)
  PROVE  \A b \in Seq(S) : Without(a \o b, f) = Without(a, f) \o Without(b, f)
<1>. DEFINE T == {b \in Seq(S) : Without(a \o b, f) = Without(a, f) \o Without(b, f)}
<1>0. Without(a, f) \in Seq(S)
  BY WithoutSeq
<1>1. <<>> \in T
  <2>1. a \o <<>> = a /\ <<>> \in Seq(S)
    OBVIOUS
  <2>2. Without(a, f) \o <<>> = Without(a, f)
    BY <1>0
  <2>3. Without(<<>>, f) = <<>>
    BY WithoutEmpty
  <2>. QED  BY <2>1, <2>2, <2>3
<1>2. ASSUME NEW b \in Seq(S), NEW x \in S, b \in T PROVE Append(b, x) \in T
  <2>1. a \o Append(b, x) = Append(a \o b, x) /\ a \o b \in Seq(S)
    OBVIOUS
  <2>2. Without(b, f) \in Seq(S)
    BY WithoutSeq
  <2>3. Without(a, f) \o Append(Without(b, f), x) = Append(Without(a, f) \o Without(b, f), x)
    BY <1>0, <2>2
  <2>4. /\ Without(a \o Append(b, x), f) =
             IF x = f THEN Without(a \o b, f) ELSE Append(Without(a \o b, f), x)
        /\ Without(Append(b, x), f) = IF x = f THEN Without(b, f) ELSE Append(Without(b, f), x)
    <3>. DEFINE d == a \o b
    <3>1. d \in Seq(S) /\ a \o Append(b, x) = Append(d, x)
      BY <2>1
    <3>. HIDE DEF d
    <3>2. Without(Append(d, x), f) = IF x = f THEN Without(d, f) ELSE Append(Without(d, f), x)
      BY <3>1, WithoutAppend
    <3>3. Without(Append(b, x), f) = IF x = f THEN Without(b, f) ELSE Append(Without(b, f), x)
      BY WithoutAppend
    <3>. QED  BY <3>1, <3>2, <3>3 DEF d
  <2>5. Append(b, x) \in Seq(S)
    OBVIOUS
  <2>. QED  BY <1>2, <2>3, <2>4, <2>5
<1>. HIDE DEF T
<1>3. Seq(S) \subseteq T
  BY <1>1, <1>2, SeqInduct
<1>. QED  BY <1>3 DEF T

(* Who is not in the list is not removed, and nobody else comes in. *)
LEMMA WithoutNone ==
  ASSUME NEW S, NEW f
  PROVE  \A s \in Seq(S) : (\A i \in DOMAIN s : s[i] # f) => Without(s, f) = s
<1>. DEFINE T == {s \in Seq(S) : (\A i \in DOMAIN s : s[i] # f) => Without(s, f) = s}
<1>1. <<>> \in T
  <2>1. <<>> \in Seq(S) /\ DOMAIN <<>> = {}
    OBVIOUS
  <2>2. Without(<<>>, f) = <<>>
    BY WithoutEmpty
  <2>. QED  BY <2>1, <2>2
<1>2. ASSUME NEW s \in Seq(S), NEW x \in S, s \in T PROVE Append(s, x) \in T
  <2>1. Append(s, x) \in Seq(S) /\ DOMAIN Append(s, x) = DOMAIN s \cup {Len(s) + 1}
        /\ Append(s, x)[Len(s) + 1] = x /\ \A i \in DOMAIN s : Append(s, x)[i] = s[i]
    OBVIOUS
  <2>2. Without(Append(s, x), f) = IF x = f THEN Without(s, f) ELSE Append(Without(s, f), x)
    BY WithoutAppend
  <2>. QED  BY <1>2, <2>1, <2>2
<1>. HIDE DEF T
<1>3. Seq(S) \subseteq T
  BY <1>1, <1>2, SeqInduct
<1>. QED  BY <1>3 DEF T

LEMMA WithoutFrom ==
  ASSUME NEW S, NEW f
  PROVE  \A s \in Seq(S) : \A i \in DOMAIN Without(s, f) : \E j \in DOMAIN s : s[j] = Without(s, f)[i]
<1>. DEFINE T == {s \in Seq(S) : \A i \in DOMAIN Without(s, f) :
                                   \E j \in DOMAIN s : s[j] = Without(s, f)[i]}
<1>1. <<>> \in T
  <2>1. <<>> \in Seq(S) /\ DOMAIN <<>> = {}
    OBVIOUS
  <2>2. Without(<<>>, f) = <<>>
    BY WithoutEmpty
  <2>. QED  BY <2>1, <2>2
<1>2. ASSUME NEW s \in Seq(S), NEW x \in S, s \in T PROVE Append(s, x) \in T
  <2>. DEFINE t == Append(s, x)
  <2>1. /\ t \in Seq(S) /\ Len(s) + 1 \in DOMAIN t /\ t[Len(s) + 1] = x
        /\ \A j \in DOMAIN s : j \in DOMAIN t /\ t[j] = s[j]
    OBVIOUS
  <2>2. Without(s, f) \in Seq(S)
    BY WithoutSeq
  <2>3. Without(t, f) = IF x = f THEN Without(s, f) ELSE Append(Without(s, f), x)
    BY WithoutAppend
  <2>4. \A i \in DOMAIN Without(t, f) : \/ i \in DOMAIN Without(s, f) /\ Without(t, f)[i] = Without(s, f)[i]
                                        \/ Without(t, f)[i] = x
    BY <2>2, <2>3
  <2>. HIDE DEF t
  <2>5. \A i \in DOMAIN Without(t, f) : \E j \in DOMAIN t : t[j] = Without(t, f)[i]
    BY <1>2, <2>1, <2>4
  <2>. QED  BY <2>1, <2>5 DEF t
<1>. HIDE DEF T
<1>3. Seq(S) \subseteq T
  BY <1>1, <1>2, SeqInduct
<1>. QED  BY <1>3 DEF T

Occurrences(s, f) == {i \in 1 .. Len(s) : s[i] = f}

(* The list is shorter by what was removed: index moves back by as much. *)
LEMMA WithoutLen ==
  ASSUME NEW S, NEW f
  PROVE  \A s \in Seq(S) : /\ Cardinality(Occurrences(s, f)) \in Nat
                           /\ Len(Without(s, f)) = Len(s) - Cardinality(Occurrences(s, f))
<1>. DEFINE T == {s \in Seq(S) : /\ IsFiniteSet(Occurrences(s, f))
                                 /\ Len(Without(s, f)) = Len(s) - Cardinality(Occurrences(s, f))}
<1>1. <<>> \in T
  <2>1. Occurrences(<<>>, f) = {}
    BY DEF Occurrences
  <2>. QED  BY <2>1, FS_EmptySet, WithoutEmpty
<1>2. ASSUME NEW s \in Seq(S), NEW x \in S, s \in T PROVE Append(s, x) \in T
  <2>. DEFINE t == Append(s, x)
  <2>1. t \in Seq(S) /\ Len(t) = Len(s) + 1 /\ t[Len(s) + 1] = x /\ \A i \in 1 .. Len(s) : t[i] = s[i]
    OBVIOUS
  <2>2. Occurrences(t, f) = IF x = f THEN Occurrences(s, f) \cup {Len(s) + 1} ELSE Occurrences(s, f)
    BY <2>1 DEF Occurrences
  <2>3. Len(s) + 1 \notin Occurrences(s, f)
    BY DEF Occurrences
  <2>4. Cardinality(Occurrences(s, f)) \in Nat /\ IsFiniteSet(Occurrences(s, f))
    BY <1>2, FS_CardinalityType
  <2>5. /\ IsFiniteSet(Occurrences(t, f))
        /\ Cardinality(Occurrences(t, f)) = IF x = f THEN Cardinality(Occurrences(s, f)) + 1 ELSE Cardinality(Occurrences(s, f))
    <3>. DEFINE P == Occurrences(s, f)
                z == Len(s) + 1
    <3>1. IsFiniteSet(P) /\ z \notin P
      BY <2>3, <2>4
    <3>. HIDE DEF P, z
    <3>2. IsFiniteSet(P \cup {z}) /\ Cardinality(P \cup {z}) = Cardinality(P) + 1
      BY <3>1, FS_AddElement
    <3>. QED  BY <2>2, <2>4, <3>2 DEF P, z
  <2>6. Without(s, f) \in Seq(S) /\ Without(t, f) = IF x = f THEN Without(s, f) ELSE Append(Without(s, f), x)
    BY WithoutSeq, WithoutAppend
  <2>7. Len(Without(t, f)) = IF x = f THEN Len(Without(s, f)) ELSE Len(Without(s, f)) + 1
    BY <2>6
  <2>8. Len(Without(t, f)) = Len(t) - Cardinality(Occurrences(t, f))
    BY <1>2, <2>1, <2>4, <2>5, <2>7
  <2>. QED  BY <2>1, <2>5, <2>8
<1>. HIDE DEF T
<1>3. Seq(S) \subseteq T
  BY <1>1, <1>2, SeqInduct
<1>. QED  BY <1>3, FS_CardinalityType DEF T
-----------------------------------------------------------------------------
(* The type of a list. *)
ListType ==
  [list : Seq(Fns), alive : BOOLEAN, queue : Seq(Vals),
   memory : {<<>>} \cup {<<v>> : v \in Vals},
   firing : BOOLEAN, fired : BOOLEAN, locked : BOOLEAN, index : Nat]

(* An empty string for a list has no callbacks, and a list at rest stands
   before its first. *)
ListOK(l) ==
  /\ l \in ListType
  /\ ~l.alive => l.list = <<>>
  /\ ~l.firing => l.index = 0

(* All that the pass has come past have the value. *)
Heard(l, g) ==
  l.memory # <<>> => \A i \in DOMAIN l.list : i <= l.index => g[l.list[i]] = l.memory

HeardAll(l, g) ==
  l.memory # <<>> /\ ~l.firing => \A i \in DOMAIN l.list : g[l.list[i]] = l.memory

(* In a pass the rest behind the index is what is owed, and all up to it have
   been called with the value; out of a pass all have that the list holds. *)
PassInv ==
  /\ opt \in Options
  /\ running \in {<<>>} \cup {<<f>> : f \in Fns}
  /\ DOMAIN got = Fns
  /\ ListOK(c)
  /\ ~emptied => HeardAll(c, got)
  /\ running # <<>> /\ ~emptied =>
       /\ c.alive => c.index <= Len(c.list)
       /\ owed = SubSeq(c.list, c.index + 1, Len(c.list))
       /\ Heard(c, got)

(* Putting fields into a list of the type. *)
LEMMA ListUpdate ==
  ASSUME NEW l \in ListType
  PROVE  /\ \A x \in Seq(Fns) : [l EXCEPT !.list = x] \in ListType
         /\ \A x \in Seq(Fns) : \A k \in Nat : [l EXCEPT !.list = x, !.index = k] \in ListType
BY DEF ListType

(* What Advance can lead to: the next callback, a pass for a queued value, or
   the end. *)
LEMMA AdvanceLeads ==
  ASSUME NEW l \in ListType, NEW o, l.firing, ~l.alive => l.list = <<>>
  PROVE  LET r == Advance(o, l) IN
         /\ r \in ListType
         /\ ~r.alive => r.list = <<>>
         /\ \/ /\ l.index < Len(l.list)
               /\ r.firing /\ r.index = l.index + 1
               /\ r.list = l.list /\ r.memory = l.memory
            \/ /\ l.index >= Len(l.list)
               /\ r.firing /\ r.index = 1 /\ r.list = l.list /\ r.list # <<>>
            \/ /\ l.index >= Len(l.list)
               /\ ~r.firing /\ r.index = 0
               /\ r.list = <<>> \/ r.list = l.list
               /\ r.list # <<>> /\ r.memory # <<>> => r.memory = l.memory
<1>. DEFINE r == Advance(o, l)
<1>t. /\ l.list \in Seq(Fns) /\ l.index \in Nat /\ l.queue \in Seq(Vals) /\ Len(l.list) \in Nat
      /\ l.memory \in {<<>>} \cup {<<v>> : v \in Vals}
      /\ l.alive \in BOOLEAN /\ l.locked \in BOOLEAN /\ l.fired \in BOOLEAN
  BY DEF ListType
<1>1. CASE l.index < Len(l.list)
  <2>1. r = [l EXCEPT !.index = @ + 1]
    BY <1>1 DEF Advance
  <2>2. r \in ListType
    BY <1>t, <2>1, SMTT(30) DEF ListType
  <2>3. /\ r.firing /\ r.index = l.index + 1 /\ r.alive = l.alive
        /\ r.list = l.list /\ r.memory = l.memory
    BY <2>1 DEF ListType
  <2>. HIDE DEF r
  <2>. QED  BY <1>1, <2>2, <2>3 DEF r
<1>2. CASE l.index >= Len(l.list) /\ l.queue # <<>> /\ l.list # <<>>
  <2>1. r = [l EXCEPT !.memory = <<Head(l.queue)>>, !.queue = Tail(@), !.index = 1]
    BY <1>t, <1>2 DEF Advance
  <2>2. Head(l.queue) \in Vals /\ Tail(l.queue) \in Seq(Vals)
    BY <1>t, <1>2
  <2>2a. PICK v, q : v = Head(l.queue) /\ q = Tail(l.queue)
    OBVIOUS
  <2>2b. r = [list |-> l.list, alive |-> l.alive, queue |-> q, memory |-> <<v>>,
              firing |-> l.firing, fired |-> l.fired, locked |-> l.locked, index |-> 1]
    BY <2>1, <2>2a DEF ListType
  <2>2c. v \in Vals /\ q \in Seq(Vals) /\ <<v>> \in {<<>>} \cup {<<x>> : x \in Vals}
    BY <2>2, <2>2a
  <2>. HIDE DEF r
  <2>3. r \in ListType
    BY <1>t, <2>2b, <2>2c DEF ListType
  <2>. USE DEF r
  <2>4. r.firing /\ r.index = 1 /\ r.alive = l.alive /\ r.list = l.list
    BY <2>1 DEF ListType
  <2>. HIDE DEF r
  <2>. QED  BY <1>2, <2>3, <2>4 DEF r
<1>3. ASSUME NEW m \in ListType, r = Finish(o, m), m.list = l.list, m.index = 0,
             m.alive = l.alive, m.list = <<>> \/ m.memory = l.memory,
             l.index >= Len(l.list)
      PROVE  /\ r \in ListType
             /\ ~r.alive => r.list = <<>>
             /\ ~r.firing /\ r.index = 0
             /\ r.list = <<>> \/ r.list = l.list
             /\ r.list # <<>> /\ r.memory # <<>> => r.memory = l.memory
  <2>1. PICK k : k = IF "memory" \in o THEN m.memory ELSE <<>>
    OBVIOUS
  <2>2. r = [m EXCEPT !.memory = k, !.firing = FALSE,
                      !.list = IF m.locked THEN <<>> ELSE @,
                      !.alive = IF m.locked THEN k # <<>> ELSE @]
    BY <1>3, <2>1 DEF Finish
  <2>3. /\ m.list \in Seq(Fns) /\ m.index \in Nat /\ m.queue \in Seq(Vals)
        /\ k \in {<<>>} \cup {<<v>> : v \in Vals}
        /\ m.alive \in BOOLEAN /\ m.locked \in BOOLEAN /\ m.fired \in BOOLEAN
        /\ <<>> \in Seq(Fns)
    BY <2>1 DEF ListType
  <2>3a. PICK x, a : /\ x = (IF m.locked THEN <<>> ELSE m.list) /\ x \in Seq(Fns)
                     /\ a = (IF m.locked THEN k # <<>> ELSE m.alive) /\ a \in BOOLEAN
    BY <2>3
  <2>3b. r = [m EXCEPT !.memory = k, !.firing = FALSE, !.list = x, !.alive = a]
    BY <2>2, <2>3a DEF ListType
  <2>3c. r = [list |-> x, alive |-> a, queue |-> m.queue, memory |-> k, firing |-> FALSE,
              fired |-> m.fired, locked |-> m.locked, index |-> m.index]
    BY <2>3b DEF ListType
  <2>. HIDE DEF r
  <2>4. r \in ListType
    BY <2>3, <2>3a, <2>3c DEF ListType
  <2>. USE DEF r
  <2>5. /\ ~r.firing /\ r.index = m.index /\ r.memory = k
        /\ r.list = IF m.locked THEN <<>> ELSE m.list
        /\ r.alive = IF m.locked THEN k # <<>> ELSE m.alive
    BY <2>2 DEF ListType
  <2>. HIDE DEF r
  <2>. QED  BY <1>3, <2>1, <2>4, <2>5
<1>4. CASE l.index >= Len(l.list) /\ l.queue # <<>> /\ l.list = <<>>
  <2>. DEFINE m == [l EXCEPT !.memory = <<l.queue[Len(l.queue)]>>, !.queue = <<>>, !.index = 0]
  <2>1. r = Finish(o, m)
    BY <1>t, <1>4 DEF Advance
  <2>2. PICK v \in Vals : v = l.queue[Len(l.queue)]
    BY <1>t, <1>4
  <2>2a. m = [l EXCEPT !.memory = <<v>>, !.queue = <<>>, !.index = 0] /\ <<>> \in Seq(Vals)
    BY <2>2
  <2>3. m \in ListType
    BY <1>t, <2>2a, ZenonT(60) DEF ListType
  <2>4. m.list = l.list /\ m.index = 0 /\ m.alive = l.alive
    BY DEF ListType
  <2>. HIDE DEF r, m
  <2>5. /\ r \in ListType
        /\ ~r.alive => r.list = <<>>
        /\ ~r.firing /\ r.index = 0
        /\ r.list = <<>> \/ r.list = l.list
        /\ r.list # <<>> /\ r.memory # <<>> => r.memory = l.memory
    BY <1>3, <1>4, <2>1, <2>3, <2>4
  <2>. QED  BY <1>4, <2>5 DEF r
<1>5. CASE l.index >= Len(l.list) /\ l.queue = <<>>
  <2>. DEFINE m == [l EXCEPT !.index = 0]
  <2>1. r = Finish(o, m)
    BY <1>t, <1>5 DEF Advance
  <2>3. m \in ListType
    BY <1>t DEF ListType
  <2>4. m.list = l.list /\ m.index = 0 /\ m.alive = l.alive /\ m.memory = l.memory
    BY DEF ListType
  <2>. HIDE DEF r, m
  <2>5. /\ r \in ListType
        /\ ~r.alive => r.list = <<>>
        /\ ~r.firing /\ r.index = 0
        /\ r.list = <<>> \/ r.list = l.list
        /\ r.list # <<>> /\ r.memory # <<>> => r.memory = l.memory
    BY <1>3, <1>5, <2>1, <2>3, <2>4
  <2>. QED  BY <1>5, <2>5 DEF r
<1>. QED  BY <1>t, <1>1, <1>2, <1>4, <1>5

(* fire() goes on from m, and the callback it comes to is entered. *)
LEMMA GoesOn ==
  ASSUME PassInv, NEW m \in ListType, m.firing, ~m.alive => m.list = <<>>,
         ~emptied => Heard(m, got),
         c' = Advance(opt, m), Enter(c'), UNCHANGED <<opt, emptied>>,
         running' # <<>> /\ ~emptied => owed' = SubSeq(c'.list, c'.index + 1, Len(c'.list))
  PROVE  PassInv'
<1>. DEFINE r == Advance(opt, m)
<1>1. /\ c' = r /\ r \in ListType /\ (~r.alive => r.list = <<>>)
      /\ \/ /\ m.index < Len(m.list)
            /\ r.firing /\ r.index = m.index + 1
            /\ r.list = m.list /\ r.memory = m.memory
         \/ /\ m.index >= Len(m.list)
            /\ r.firing /\ r.index = 1 /\ r.list = m.list /\ r.list # <<>>
         \/ /\ m.index >= Len(m.list)
            /\ ~r.firing /\ r.index = 0
            /\ r.list = <<>> \/ r.list = m.list
            /\ r.list # <<>> /\ r.memory # <<>> => r.memory = m.memory
  BY AdvanceLeads
<1>2. r.list \in Seq(Fns) /\ r.index \in Nat /\ m.index \in Nat /\ m.list \in Seq(Fns)
      /\ r.firing \in BOOLEAN
  BY <1>1 DEF ListType
<1>. HIDE DEF r
<1>3. r.firing => r.index \in 1 .. Len(r.list)
  BY <1>1, <1>2
<1>4. ListOK(c')
  BY <1>1 DEF ListOK
<1>5. CASE r.firing
  <2>. DEFINE f == r.list[r.index]
  <2>1. f \in Fns
    BY <1>2, <1>3, <1>5
  <2>2. running' = <<f>> /\ got' = [got EXCEPT ![f] = r.memory]
    BY <1>1, <1>5 DEF Enter
  <2>3. DOMAIN got' = Fns /\ running' \in {<<>>} \cup {<<g>> : g \in Fns}
    BY <2>1, <2>2 DEF PassInv
  <2>4. got'[f] = r.memory /\ \A g \in Fns : g # f => got'[g] = got[g]
    BY <2>1, <2>2 DEF PassInv
  <2>5. ASSUME ~emptied, r.memory # <<>>, NEW i \in DOMAIN r.list, i <= r.index
        PROVE  got'[r.list[i]] = r.memory
    <3>1. r.list[i] \in Fns
      BY <1>2, <2>5
    <3>2. CASE i = r.index
      BY <2>4, <3>2
    <3>3. CASE i < r.index
      <4>1. m.index < Len(m.list) /\ r.index = m.index + 1 /\ r.list = m.list /\ r.memory = m.memory
        BY <1>1, <1>2, <1>5, <2>5, <3>3
      <4>2. i <= m.index
        BY <1>2, <2>5, <3>3, <4>1
      <4>3. got[r.list[i]] = r.memory
        BY <2>5, <4>1, <4>2 DEF Heard
      <4>. QED  BY <2>4, <3>1, <4>3
    <3>. QED  BY <1>2, <2>5, <3>2, <3>3
  <2>. HIDE DEF f
  <2>6. /\ c'.firing /\ c'.index <= Len(c'.list) /\ (~emptied => Heard(c', got'))
    BY <1>1, <1>2, <1>3, <1>5, <2>5 DEF Heard
  <2>7. ~emptied' => HeardAll(c', got')
    BY <2>6 DEF HeardAll
  <2>. QED  BY <1>4, <2>3, <2>6, <2>7 DEF PassInv
<1>6. CASE ~r.firing
  <2>1. running' = <<>> /\ got' = got
    BY <1>1, <1>6 DEF Enter
  <2>2. ASSUME ~emptied, r.memory # <<>>, NEW i \in DOMAIN r.list PROVE got[r.list[i]] = r.memory
    <3>1. r.list # <<>>
      BY <2>2
    <3>2. r.list = m.list /\ r.memory = m.memory /\ i <= m.index /\ i \in DOMAIN m.list
      BY <1>1, <1>2, <1>6, <2>2, <3>1
    <3>. QED  BY <2>2, <3>2 DEF Heard
  <2>3. ~emptied' => HeardAll(c', got')
    BY <1>1, <2>1, <2>2 DEF HeardAll
  <2>. QED  BY <1>4, <2>1, <2>3 DEF PassInv
<1>. QED  BY <1>2, <1>5, <1>6

(* fire() begins. *)
LEMMA StartGoesOn ==
  ASSUME PassInv, NEW l \in ListType, l.queue # <<>>, ~l.alive => l.list = <<>>,
         ~emptied => \A i \in DOMAIN l.list :
                       i <= l.index => got[l.list[i]] = <<Head(l.queue)>>,
         c' = Start(opt, l), Enter(c'), UNCHANGED <<opt, emptied>>,
         owed' = OwedAfterStart(c')
  PROVE  PassInv'
<1>. DEFINE m == [l EXCEPT !.locked = @ \/ "once" \in opt,
                          !.fired = TRUE, !.firing = TRUE,
                          !.memory = <<Head(l.queue)>>, !.queue = Tail(@)]
<1>1. c' = Advance(opt, m)
  BY DEF Start
<1>2. PICK v, q, k : v = Head(l.queue) /\ q = Tail(l.queue) /\ k = (l.locked \/ "once" \in opt)
  OBVIOUS
<1>3. /\ l.list \in Seq(Fns) /\ l.alive \in BOOLEAN /\ l.index \in Nat
      /\ v \in Vals /\ q \in Seq(Vals) /\ k \in BOOLEAN
      /\ <<v>> \in {<<>>} \cup {<<x>> : x \in Vals}
  <2>1. Head(l.queue) \in Vals /\ Tail(l.queue) \in Seq(Vals)
    BY DEF ListType
  <2>. QED  BY <1>2, <2>1 DEF ListType
<1>4. m = [list |-> l.list, alive |-> l.alive, queue |-> q, memory |-> <<v>>,
           firing |-> TRUE, fired |-> TRUE, locked |-> k, index |-> l.index]
  <2>1. m = [l EXCEPT !.locked = k, !.fired = TRUE, !.firing = TRUE, !.memory = <<v>>, !.queue = q]
    BY <1>2
  <2>. HIDE DEF m
  <2>2. DOMAIN m = {"list", "alive", "queue", "memory", "firing", "fired", "locked", "index"}
    BY <2>1 DEF ListType
  <2>. QED  BY <2>1, <2>2 DEF ListType
<1>. HIDE DEF m
<1>5. m \in ListType
  BY <1>3, <1>4 DEF ListType
<1>6. /\ m.firing /\ m.list = l.list /\ m.alive = l.alive /\ m.index = l.index
      /\ m.memory = <<Head(l.queue)>>
  BY <1>2, <1>4
<1>7. ~emptied => Heard(m, got)
  BY <1>6 DEF Heard
<1>8. running' # <<>> => owed' = SubSeq(c'.list, c'.index + 1, Len(c'.list))
  BY DEF Enter, OwedAfterStart
<1>. QED  BY <1>1, <1>5, <1>6, <1>7, <1>8, GoesOn

LEMMA AppendRest ==
  ASSUME NEW S, NEW s \in Seq(S), NEW x \in S, NEW k \in Nat, k <= Len(s)
  PROVE  SubSeq(Append(s, x), k + 1, Len(s) + 1) = Append(SubSeq(s, k + 1, Len(s)), x)
<1>. DEFINE a == SubSeq(Append(s, x), k + 1, Len(s) + 1)
            b == Append(SubSeq(s, k + 1, Len(s)), x)
<1>1. a \in Seq(S) /\ b \in Seq(S)
  OBVIOUS
<1>2. Len(a) = Len(s) - k + 1 /\ Len(b) = Len(s) - k + 1
  OBVIOUS
<1>3. \A i \in 1 .. Len(a) : a[i] = b[i]
  BY <1>2
<1>. HIDE DEF a, b
<1>4. a = b
  BY <1>1, <1>2, <1>3, SeqEqual
<1>. QED  BY <1>4 DEF a, b

LEMMA SplitAt ==
  ASSUME NEW S, NEW s \in Seq(S), NEW k \in Nat, k <= Len(s)
  PROVE  /\ SubSeq(s, 1, k) \in Seq(S) /\ SubSeq(s, k + 1, Len(s)) \in Seq(S)
         /\ Len(SubSeq(s, 1, k)) = k
         /\ s = SubSeq(s, 1, k) \o SubSeq(s, k + 1, Len(s))
<1>. DEFINE a == SubSeq(s, 1, k)
            b == SubSeq(s, k + 1, Len(s))
<1>1. a \in Seq(S) /\ b \in Seq(S) /\ Len(a) = k /\ Len(b) = Len(s) - k
  OBVIOUS
<1>2. 1 \in 1 .. Len(s) + 1 /\ k \in 1 - 1 .. Len(s) /\ Len(s) \in k .. Len(s)
  OBVIOUS
<1>3. a \o b = SubSeq(s, 1, Len(s))
  BY <1>2, ConcatAdjacentSubSeq
<1>. QED  BY <1>1, <1>3, SubSeqFull

(* Sequences cut where the first part ends. *)
LEMMA RestOfConcat ==
  ASSUME NEW S, NEW a \in Seq(S), NEW b \in Seq(S)
  PROVE  SubSeq(a \o b, Len(a) + 1, Len(a \o b)) = b
<1>. DEFINE d == SubSeq(a \o b, Len(a) + 1, Len(a \o b))
<1>1. d \in Seq(S) /\ Len(d) = Len(b)
  OBVIOUS
<1>2. \A i \in 1 .. Len(d) : d[i] = b[i]
  BY <1>1
<1>. HIDE DEF d
<1>3. d = b
  BY <1>1, <1>2, SeqEqual
<1>. QED  BY <1>3 DEF d

(* Removing splits a list as it was split: the index moves back by what goes
   before it, and what is left behind it is what was left without f. *)
CutsAt(s, f, k, n) ==
  /\ n \in Nat /\ n <= Len(Without(s, f))
  /\ SubSeq(Without(s, f), n + 1, Len(Without(s, f))) = Without(SubSeq(s, k + 1, Len(s)), f)
  /\ \A i \in DOMAIN Without(s, f) : i <= n =>
       \E j \in DOMAIN s : j <= k /\ s[j] = Without(s, f)[i]

LEMMA WithoutSplits ==
  ASSUME NEW S, NEW f, NEW s \in Seq(S), NEW k \in Nat, k <= Len(s),
         NEW n, n = k - Cardinality({i \in DOMAIN s : s[i] = f} \cap 1 .. k)
  PROVE  CutsAt(s, f, k, n)
<1>. DEFINE a == SubSeq(s, 1, k)
            b == SubSeq(s, k + 1, Len(s))
<1>1. a \in Seq(S) /\ b \in Seq(S) /\ Len(a) = k /\ s = a \o b
  BY SplitAt
<1>1a. \A j \in 1 .. k : a[j] = s[j] /\ j \in DOMAIN s
  OBVIOUS
<1>2. {i \in DOMAIN s : s[i] = f} \cap 1 .. k = Occurrences(a, f)
  BY <1>1, <1>1a DEF Occurrences
<1>. HIDE DEF a, b
<1>3. /\ Without(a, f) \in Seq(S) /\ Without(b, f) \in Seq(S)
      /\ Without(s, f) = Without(a, f) \o Without(b, f)
  BY <1>1, WithoutSeq, WithoutConcat, ZenonT(60)
<1>4. n = Len(Without(a, f))
  BY <1>1, <1>2, WithoutLen, ZenonT(60)
<1>5. n \in Nat /\ n <= Len(Without(s, f))
  BY <1>3, <1>4
<1>6. SubSeq(Without(s, f), n + 1, Len(Without(s, f))) = Without(b, f)
  BY <1>3, <1>4, RestOfConcat
<1>7. ASSUME NEW i \in DOMAIN Without(s, f), i <= n
      PROVE  \E j \in DOMAIN s : j <= k /\ s[j] = Without(s, f)[i]
  <2>1. i \in DOMAIN Without(a, f) /\ Without(s, f)[i] = Without(a, f)[i]
    BY <1>3, <1>4, <1>7
  <2>2. PICK j \in DOMAIN a : a[j] = Without(a, f)[i]
    BY <1>1, <2>1, WithoutFrom
  <2>3. j \in 1 .. k
    BY <1>1
  <2>. QED  BY <1>1a, <2>1, <2>2, <2>3
<1>. QED  BY <1>5, <1>6, <1>7 DEF b, CutsAt

(* The fields of a list that is in order. *)
LEMMA FieldsOK ==
  ASSUME ListOK(c)
  PROVE  /\ c.list \in Seq(Fns) /\ c.index \in Nat /\ Len(c.list) \in Nat
         /\ c.queue \in Seq(Vals)
         /\ c.memory \in {<<>>} \cup {<<v>> : v \in Vals}
         /\ c.alive \in BOOLEAN /\ c.firing \in BOOLEAN /\ c.locked \in BOOLEAN
         /\ c.fired \in BOOLEAN
BY DEF ListOK, ListType

(* Nothing comes of a call. *)
LEMMA PassKept ==
  ASSUME PassInv, c' = c, UNCHANGED <<opt, got, emptied>>,
         (running' = running /\ owed' = owed) \/ running' = <<>>
  PROVE  PassInv'
BY DEF PassInv, HeardAll, Heard

LEMMA PassAdd ==
  ASSUME PassInv, IInv, NEW f \in Fns, CallAdd(f)
  PROVE  PassInv'
<1>t. /\ c.list \in Seq(Fns) /\ c.index \in Nat /\ Len(c.list) \in Nat /\ c.queue \in Seq(Vals)
      /\ ListOK(c) /\ c \in ListType
  BY FieldsOK DEF PassInv, ListOK
<1>0. UNCHANGED <<opt, emptied>> /\ c' = Add(opt, c, f)
  BY DEF CallAdd, Call, Begin
<1>1. CASE Add(opt, c, f) = c
  <2>1. c.firing => UNCHANGED <<running, got, owed>>
    BY <1>0, <1>1 DEF CallAdd, Begin
  <2>2. ~c.firing => running' = <<>> /\ got' = got
    BY <1>0, <1>1 DEF CallAdd, Begin, Enter
  <2>. QED  BY <1>0, <1>1, <2>1, <2>2, PassKept
<1>2. CASE /\ c.alive /\ ~(c.memory # <<>> /\ ~c.firing) /\ Add(opt, c, f) # c
  <2>1. c' = [c EXCEPT !.list = Append(@, f)]
    BY <1>0, <1>2 DEF Add, Push
  <2>2. Append(c.list, f) \in Seq(Fns) /\ Append(c.list, f) # c.list
    BY <1>t
  <2>3. /\ c'.list = Append(c.list, f) /\ c'.index = c.index /\ c'.memory = c.memory
        /\ c'.firing = c.firing /\ c'.alive = c.alive /\ c' \in ListType
    BY <1>t, <2>1, <2>2, ListUpdate DEF ListType
  <2>4. ListOK(c')
    BY <1>t, <1>2, <2>3 DEF ListOK
  <2>5. CASE c.firing
    <3>1. UNCHANGED <<running, got>> /\ owed' = Append(owed, f)
      BY <2>2, <2>3, <2>5 DEF CallAdd, Begin
    <3>2. ASSUME running # <<>>, ~emptied
          PROVE  /\ c'.index <= Len(c'.list)
                 /\ owed' = SubSeq(c'.list, c'.index + 1, Len(c'.list))
                 /\ Heard(c', got)
      <4>1. c.index <= Len(c.list) /\ owed = SubSeq(c.list, c.index + 1, Len(c.list))
            /\ Heard(c, got)
        BY <1>2, <3>2 DEF PassInv
      <4>2. Len(c'.list) = Len(c.list) + 1 /\ \A i \in DOMAIN c.list : c'.list[i] = c.list[i]
        BY <1>t, <2>3
      <4>3. owed' = SubSeq(c'.list, c'.index + 1, Len(c'.list))
        BY <1>t, <2>3, <3>1, <4>1, <4>2, AppendRest
      <4>4. \A i \in DOMAIN c'.list : i <= c'.index => i \in DOMAIN c.list
        BY <1>t, <2>3, <4>1
      <4>. QED  BY <1>t, <2>3, <4>1, <4>2, <4>3, <4>4 DEF Heard
    <3>. QED  BY <1>0, <2>3, <2>4, <2>5, <3>1, <3>2 DEF PassInv, HeardAll
  <2>6. CASE ~c.firing
    <3>1. running' = <<>> /\ got' = got
      BY <2>3, <2>6 DEF CallAdd, Begin, Enter
    <3>. QED  BY <1>0, <1>2, <2>3, <2>4, <2>6, <3>1 DEF PassInv, HeardAll
  <2>. QED  BY <2>5, <2>6
<1>3. CASE c.alive /\ c.memory # <<>> /\ ~c.firing
  <2>1. PICK v \in Vals : c.memory = <<v>>
    BY <1>3 DEF IInv, Shape
  <2>2. c.queue = <<>>
    BY <1>3 DEF IInv, NothingWaits
  <2>. DEFINE a == [c EXCEPT !.index = Len(c.list), !.queue = Append(@, c.memory[1])]
  <2>3. a = [c EXCEPT !.index = Len(c.list), !.queue = <<v>>] /\ <<v>> \in Seq(Vals)
    BY <2>1, <2>2
  <2>4. c' = Start(opt, Push(opt, a, f))
    BY <1>0, <1>3 DEF Add
  <2>. HIDE DEF a
  <2>5. a \in ListType /\ a.list = c.list /\ a.alive = c.alive /\ a.index = Len(c.list) /\ a.queue = <<v>>
    BY <1>t, <2>3 DEF ListType
  <2>. DEFINE p == Push(opt, a, f)
  <2>6. p = a \/ p = [a EXCEPT !.list = Append(c.list, f)]
    BY <2>5 DEF Push
  <2>6a. c' = Start(opt, p)
    BY <2>4
  <2>. HIDE DEF p
  <2>7. /\ p \in ListType /\ p.alive /\ p.index = Len(c.list) /\ p.queue = <<v>>
        /\ \/ p.list = c.list \/ p.list = Append(c.list, f)
    <3>1. Append(c.list, f) \in Seq(Fns)
      BY <1>t
    <3>2. CASE p = a
      BY <1>3, <2>5, <3>2
    <3>3. CASE p = [a EXCEPT !.list = Append(c.list, f)]
      <4>1. p \in ListType
        BY <2>5, <3>1, <3>3, ListUpdate
      <4>. QED  BY <1>3, <2>5, <3>3, <4>1 DEF ListType
    <3>. QED  BY <2>6, <3>2, <3>3
  <2>8. ASSUME ~emptied, NEW i \in DOMAIN p.list, i <= p.index
        PROVE  got[p.list[i]] = <<Head(p.queue)>>
    <3>1. i \in DOMAIN c.list /\ p.list[i] = c.list[i]
      BY <1>t, <2>7, <2>8
    <3>2. got[c.list[i]] = c.memory
      BY <1>3, <2>8, <3>1 DEF PassInv, HeardAll
    <3>. QED  BY <2>1, <2>7, <3>1, <3>2
  <2>9. Enter(c') /\ owed' = OwedAfterStart(c')
    BY <1>0, <1>3 DEF CallAdd, Begin
  <2>10. p.queue # <<>>
    BY <2>7
  <2>. QED  BY <1>0, <2>6a, <2>7, <2>8, <2>9, <2>10, StartGoesOn
<1>4. Add(opt, c, f) = c \/ c.alive
  BY DEF Add
<1>. QED  BY <1>1, <1>2, <1>3, <1>4

LEMMA CountUpTo ==
  ASSUME NEW X, NEW k \in Nat
  PROVE  k - Cardinality(X \cap 1 .. k) \in 0 .. k
<1>1. IsFiniteSet(1 .. k) /\ Cardinality(1 .. k) = k
  BY FS_Interval
<1>2. Cardinality(X \cap 1 .. k) <= k /\ IsFiniteSet(X \cap 1 .. k)
  BY <1>1, FS_Subset
<1>3. Cardinality(X \cap 1 .. k) \in Nat
  BY <1>2, FS_CardinalityType
<1>. QED  BY <1>2, <1>3

LEMMA PassRemove ==
  ASSUME PassInv, NEW f \in Fns, CallRemove(f)
  PROVE  PassInv'
<1>t. /\ c.list \in Seq(Fns) /\ c.index \in Nat /\ Len(c.list) \in Nat /\ c.firing \in BOOLEAN
      /\ ListOK(c) /\ c \in ListType
  BY FieldsOK DEF PassInv, ListOK
<1>0. UNCHANGED <<opt, emptied, running, got>> /\ c' = Remove(c, f) /\ owed' = Without(owed, f)
  BY DEF CallRemove, Call
<1>. DEFINE n == c.index - Cardinality({i \in DOMAIN c.list : c.list[i] = f} \cap 1 .. c.index)
<1>1. CASE ~Has(c, f)
  <2>1. c' = c
    BY <1>0, <1>1 DEF Remove
  <2>2. \A i \in DOMAIN c.list : c.list[i] # f
    BY <1>1 DEF Has, Places
  <2>3. ASSUME running # <<>>, ~emptied PROVE owed' = owed
    <3>1. owed = SubSeq(c.list, c.index + 1, Len(c.list))
      BY <2>3 DEF PassInv
    <3>2. owed \in Seq(Fns) /\ \A i \in DOMAIN owed : owed[i] # f
      BY <1>t, <2>2, <3>1, SMTT(30)
    <3>. QED  BY <1>0, <3>2, WithoutNone
  <2>. QED  BY <1>0, <2>1, <2>3 DEF PassInv, HeardAll, Heard
<1>2. CASE Has(c, f)
  <2>0. c.alive /\ c.list # <<>>
    BY <1>t, <1>2 DEF Has, Places, ListOK
  <2>1. c' = [c EXCEPT !.list = Without(c.list, f), !.index = n]
    BY <1>0, <1>2 DEF Remove, Places
  <2>2. Without(c.list, f) \in Seq(Fns)
    BY <1>t, WithoutSeq
  <2>3. \A i \in DOMAIN Without(c.list, f) : \E j \in DOMAIN c.list : c.list[j] = Without(c.list, f)[i]
    BY <1>t, WithoutFrom
  <2>4. c.index <= Len(c.list) =>
          /\ n \in Nat /\ n <= Len(Without(c.list, f))
          /\ SubSeq(Without(c.list, f), n + 1, Len(Without(c.list, f))) =
               Without(SubSeq(c.list, c.index + 1, Len(c.list)), f)
          /\ \A i \in DOMAIN Without(c.list, f) : i <= n =>
               \E j \in DOMAIN c.list : j <= c.index /\ c.list[j] = Without(c.list, f)[i]
    <3>1. n = c.index - Cardinality({i \in DOMAIN c.list : c.list[i] = f} \cap 1 .. c.index)
      OBVIOUS
    <3>. HIDE DEF n
    <3>2. c.index <= Len(c.list) => CutsAt(c.list, f, c.index, n)
      BY <1>t, <3>1, WithoutSplits
    <3>. QED  BY <3>2 DEF CutsAt
  <2>5. n \in 0 .. c.index
    BY <1>t, CountUpTo
  <2>. HIDE DEF n
  <2>6. /\ c'.list = Without(c.list, f) /\ c'.index = n /\ c'.memory = c.memory
        /\ c'.firing = c.firing /\ c'.alive = c.alive
    BY <2>1, <1>t DEF ListType
  <2>7. c' \in ListType
    <3>1. n \in Nat
      BY <1>t, <2>5
    <3>. QED  BY <1>t, <2>1, <2>2, <3>1, ListUpdate
  <2>8. ListOK(c')
    BY <1>t, <2>0, <2>5, <2>6, <2>7 DEF ListOK
  <2>9. ASSUME running # <<>>, ~emptied
        PROVE  /\ c'.index <= Len(c'.list)
               /\ owed' = SubSeq(c'.list, c'.index + 1, Len(c'.list))
               /\ Heard(c', got)
    <3>1. c.index <= Len(c.list) /\ owed = SubSeq(c.list, c.index + 1, Len(c.list)) /\ Heard(c, got)
      BY <2>0, <2>9 DEF PassInv
    <3>2. /\ c'.index <= Len(c'.list)
          /\ owed' = SubSeq(c'.list, c'.index + 1, Len(c'.list))
      BY <1>0, <2>4, <2>6, <3>1
    <3>3. ASSUME c.memory # <<>>, NEW i \in DOMAIN c'.list, i <= c'.index
          PROVE  got[c'.list[i]] = c.memory
      <4>1. PICK j \in DOMAIN c.list : j <= c.index /\ c.list[j] = c'.list[i]
        BY <2>4, <2>6, <3>1, <3>3
      <4>. QED  BY <3>1, <3>3, <4>1 DEF Heard
    <3>. QED  BY <2>6, <3>2, <3>3 DEF Heard
  <2>10. ~emptied => HeardAll(c', got)
    BY <2>3, <2>6 DEF PassInv, HeardAll
  <2>. QED  BY <1>0, <2>8, <2>9, <2>10 DEF PassInv
<1>. QED  BY <1>1, <1>2

LEMMA PassEmpty == ASSUME PassInv, IInv, CallEmpty PROVE PassInv'
<1>t. /\ ListOK(c) /\ c \in ListType /\ c.firing \in BOOLEAN /\ c.index \in Nat /\ <<>> \in Seq(Fns)
  BY FieldsOK DEF PassInv, ListOK
<1>0. /\ UNCHANGED <<opt, running, got>> /\ owed' = <<>> /\ emptied' = (emptied \/ c.firing)
      /\ c' = IF c.alive THEN [c EXCEPT !.list = <<>>] ELSE c
  BY DEF CallEmpty, Call, Empty
<1>1. /\ c'.list = <<>> /\ c'.index = c.index /\ c'.memory = c.memory
      /\ c'.firing = c.firing /\ c'.alive = c.alive /\ c' \in ListType
  BY <1>t, <1>0, ListUpdate DEF ListType, ListOK
<1>2. ListOK(c')
  BY <1>t, <1>1 DEF ListOK
<1>3. HeardAll(c', got)
  BY <1>1 DEF HeardAll
<1>4. running # <<>> => emptied'
  BY <1>0 DEF IInv
<1>. QED  BY <1>t, <1>0, <1>1, <1>2, <1>3, <1>4 DEF PassInv, Heard

LEMMA PassDisable == ASSUME PassInv, IInv, CallDisable PROVE PassInv'
<1>t. ListOK(c) /\ c \in ListType /\ c.index \in Nat
  BY FieldsOK DEF PassInv, ListOK
<1>0. /\ UNCHANGED <<opt, running, got, emptied>> /\ owed' = <<>>
      /\ c' = [c EXCEPT !.locked = TRUE, !.queue = <<>>,
                        !.list = <<>>, !.alive = FALSE, !.memory = <<>>]
  BY DEF CallDisable, Call, Disable
<1>1. /\ c'.list = <<>> /\ c'.index = c.index /\ c'.memory = <<>>
      /\ c'.firing = c.firing /\ ~c'.alive
  BY <1>t, <1>0 DEF ListType
<1>2. c' \in ListType
  <2>1. <<>> \in Seq(Fns) /\ <<>> \in Seq(Vals)
    OBVIOUS
  <2>. QED  BY <1>t, <1>0, <2>1 DEF ListType
<1>3. ListOK(c')
  BY <1>t, <1>1, <1>2 DEF ListOK
<1>4. owed' = SubSeq(c'.list, c'.index + 1, Len(c'.list))
  <2>1. Len(<<>>) = 0
    OBVIOUS
  <2>2. SubSeq(<<>>, c.index + 1, 0) = <<>>
    BY <1>t, SubSeqEmpty
  <2>. QED  BY <1>0, <1>1, <2>1, <2>2
<1>. QED  BY <1>0, <1>1, <1>3, <1>4 DEF PassInv, Heard, HeardAll

LEMMA PassLock == ASSUME PassInv, IInv, CallLock PROVE PassInv'
<1>t. ListOK(c) /\ c \in ListType /\ c.index \in Nat /\ <<>> \in Seq(Fns) /\ <<>> \in Seq(Vals)
  BY FieldsOK DEF PassInv, ListOK
<1>0. UNCHANGED <<opt, running, got, owed, emptied>> /\ c' = Lock(c)
  BY DEF CallLock, Call
<1>1. CASE c.memory = <<>> /\ ~c.firing
  <2>1. c' = [c EXCEPT !.locked = TRUE, !.queue = <<>>, !.list = <<>>, !.alive = FALSE]
    BY <1>0, <1>1 DEF Lock
  <2>2. c'.list = <<>> /\ c'.memory = <<>> /\ ~c'.firing /\ c'.index = c.index
    BY <1>t, <1>1, <2>1 DEF ListType
  <2>3. c' \in ListType
    BY <1>t, <2>1 DEF ListType
  <2>4. ListOK(c')
    BY <1>t, <1>1, <2>2, <2>3 DEF ListOK
  <2>5. running = <<>>
    BY <1>1 DEF IInv
  <2>. QED  BY <1>0, <2>2, <2>4, <2>5 DEF PassInv, HeardAll
<1>2. CASE ~(c.memory = <<>> /\ ~c.firing)
  <2>1. c' = [c EXCEPT !.locked = TRUE, !.queue = <<>>]
    BY <1>0, <1>2 DEF Lock
  <2>2. /\ c'.list = c.list /\ c'.memory = c.memory /\ c'.firing = c.firing
        /\ c'.index = c.index /\ c'.alive = c.alive
    BY <1>t, <2>1 DEF ListType
  <2>3. c' \in ListType
    BY <1>t, <2>1 DEF ListType
  <2>. QED  BY <1>0, <2>2, <2>3 DEF PassInv, ListOK, HeardAll, Heard
<1>. QED  BY <1>1, <1>2

LEMMA PassFireWith == ASSUME PassInv, IInv, NEW v \in Vals, CallFireWith(v) PROVE PassInv'
<1>t. /\ ListOK(c) /\ c \in ListType /\ c.index \in Nat /\ c.queue \in Seq(Vals)
      /\ c.firing \in BOOLEAN
  BY FieldsOK DEF PassInv, ListOK
<1>0. /\ UNCHANGED <<opt, emptied>> /\ c' = FireWith(opt, c, v)
      /\ c.firing => UNCHANGED <<running, got, owed>>
      /\ ~c.firing => Enter(c') /\ owed' = OwedAfterStart(c')
  BY DEF CallFireWith, Call, Begin
<1>1. CASE c.locked
  <2>1. c' = c
    BY <1>0, <1>1 DEF FireWith
  <2>2. ~c.firing => running' = <<>> /\ got' = got
    BY <1>0, <2>1 DEF Enter
  <2>. QED  BY <1>0, <2>1, <2>2, PassKept
<1>. DEFINE q == [c EXCEPT !.queue = Append(@, v)]
<1>2. q \in ListType /\ q.queue = Append(c.queue, v)
  <2>0. Append(c.queue, v) \in Seq(Vals)
    BY <1>t
  <2>1. PICK w : w = Append(c.queue, v) /\ w \in Seq(Vals)
    BY <2>0
  <2>2. q = [c EXCEPT !.queue = w]
    BY <2>1
  <2>. HIDE DEF q
  <2>. QED  BY <1>t, <2>1, <2>2 DEF ListType
<1>3. /\ q.list = c.list /\ q.memory = c.memory /\ q.firing = c.firing
      /\ q.index = c.index /\ q.alive = c.alive
  BY <1>t DEF ListType
<1>4. CASE ~c.locked /\ c.firing
  <2>1. c' = q
    BY <1>0, <1>4 DEF FireWith
  <2>. HIDE DEF q
  <2>. QED  BY <1>0, <1>2, <1>3, <1>4, <2>1 DEF PassInv, ListOK, HeardAll, Heard
<1>5. CASE ~c.locked /\ ~c.firing
  <2>1. c' = Start(opt, q)
    BY <1>0, <1>5 DEF FireWith
  <2>. HIDE DEF q
  <2>2. q.queue # <<>> /\ (~q.alive => q.list = <<>>) /\ q.index = 0
    BY <1>t, <1>2, <1>3, <1>5 DEF ListOK
  <2>3. \A i \in DOMAIN q.list : ~(i <= q.index)
    BY <1>2, <2>2 DEF ListType
  <2>. QED  BY <1>0, <1>2, <1>5, <2>1, <2>2, <2>3, StartGoesOn
<1>. QED  BY <1>1, <1>4, <1>5

LEMMA PassReturn ==
  ASSUME PassInv, IInv, NEW isFalse \in BOOLEAN, Return(isFalse)
  PROVE  PassInv'
<1>t. /\ c.list \in Seq(Fns) /\ c.index \in Nat /\ Len(c.list) \in Nat
      /\ ListOK(c) /\ c \in ListType /\ (~c.alive => c.list = <<>>)
  BY FieldsOK DEF PassInv, ListOK
<1>0. /\ UNCHANGED <<opt, emptied>> /\ c' = Returned(opt, c, isFalse) /\ Enter(c')
      /\ running # <<>> /\ c.firing
  BY DEF Return, IInv
<1>1. CASE isFalse /\ "stopOnFalse" \in opt
  <2>. DEFINE m == [c EXCEPT !.index = Len(c.list), !.memory = <<>>]
  <2>1. c' = Advance(opt, m) /\ owed' = OwedAfterStart(c')
    BY <1>0, <1>1 DEF Returned, Return
  <2>2. m \in ListType /\ m.firing /\ m.alive = c.alive /\ m.list = c.list /\ m.memory = <<>>
    BY <1>t, <1>0 DEF ListType
  <2>3. running' # <<>> => owed' = SubSeq(c'.list, c'.index + 1, Len(c'.list))
    BY <1>0, <2>1 DEF Enter, OwedAfterStart
  <2>. HIDE DEF m
  <2>4. Heard(m, got)
    BY <2>2 DEF Heard
  <2>. QED  BY <1>t, <1>0, <2>1, <2>2, <2>3, <2>4, GoesOn
<1>2. CASE ~(isFalse /\ "stopOnFalse" \in opt)
  <2>1. c' = Advance(opt, c)
    BY <1>0, <1>2 DEF Returned
  <2>2. ~emptied => Heard(c, got)
    BY <1>0 DEF PassInv
  <2>3. ASSUME running' # <<>>, ~emptied
        PROVE  owed' = SubSeq(c'.list, c'.index + 1, Len(c'.list))
    <3>1. CASE owed = <<>>
      BY <1>0, <2>3, <3>1 DEF Return, Enter, OwedAfterStart
    <3>2. CASE owed # <<>>
      <4>1. owed' = Tail(owed) /\ owed = SubSeq(c.list, c.index + 1, Len(c.list))
        BY <1>0, <1>2, <2>3, <3>2 DEF Return, PassInv
      <4>2. c.index < Len(c.list)
        BY <1>t, <3>2, <4>1, SubSeqEmpty
      <4>3. c'.list = c.list /\ c'.index = c.index + 1
        BY <1>t, <2>1, <4>2 DEF Advance, ListType
      <4>4. c.index + 1 \in 1 .. Len(c.list) /\ Len(c.list) \in (c.index + 1) .. Len(c.list)
        BY <1>t, <4>2
      <4>5. Tail(SubSeq(c.list, c.index + 1, Len(c.list))) = SubSeq(c.list, c.index + 1 + 1, Len(c.list))
        BY <1>t, <4>4, HeadTailOfSubSeq
      <4>. QED  BY <4>1, <4>3, <4>5
    <3>. QED  BY <3>1, <3>2
  <2>. QED  BY <1>t, <1>0, <2>1, <2>2, <2>3, GoesOn
<1>. QED  BY <1>1, <1>2

LEMMA PassInit == Init => PassInv
<1>. SUFFICES ASSUME Init PROVE PassInv
  OBVIOUS
<1>1. <<>> \in Seq(Fns) /\ <<>> \in Seq(Vals)
  OBVIOUS
<1>2. /\ c \in ListType /\ c.list = <<>> /\ c.index = 0 /\ c.memory = <<>> /\ running = <<>>
      /\ opt \in Options /\ DOMAIN got = Fns
  BY <1>1 DEF Init, Callbacks, ListType
<1>. QED  BY <1>2 DEF PassInv, ListOK, HeardAll

LEMMA PassNext == IInv /\ PassInv /\ [Next]_vars => PassInv'
<1>. SUFFICES ASSUME IInv, PassInv, [Next]_vars PROVE PassInv'
  OBVIOUS
<1>1. CASE Throw
  BY <1>1 DEF Throw, PassInv, ListOK, HeardAll
<1>2. CASE UNCHANGED vars
  BY <1>2, PassKept DEF vars
<1>. QED  BY <1>1, <1>2, PassAdd, PassRemove, PassEmpty, PassDisable, PassLock, PassFireWith,
             PassReturn DEF Next, Method

(* Whatever the callbacks of a pass add or remove, what is left of the list
   behind firingIndex is what the pass still owes (lines 3284-3301, 3356-3370):
   none is skipped and none is called twice. *)
THEOREM PassesCallEach == Spec => []PassCallsEach
<1>1. PassInv => PassCallsEach
  BY DEF PassInv, PassCallsEach, TypeOK, ListOK, ListType
<1>. QED  BY <1>1, PassInit, PassNext, Invariant, PTL DEF Spec

(* Whoever is in a list that remembers a value has been called with it, early
   or late (lines 3284-3321, 3325-3354). *)
THEOREM MemoryIsHeard == Spec => []MemoryReachesAll
<1>1. PassInv => MemoryReachesAll
  BY DEF PassInv, HeardAll, MemoryReachesAll
<1>. QED  BY <1>1, PassInit, PassNext, Invariant, PTL DEF Spec
=============================================================================
