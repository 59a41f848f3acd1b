---------------------------- MODULE EventsProofs ----------------------------
(***************************************************************************)
(* What holds of jQuery's events for any document, boxes, handlers and     *)
(* number of calls.                                                        *)
(*                                                                         *)
(* Handlers run inside dispatches, which run inside triggers or native     *)
(* clicks, and do to the page what they like: the invariant Good is about  *)
(* the page and the stack of calls together.                               *)
(*   ListsInv  the list of a node: the count of handlers with a selector,  *)
(*             the place of the controller, who listens,                   *)
(*   Numbered  each event is owned by one frame and younger than those     *)
(*             below it, so that popping the frame is dropping the event,  *)
(*   Clicking  inClick is the set of the click methods on the stack,       *)
(*   Follows   a handler runs in a dispatch of its event, and a controller *)
(*             is interrupted by the click method of its own node,         *)
(*   Wired     arguments that a controller has kept on its node belong to  *)
(*             a call of it that is under way,                             *)
(*   LetGo     the function of one() that runs is in no list and queue     *)
(*             where a later event would find it.                          *)
(*                                                                         *)
(* The operators of Events take a page to a page, and so do the lemmas:    *)
(* a frame is pushed (PushKeeps), popped (PopStacked), swapped for one     *)
(* that stands for it (SwapKeeps), or the stack is cut by an exception     *)
(* (CutKeeps); flags are set (FlagsKeep); a node's data change (DataKeeps).*)
(* Recursive functions of the model are taken apart with UpTo, which says  *)
(* of the numbers 0..n what an induction would.                            *)
(***************************************************************************)
EXTENDS Events, TLAPS, WellFoundedInduction

-----------------------------------------------------------------------------
(* What can stand in a list of handlers, and in a namespace. *)
Own == Handlers \cup {Lever, IsTrue}
Spaces == {""} \cup {h.ns : h \in Handlers}
IsClick(c) == c \in {Undefined, Unset, Capture} \/ \E e \in Nat : c = Arguments(e)
IsData(p) ==
  /\ DOMAIN p = {"list", "delegates", "click"}
  /\ p.list \in Seq(Own) /\ p.delegates \in 0..Len(p.list) /\ IsClick(p.click)
Event ==
  [target : Nodes, trig : {0, 2, 3}, native : Nat, ns : Spaces, reused : BOOLEAN,
   stopped : BOOLEAN, immediate : BOOLEAN, prevented : BOOLEAN,
   delegateTarget : Nodes, clicks : Nat]
NativeFrame ==
  [at : {"native"}, n : Nodes, path : Seq(Nodes), method : BOOLEAN, stopped : BOOLEAN,
   prevented : BOOLEAN, was : BOOLEAN, made : Nat]
Todo == [elem : Nodes, todo : Seq(Own)]
DispatchFrame == [at : {"dispatch"}, n : Nodes, ev : Nat, mine : BOOLEAN, queue : Seq(Todo)]
TriggerFrame ==
  [at : {"trigger"}, n : Nodes, ev : Nat, only : BOOLEAN, mine : BOOLEAN, path : Seq(Nodes)]
TriggeredFrame == [at : {"triggered"}, ev : Nat, mine : BOOLEAN]
LeverFrame == [at : {"interrupted", "reinvoked"}, n : Nodes, ev : Nat]
UserFrame == [at : {"user"}, ev : Nat, h : Handlers]
Frame == NativeFrame \cup DispatchFrame \cup TriggerFrame \cup TriggeredFrame \cup LeverFrame
           \cup UserFrame
Parts == {"up", "priv", "listening", "checked", "inClick", "events", "triggered", "stack",
          "threw", "unclaimed", "rebound"}
(* Types of the parts of the page. *)
Page(t) ==
  /\ DOMAIN t = Parts
  /\ t.up \in [Nodes -> {None, Doc} \cup Plain]
  /\ DOMAIN t.priv = Nodes /\ \A n \in Nodes : IsData(t.priv[n])
  /\ t.listening \subseteq Nodes /\ t.checked \subseteq Boxes /\ t.inClick \subseteq Nodes
  /\ t.events \in Seq(Event) /\ t.stack \in Seq(Frame)
  /\ t.triggered \in BOOLEAN /\ t.threw \in BOOLEAN /\ t.unclaimed \in BOOLEAN
  /\ t.rebound \in BOOLEAN

(* The list of a node: the handlers with a selector come first, then, for a
   box, its controller; no other node has a controller.  A node listens as
   long as its list is not empty. *)
ListOK(p, n) ==
  /\ \A i \in DOMAIN p.list : p.list[i].sel <=> i <= p.delegates
  /\ n \in Boxes /\ p.list # <<>> =>
       p.delegates < Len(p.list) /\ p.list[p.delegates + 1] = Lever
  /\ n \notin Boxes => \A i \in DOMAIN p.list : p.list[i] # Lever
ListsInv(t) ==
  \A n \in Nodes : ListOK(t.priv[n], n) /\ (n \in t.listening <=> t.priv[n].list # <<>>)

(* Frames: those for an event, those an event lives as long as, the click
   method of a node, and a dispatch that calls the controller for boxes only. *)
HasEvent(f) == f.at # "native"
Mine(f) == f.at \in {"dispatch", "trigger", "triggered"} /\ f.mine

Method(f, n) == f.at = "native" /\ f.method /\ f.n = n
QueueOK(f) ==
  \A k \in DOMAIN f.queue : \A m \in DOMAIN f.queue[k].todo :
    f.queue[k].todo[m] = Lever => f.queue[k].elem = f.n /\ f.n \in Boxes
-----------------------------------------------------------------------------
(* Types. *)
LEMMA Kinds ==
  ASSUME NEW f \in Frame
  PROVE  /\ f.at \in {"native", "dispatch", "trigger", "triggered", "interrupted",
                      "reinvoked", "user"}
         /\ f.at = "native" => f \in NativeFrame
         /\ f.at = "dispatch" => f \in DispatchFrame
         /\ f.at = "trigger" => f \in TriggerFrame
         /\ f.at = "triggered" => f \in TriggeredFrame
         /\ f.at \in {"interrupted", "reinvoked"} => f \in LeverFrame
         /\ f.at = "user" => f \in UserFrame
         /\ f.at # "native" => f.ev \in Nat
<1>1. CASE f \in NativeFrame
  BY <1>1 DEF NativeFrame
<1>2. CASE f \in DispatchFrame
  BY <1>2 DEF DispatchFrame
<1>3. CASE f \in TriggerFrame
  BY <1>3 DEF TriggerFrame
<1>4. CASE f \in TriggeredFrame
  BY <1>4 DEF TriggeredFrame
<1>5. CASE f \in LeverFrame
  BY <1>5 DEF LeverFrame
<1>6. CASE f \in UserFrame
  BY <1>6 DEF UserFrame
<1>. QED  BY <1>1, <1>2, <1>3, <1>4, <1>5, <1>6 DEF Frame

LEMMA Types ==
  ASSUME NEW t, Page(t)
  PROVE  /\ Len(t.stack) \in Nat /\ DOMAIN t.stack = 1..Len(t.stack)
         /\ (t.stack # <<>> <=> Len(t.stack) > 0)
         /\ \A k \in DOMAIN t.stack : t.stack[k] \in Frame
         /\ Len(t.events) \in Nat /\ DOMAIN t.events = 1..Len(t.events)
         /\ \A e \in DOMAIN t.events : t.events[e] \in Event
BY DEF Page

(* Data of a node without a handler. *)
LEMMA NoDataOK == IsData(NoData) /\ \A n : ListOK(NoData, n)
BY DEF NoData, IsData, IsClick, Undefined, ListOK

-----------------------------------------------------------------------------
(* Lists of handlers. *)
LEMMA Specials ==
  /\ Lever \in Own /\ IsTrue \in Own /\ ~Lever.sel /\ ~IsTrue.sel /\ ~Lever.one /\ ~IsTrue.one
  /\ IsTrue # Lever
  /\ \A h \in Handlers : /\ h.sel \in BOOLEAN /\ h.one \in BOOLEAN /\ h # Lever /\ h # IsTrue
                         /\ h.id \notin {"any", "lever", "true"}
  /\ \A h \in Own : h.sel \in BOOLEAN
<1>1. Lever.id = "lever" /\ IsTrue.id = "true" /\ Lever # IsTrue
  BY DEF Lever, IsTrue
<1>2. Lever.sel = FALSE /\ IsTrue.sel = FALSE /\ Lever.one = FALSE /\ IsTrue.one = FALSE
  BY DEF Lever, IsTrue
<1>3. \A h \in Handlers : /\ h.sel \in BOOLEAN /\ h.one \in BOOLEAN
                          /\ h.id \notin {"any", "lever", "true"}
  BY <1>1, EventsAssumption
<1>4. \A h \in Handlers : h # Lever /\ h # IsTrue
  BY <1>1, <1>3
<1>5. \A h \in Own : h.sel \in BOOLEAN
  BY <1>2, <1>3 DEF Own
<1>. QED  BY <1>1, <1>2, <1>3, <1>4, <1>5 DEF Own

Sorted(p) == \A i \in DOMAIN p.list : p.list[i].sel <=> i <= p.delegates
Adds(p, h, q) ==
  /\ IsData(q) /\ q.click = p.click /\ Len(q.list) = Len(p.list) + 1 /\ q.list # <<>>
  /\ Sorted(q)
  /\ \A i \in DOMAIN q.list : q.list[i] = h \/ \E j \in DOMAIN p.list : q.list[i] = p.list[j]
  /\ p.delegates < Len(p.list) =>
       q.delegates < Len(q.list) /\ q.list[q.delegates + 1] = p.list[p.delegates + 1]
  /\ p.list = <<>> /\ ~h.sel => q.delegates = 0 /\ q.list[1] = h

LEMMA AddPlainKeeps ==
  ASSUME NEW p, IsData(p), NEW h \in Own, Sorted(p)
  PROVE  Adds(p, h, AddPlain(p, h))
<1>. DEFINE q == AddPlain(p, h)
<1>. SUFFICES Adds(p, h, q)
  OBVIOUS
<1>0. /\ DOMAIN p = {"list", "delegates", "click"}
      /\ p.list \in Seq(Own) /\ p.delegates \in 0..Len(p.list) /\ Len(p.list) \in Nat
      /\ DOMAIN p.list = 1..Len(p.list) /\ IsClick(p.click)
  BY DEF IsData
<1>. DEFINE d == p.delegates
            m == Len(p.list)
<1>i. \A i \in DOMAIN p.list : p.list[i].sel <=> i <= p.delegates
  BY DEF Sorted
<1>1. CASE h.sel
  <2>. DEFINE a == SubSeq(p.list, 1, d)
              b == SubSeq(p.list, d + 1, m)
  <2>1. /\ a \in Seq(Own) /\ Len(a) = d /\ b \in Seq(Own) /\ Len(b) = m - d
        /\ \A i \in 1..d : a[i] = p.list[i]
        /\ \A i \in 1..(m - d) : b[i] = p.list[d + i]
    BY <1>0
  <2>2. q = [p EXCEPT !.list = a \o <<h>> \o b, !.delegates = d + 1]
    BY <1>1 DEF AddPlain
  <2>. HIDE DEF q
  <2>3. /\ q.list = a \o <<h>> \o b /\ q.delegates = d + 1 /\ q.click = p.click
        /\ DOMAIN q = {"list", "delegates", "click"}
    BY <1>0, <2>2
  <2>. HIDE DEF a, b
  <2>4. /\ q.list \in Seq(Own) /\ Len(q.list) = m + 1 /\ DOMAIN q.list = 1..(m + 1)
        /\ \A i \in 1..d : q.list[i] = p.list[i]
        /\ q.list[d + 1] = h
        /\ \A i \in (d + 2)..(m + 1) : q.list[i] = p.list[i - 1]
    BY <1>0, <2>1, <2>3
  <2>. HIDE DEF d, m
  <2>5. IsData(q)
    BY <1>0, <2>3, <2>4 DEF IsData, d, m
  <2>6. \A i \in DOMAIN q.list :
          \/ i \in 1..d /\ q.list[i] = p.list[i]
          \/ i = d + 1 /\ q.list[i] = h
          \/ i > d + 1 /\ i - 1 \in DOMAIN p.list /\ q.list[i] = p.list[i - 1]
    <3>. TAKE i \in DOMAIN q.list
    <3>1. i \in 1..(m + 1) /\ d \in 0..m /\ m \in Nat
      BY <1>0, <2>4 DEF d, m
    <3>2. CASE i <= d
      BY <2>4, <3>1, <3>2
    <3>3. CASE i = d + 1
      BY <2>4, <3>3
    <3>4. CASE i > d + 1
      <4>1. i \in (d + 2)..(m + 1) /\ i - 1 \in 1..m
        BY <3>1, <3>4
      <4>. QED  BY <1>0, <2>4, <3>4, <4>1 DEF m
    <3>. QED  BY <3>1, <3>2, <3>3, <3>4
  <2>7. \A i \in DOMAIN q.list : q.list[i].sel <=> i <= q.delegates
    <3>. TAKE i \in DOMAIN q.list
    <3>1. d \in Nat /\ i \in Nat /\ q.delegates = d + 1
      BY <1>0, <2>3, <2>4 DEF d, m
    <3>2. CASE i \in 1..d /\ q.list[i] = p.list[i]
      <4>1. i \in DOMAIN p.list /\ i <= d
        BY <1>0, <3>1, <3>2 DEF d
      <4>. QED  BY <1>i, <3>1, <3>2, <4>1 DEF d
    <3>3. CASE i = d + 1 /\ q.list[i] = h
      BY <1>1, <3>1, <3>3
    <3>4. CASE i > d + 1 /\ i - 1 \in DOMAIN p.list /\ q.list[i] = p.list[i - 1]
      <4>1. ~(i - 1 <= d)
        BY <3>1, <3>4
      <4>2. ~p.list[i - 1].sel
        BY <1>i, <3>4, <4>1 DEF d
      <4>. QED  BY <3>1, <3>4, <4>2
    <3>. QED  BY <2>6, <3>2, <3>3, <3>4
  <2>8. \A i \in DOMAIN q.list : q.list[i] = h \/ \E j \in DOMAIN p.list : q.list[i] = p.list[j]
    BY <1>0, <2>6 DEF d, m
  <2>9. p.delegates < Len(p.list) =>
          q.delegates < Len(q.list) /\ q.list[q.delegates + 1] = p.list[p.delegates + 1]
    <3>1. d < m => d + 2 \in (d + 2)..(m + 1) /\ (d + 2) - 1 = d + 1 /\ (d + 1) + 1 = d + 2
      BY <1>0 DEF d, m
    <3>2. d < m => q.list[d + 2] = p.list[d + 1]
      BY <2>4, <3>1
    <3>. QED  BY <1>0, <2>3, <2>4, <3>1, <3>2 DEF d, m
  <2>10. Len(q.list) = Len(p.list) + 1 /\ q.list # <<>>
    BY <1>0, <2>4 DEF m
  <2>11. ~(p.list = <<>> /\ ~h.sel)
    BY <1>1
  <2>. QED  BY <2>3, <2>5, <2>7, <2>8, <2>9, <2>10, <2>11 DEF Adds, Sorted
<1>2. CASE ~h.sel
  <2>1. q = [p EXCEPT !.list = Append(p.list, h)]
    BY <1>2 DEF AddPlain
  <2>. HIDE DEF q
  <2>2. /\ q.list = Append(p.list, h) /\ q.delegates = d /\ q.click = p.click
        /\ DOMAIN q = {"list", "delegates", "click"}
    BY <1>0, <2>1
  <2>3. /\ q.list \in Seq(Own) /\ Len(q.list) = m + 1 /\ DOMAIN q.list = 1..(m + 1)
        /\ \A i \in 1..m : q.list[i] = p.list[i]
        /\ q.list[m + 1] = h
    BY <1>0, <2>2
  <2>. QED  BY <1>0, <1>2, <1>i, <2>2, <2>3 DEF IsData, Adds, Sorted
<1>. QED  BY <1>1, <1>2, Specials

(* All of the page but the data of a node and who listens. *)
SameRest(t, u) ==
  /\ DOMAIN u = DOMAIN t /\ u.up = t.up /\ u.checked = t.checked /\ u.inClick = t.inClick
  /\ u.events = t.events /\ u.triggered = t.triggered /\ u.stack = t.stack
  /\ u.threw = t.threw /\ u.unclaimed = t.unclaimed /\ u.rebound = t.rebound

Handles(h, t, n) == \E j \in DOMAIN t.priv[n].list : t.priv[n].list[j] = h
Added(t, n, h, u) ==
  /\ Page(u) /\ ListsInv(u) /\ SameRest(t, u)
  /\ \A m \in Nodes \ {n} : u.priv[m] = t.priv[m]
  /\ u.priv[n].list # <<>>
  /\ u.priv[n].click = IF t.priv[n].list = <<>> /\ n \in Boxes THEN Unset ELSE t.priv[n].click
  /\ \A i \in DOMAIN u.priv[n].list :
       u.priv[n].list[i] \in {h, Lever} \/ Handles(u.priv[n].list[i], t, n)

LEMMA AddKeeps ==
  ASSUME NEW t, Page(t), ListsInv(t), NEW n \in Nodes, NEW h \in Own, h = Lever => n \in Boxes
  PROVE  Added(t, n, h, Add(t, n, h))
<1>. DEFINE u == Add(t, n, h)
<1>. SUFFICES Added(t, n, h, u)
  OBVIOUS
<1>. DEFINE p == t.priv[n]
            claims == p.list = <<>> /\ n \in Boxes
            r == [p EXCEPT !.click = Unset]
            q == IF claims THEN AddPlain(r, Lever) ELSE p
            w == AddPlain(q, h)
<1>0. /\ DOMAIN t = Parts /\ DOMAIN t.priv = Nodes /\ IsData(p) /\ ListOK(p, n)
      /\ (n \in t.listening <=> p.list # <<>>)
  BY DEF Page, ListsInv
<1>1. u = [t EXCEPT !.priv[n] = w, !.listening = @ \cup {n}]
  BY DEF Add
<1>. HIDE DEF u
<1>2. /\ u.priv = [t.priv EXCEPT ![n] = w] /\ u.listening = t.listening \cup {n}
      /\ SameRest(t, u)
  BY <1>0, <1>1 DEF Parts, SameRest
<1>3. /\ IsData(q) /\ q.click = (IF claims THEN Unset ELSE p.click)
      /\ Sorted(q)
      /\ \A i \in DOMAIN q.list : q.list[i] = Lever \/ \E j \in DOMAIN p.list : q.list[i] = p.list[j]
      /\ n \in Boxes => q.delegates < Len(q.list) /\ q.list[q.delegates + 1] = Lever
      /\ n \notin Boxes => q = p
  <2>1. CASE claims
    <3>1. /\ r.list = <<>> /\ r.delegates = p.delegates /\ r.click = Unset /\ IsData(r)
      BY <1>0, <2>1 DEF IsData, IsClick
    <3>2. Sorted(r) /\ Lever \in Own /\ ~Lever.sel
      BY <3>1, Specials DEF Sorted
    <3>. HIDE DEF r, p
    <3>3. q = AddPlain(r, Lever)
      BY <2>1
    <3>4. Adds(r, Lever, q)
      BY <3>1, <3>2, <3>3, AddPlainKeeps, Zenon
    <3>. HIDE DEF q, claims
    <3>. QED  BY <2>1, <3>1, <3>2, <3>4 DEF claims, Adds
  <2>2. CASE ~claims
    BY <1>0, <2>2 DEF ListOK, Sorted
  <2>. QED  BY <2>1, <2>2
<1>. HIDE DEF q
<1>4. Adds(q, h, w)
  BY <1>3, AddPlainKeeps, Zenon
<1>. HIDE DEF w, p
<1>5. ListOK(w, n)
  <2>1. n \notin Boxes => \A i \in DOMAIN w.list : w.list[i] # Lever
    BY <1>0, <1>3, <1>4 DEF ListOK, Adds
  <2>. QED  BY <1>3, <1>4, <2>1 DEF ListOK, Adds, Sorted
<1>6. Page(u)
  <2>1. DOMAIN u.priv = Nodes /\ \A m \in Nodes : IsData(u.priv[m])
    BY <1>0, <1>2, <1>4 DEF Page, Adds
  <2>2. u.listening \subseteq Nodes
    BY <1>2 DEF Page
  <2>3. u.triggered = t.triggered /\ u.threw = t.threw /\ u.unclaimed = t.unclaimed /\ u.rebound = t.rebound
    BY <1>2 DEF SameRest
  <2>. QED  BY <1>0, <1>2, <2>1, <2>2 DEF Page, SameRest
<1>7. ListsInv(u)
  BY <1>0, <1>2, <1>4, <1>5 DEF ListsInv, Adds
<1>8. \A m \in Nodes \ {n} : u.priv[m] = t.priv[m]
  BY <1>0, <1>2
<1>9. u.priv[n] = w
  BY <1>0, <1>2
<1>10. \A i \in DOMAIN w.list : w.list[i] \in {h, Lever} \/ Handles(w.list[i], t, n)
  BY <1>3, <1>4 DEF p, Adds, Handles
<1>. QED  BY <1>2, <1>3, <1>4, <1>6, <1>7, <1>8, <1>9, <1>10 DEF p, Adds, Added

(* The least element of a set of numbers, in place of induction. *)
Less == {ss \in Nat \X Nat : ss[1] < ss[2]}

LEMMA NatMin ==
  ASSUME NEW T, T \subseteq Nat, T # {}
  PROVE \E x \in T : \A y \in T : x <= y
<1>1. OpToRel(<, Nat) = Less
  BY Zenon DEF OpToRel, Less
<1>2. IsWellFoundedOn(Less, Nat)
  BY <1>1, NatLessThanWellFounded, Zenon
<1>3. PICK x \in T : \A y \in T : ~(<<y,x>> \in Less)
  BY <1>2, WFMin, Zenon
<1>4. \A a, b \in Nat : a < b => <<a, b>> \in Less
  <2>. TAKE a, b \in Nat
  <2>. HAVE a < b
  <2>1. <<a, b>> \in Nat \X Nat /\ <<a, b>>[1] < <<a, b>>[2]
    OBVIOUS
  <2>. QED  BY <2>1, Zenon DEF Less
<1>5. \A y \in T : ~(y < x)
  BY <1>3, <1>4, Zenon
<1>. QED  BY <1>5

LEMMA UpTo ==
  ASSUME NEW n \in Nat, NEW T, 0 \in T, \A k \in 1..n : k - 1 \in T => k \in T
  PROVE  0..n \subseteq T
<1>. SUFFICES ASSUME 0..n \ T # {} PROVE FALSE
  OBVIOUS
<1>1. 0..n \ T \subseteq Nat
  OBVIOUS
<1>2. PICK x \in 0..n \ T : \A y \in 0..n \ T : x <= y
  BY <1>1, NatMin, Zenon
<1>3. x \in 1..n /\ x - 1 \in 0..n /\ ~(x <= x - 1)
  BY <1>2
<1>4. x - 1 \in T
  BY <1>2, <1>3
<1>. QED  BY <1>2, <1>3, <1>4

-----------------------------------------------------------------------------
(* A handler is taken out of a list. *)
Led(p) == p.delegates < Len(p.list) /\ p.list[p.delegates + 1] = Lever
Takes(p, j, q) ==
  /\ IsData(q) /\ q.click = p.click /\ Sorted(q) /\ Len(q.list) = Len(p.list) - 1
  /\ \A i \in 1..(j - 1) : q.list[i] = p.list[i]
  /\ \A i \in j..(Len(p.list) - 1) : q.list[i] = p.list[i + 1]
  /\ Led(p) /\ p.list[j] # Lever => Led(q)

LEMMA TakeOutKeeps ==
  ASSUME NEW p, IsData(p), Sorted(p), NEW j \in DOMAIN p.list
  PROVE  Takes(p, j, TakeOut(p, j))
<1>. DEFINE q == TakeOut(p, j)
            m == Len(p.list)
            d == p.delegates
            a == SubSeq(p.list, 1, j - 1)
            b == SubSeq(p.list, j + 1, m)
<1>. SUFFICES Takes(p, j, q)
  OBVIOUS
<1>0. /\ DOMAIN p = {"list", "delegates", "click"}
      /\ p.list \in Seq(Own) /\ d \in 0..m /\ m \in Nat
      /\ DOMAIN p.list = 1..m /\ IsClick(p.click) /\ j \in 1..m
  BY DEF IsData
<1>1. /\ a \in Seq(Own) /\ Len(a) = j - 1 /\ b \in Seq(Own) /\ Len(b) = m - j
      /\ \A i \in 1..(j - 1) : a[i] = p.list[i]
      /\ \A i \in 1..(m - j) : b[i] = p.list[j + i]
  BY <1>0
<1>2. /\ q.list = a \o b /\ q.delegates = (IF p.list[j].sel THEN d - 1 ELSE d)
      /\ q.click = p.click /\ DOMAIN q = {"list", "delegates", "click"}
  BY <1>0 DEF TakeOut
<1>. HIDE DEF q, a, b
<1>3. /\ q.list \in Seq(Own) /\ Len(q.list) = m - 1 /\ DOMAIN q.list = 1..(m - 1)
      /\ \A i \in 1..(j - 1) : q.list[i] = p.list[i]
      /\ \A i \in j..(m - 1) : q.list[i] = p.list[i + 1]
  BY <1>0, <1>1, <1>2, SMTT(90)
<1>. HIDE DEF m, d
<1>4. (p.list[j].sel <=> j <= d) /\ \A i \in 1..m : (p.list[i].sel <=> i <= d)
  BY <1>0 DEF Sorted, d
<1>9. q.delegates = IF j <= d THEN d - 1 ELSE d
  BY <1>2, <1>4
<1>5. q.delegates \in 0..(m - 1)
  BY <1>0, <1>2, <1>4
<1>6. IsData(q)
  BY <1>0, <1>2, <1>3, <1>5 DEF IsData
<1>7. Sorted(q)
  <2>. SUFFICES ASSUME NEW i \in 1..(m - 1) PROVE q.list[i].sel <=> i <= q.delegates
    BY <1>3 DEF Sorted
  <2>1. CASE i < j
    <3>1. q.list[i] = p.list[i] /\ i \in 1..m
      BY <1>0, <1>3, <2>1
    <3>2. q.list[i].sel <=> i <= d
      BY <1>4, <3>1
    <3>3. i <= d <=> i <= q.delegates
      BY <1>0, <1>9, <2>1
    <3>. QED  BY <3>1, <3>2, <3>3
  <2>2. CASE i >= j
    <3>1. q.list[i] = p.list[i + 1] /\ i + 1 \in 1..m
      BY <1>0, <1>3, <2>2
    <3>2. q.list[i].sel <=> i + 1 <= d
      BY <1>4, <3>1
    <3>3. i + 1 <= d <=> i <= q.delegates
      BY <1>0, <1>9, <2>2
    <3>. QED  BY <3>1, <3>2, <3>3
  <2>. QED  BY <1>0, <2>1, <2>2
<1>8. ASSUME Led(p), p.list[j] # Lever PROVE Led(q)
  <2>1. d < m /\ p.list[d + 1] = Lever /\ j # d + 1
    BY <1>8 DEF Led, d, m
  <2>2. CASE j <= d
    <3>1. q.delegates = d - 1 /\ d \in j..(m - 1)
      BY <1>0, <1>2, <1>4, <2>1, <2>2
    <3>2. q.list[d] = p.list[d + 1]
      BY <1>3, <3>1
    <3>. QED  BY <1>0, <1>3, <2>1, <3>1, <3>2 DEF Led
  <2>3. CASE j > d + 1
    <3>1. q.delegates = d /\ d + 1 \in 1..(j - 1)
      BY <1>0, <1>2, <1>4, <2>1, <2>3
    <3>. QED  BY <1>0, <1>3, <2>1, <3>1 DEF Led
  <2>. QED  BY <1>0, <2>1, <2>2, <2>3
<1>. QED  BY <1>2, <1>3, <1>6, <1>7, <1>8 DEF Takes, m

(* What is left when the last k handlers have been looked at. *)
IsLeft(g, p, id, ns, n) ==
  g = [k \in 0..n |-> LET j == Len(p.list) + 1 - k
                      IN IF k = 0 THEN p
                         ELSE IF Meant(p.list[j], id, ns) THEN TakeOut(g[k - 1], j)
                         ELSE g[k - 1]]

LEMMA LeftExists ==
  ASSUME NEW p, NEW id, NEW ns, NEW n \in Nat
  PROVE  \E g : IsLeft(g, p, id, ns, n)
<1>. DEFINE T == {k \in 0..n : \E g : IsLeft(g, p, id, ns, k)}
<1>1. 0 \in T
  <2>1. IsLeft([k \in 0..0 |-> p], p, id, ns, 0)
    BY DEF IsLeft
  <2>. QED  BY <2>1
<1>2. ASSUME NEW k \in 1..n, k - 1 \in T PROVE k \in T
  <2>1. PICK g : IsLeft(g, p, id, ns, k - 1)
    BY <1>2
  <2>. DEFINE j(i) == Len(p.list) + 1 - i
              h == [i \in 0..k |-> IF i <= k - 1 THEN g[i]
                     ELSE IF Meant(p.list[j(k)], id, ns) THEN TakeOut(g[k - 1], j(k)) ELSE g[k - 1]]
  <2>2. \A i \in 0..(k - 1) : g[i] = IF i = 0 THEN p
           ELSE IF Meant(p.list[j(i)], id, ns) THEN TakeOut(g[i - 1], j(i)) ELSE g[i - 1]
    BY <2>1 DEF IsLeft
  <2>. HIDE DEF j
  <2>3. \A i \in 0..k : h[i] = IF i = 0 THEN p
           ELSE IF Meant(p.list[j(i)], id, ns) THEN TakeOut(h[i - 1], j(i)) ELSE h[i - 1]
    BY <2>2
  <2>4. h = [i \in 0..k |-> h[i]]
    OBVIOUS
  <2>. HIDE DEF h
  <2>5. IsLeft(h, p, id, ns, k)
    BY <2>3, <2>4 DEF IsLeft, j
  <2>. QED  BY <2>5
<1>. HIDE DEF T
<1>3. 0..n \subseteq T
  BY <1>1, <1>2, UpTo
<1>. QED  BY <1>3 DEF T

LEMMA RemainingIs ==
  ASSUME NEW p, IsData(p), NEW id, NEW ns
  PROVE  \E g : IsLeft(g, p, id, ns, Len(p.list)) /\ Remaining(p, id, ns) = g[Len(p.list)]
<1>. DEFINE g == CHOOSE g : IsLeft(g, p, id, ns, Len(p.list))
<1>1. Len(p.list) \in Nat
  BY DEF IsData
<1>2. IsLeft(g, p, id, ns, Len(p.list))
  BY <1>1, LeftExists
<1>3. Remaining(p, id, ns) = g[Len(p.list)]
  BY DEF Remaining, IsLeft
<1>. QED  BY <1>2, <1>3

(* What off() leaves: those that are not meant, in order. *)
Names(id, ns) == id \notin {"lever", "true"} /\ (id = "any" => ns = "")
Remains(p, id, ns, q) ==
  /\ IsData(q) /\ q.click = p.click /\ Sorted(q)
  /\ \A i \in DOMAIN q.list : /\ ~Meant(q.list[i], id, ns)
                              /\ \E j \in DOMAIN p.list : q.list[i] = p.list[j]
  /\ Led(p) /\ id # "any" => Led(q)

LEMMA RemainingKeeps ==
  ASSUME NEW p, IsData(p), Sorted(p), NEW id, NEW ns, Names(id, ns)
  PROVE  Remains(p, id, ns, Remaining(p, id, ns))
<1>. DEFINE m == Len(p.list)
            W(r, k) ==
              /\ IsData(r) /\ r.click = p.click /\ Sorted(r) /\ Len(r.list) >= m - k
              /\ \A i \in 1..(m - k) : r.list[i] = p.list[i]
              /\ \A i \in DOMAIN r.list : \E j \in DOMAIN p.list : r.list[i] = p.list[j]
              /\ \A i \in DOMAIN r.list : i > m - k => ~Meant(r.list[i], id, ns)
              /\ Led(p) /\ id # "any" => Led(r)
<1>0. p.list \in Seq(Own) /\ m \in Nat /\ DOMAIN p.list = 1..m
  BY DEF IsData
<1>1. PICK g : IsLeft(g, p, id, ns, m) /\ Remaining(p, id, ns) = g[m]
  BY RemainingIs
<1>2. \A k \in 0..m : g[k] = IF k = 0 THEN p
        ELSE IF Meant(p.list[m + 1 - k], id, ns) THEN TakeOut(g[k - 1], m + 1 - k) ELSE g[k - 1]
  BY <1>1 DEF IsLeft
<1>. DEFINE T == {k \in 0..m : W(g[k], k)}
<1>. HIDE DEF m
<1>3. 0 \in T
  <2>1. g[0] = p
    BY <1>0, <1>2
  <2>2. W(p, 0)
    BY <1>0 DEF m
  <2>. QED  BY <1>0, <2>1, <2>2
<1>4. ASSUME NEW k \in 1..m, k - 1 \in T PROVE k \in T
  <2>. DEFINE r == g[k - 1]
              j == m + 1 - k
  <2>1. W(r, k - 1) /\ k - 1 \in 0..m
    BY <1>4
  <2>2. /\ r.list \in Seq(Own) /\ Len(r.list) \in Nat /\ DOMAIN r.list = 1..Len(r.list)
        /\ j \in 1..m /\ j = m - (k - 1) /\ m - k = j - 1 /\ k \in 0..m /\ k # 0
    BY <1>0, <2>1 DEF IsData
  <2>3. j \in DOMAIN r.list /\ r.list[j] = p.list[j]
    BY <2>1, <2>2
  <2>. HIDE DEF r, j
  <2>4. CASE Meant(p.list[j], id, ns)
    <3>1. g[k] = TakeOut(r, j)
      BY <1>2, <2>2, <2>4 DEF r, j
    <3>2. Takes(r, j, g[k])
      BY <2>1, <2>3, <3>1, TakeOutKeeps
    <3>. DEFINE q == g[k]
    <3>3. /\ IsData(q) /\ q.click = p.click /\ Sorted(q) /\ Len(q.list) = Len(r.list) - 1
          /\ \A i \in 1..(j - 1) : q.list[i] = r.list[i]
          /\ \A i \in j..(Len(r.list) - 1) : q.list[i] = r.list[i + 1]
      BY <2>1, <3>2 DEF Takes
    <3>. HIDE DEF q
    <3>4. DOMAIN q.list = 1..(Len(r.list) - 1)
      BY <3>3 DEF IsData
    <3>5. Len(q.list) >= m - k
      BY <2>1, <2>2, <3>3
    <3>6. \A i \in 1..(m - k) : q.list[i] = p.list[i]
      BY <2>1, <2>2, <3>3
    <3>7. \A i \in DOMAIN q.list :
            \/ i < j /\ i \in DOMAIN r.list /\ q.list[i] = r.list[i]
            \/ i >= j /\ i + 1 \in DOMAIN r.list /\ q.list[i] = r.list[i + 1]
      <4>. TAKE i \in DOMAIN q.list
      <4>1. i \in 1..(Len(r.list) - 1)
        BY <3>4
      <4>2. CASE i < j
        <5>1. i \in 1..(j - 1) /\ i \in 1..Len(r.list)
          BY <2>2, <4>1, <4>2
        <5>. QED  BY <2>2, <3>3, <4>2, <5>1
      <4>3. CASE i >= j
        <5>1. i \in j..(Len(r.list) - 1) /\ i + 1 \in 1..Len(r.list)
          BY <2>2, <4>1, <4>3
        <5>. QED  BY <2>2, <3>3, <4>3, <5>1
      <4>. QED  BY <2>2, <4>1, <4>2, <4>3
    <3>8. \A i \in DOMAIN q.list : \E l \in DOMAIN p.list : q.list[i] = p.list[l]
      BY <2>1, <3>7
    <3>9. \A i \in DOMAIN q.list : i > m - k => ~Meant(q.list[i], id, ns)
      <4>. SUFFICES ASSUME NEW i \in DOMAIN q.list, i > j - 1 PROVE ~Meant(q.list[i], id, ns)
        BY <2>2
      <4>1. i \in Nat /\ i >= j /\ i + 1 > j
        BY <2>2, <3>4
      <4>. QED  BY <2>1, <2>2, <3>7, <4>1
    <3>10. Led(p) /\ id # "any" => Led(q)
      <4>1. Lever.id = "lever"
        BY DEF Lever
      <4>2. id # "any" => p.list[j] # Lever
        BY <2>4, <4>1 DEF Meant, Names
      <4>. QED  BY <2>1, <2>3, <3>2, <4>2 DEF Takes, q
    <3>11. W(q, k)
      BY <3>3, <3>5, <3>6, <3>8, <3>9, <3>10
    <3>. QED  BY <2>2, <3>11 DEF q
  <2>5. CASE ~Meant(p.list[j], id, ns)
    <3>1. g[k] = r
      BY <1>2, <2>2, <2>5 DEF r, j
    <3>2. \A i \in DOMAIN r.list : i > m - k => ~Meant(r.list[i], id, ns)
      <4>. SUFFICES ASSUME NEW i \in DOMAIN r.list, i > j - 1, i # j PROVE ~Meant(r.list[i], id, ns)
        BY <2>2, <2>3, <2>5
      <4>1. i > m - (k - 1)
        BY <2>2
      <4>. QED  BY <2>1, <4>1
    <3>3. W(r, k)
      BY <2>1, <2>2, <3>2
    <3>. QED  BY <2>2, <3>1, <3>3
  <2>. QED  BY <2>4, <2>5
<1>. HIDE DEF T
<1>5. m \in T
  <2>1. \A k \in 1..m : k - 1 \in T => k \in T
    BY <1>4
  <2>2. m \in Nat
    BY <1>0
  <2>3. 0..m \subseteq T
    BY <1>3, <2>1, <2>2, UpTo, Zenon
  <2>4. m \in 0..m
    BY <2>2
  <2>. QED  BY <2>3, <2>4, Zenon
<1>6. W(g[m], m)
  BY <1>5 DEF T
<1>7. \A i \in DOMAIN g[m].list : i > m - m
  BY <1>0, <1>6 DEF IsData
<1>8. Remains(p, id, ns, g[m])
  BY <1>6, <1>7 DEF Remains
<1>. QED  BY <1>1, <1>8 DEF m

(* jQuery.event.remove. *)
Removed(t, n, id, ns, u) ==
  /\ Page(u) /\ ListsInv(u) /\ SameRest(t, u)
  /\ \A m \in Nodes \ {n} : u.priv[m] = t.priv[m]
  /\ u.priv[n].click = t.priv[n].click
  /\ \A i \in DOMAIN u.priv[n].list :
       ~Meant(u.priv[n].list[i], id, ns) /\ Handles(u.priv[n].list[i], t, n)

LEMMA RemoveKeeps ==
  ASSUME NEW t, Page(t), ListsInv(t), NEW n \in Nodes, NEW id, NEW ns, Names(id, ns),
         NEW u, u = Remove(t, n, id, ns)
  PROVE  Removed(t, n, id, ns, u)
<1>. DEFINE p == t.priv[n]
            q == Remaining(p, id, ns)
            w == IF q.list = <<>> THEN RemoveData(q) ELSE q
            on == IF q.list = <<>> THEN t.listening \ {n} ELSE t.listening
<1>0. /\ DOMAIN t = Parts /\ DOMAIN t.priv = Nodes /\ IsData(p) /\ ListOK(p, n) /\ Sorted(p)
      /\ (n \in t.listening <=> p.list # <<>>)
  BY DEF Page, ListsInv, ListOK, Sorted
<1>1. u = [t EXCEPT !.priv[n] = w, !.listening = on]
  BY <1>0 DEF Remove, Parts
<1>2. Remains(p, id, ns, q)
  BY <1>0, RemainingKeeps
<1>. HIDE DEF q
<1>3. /\ IsData(w) /\ w.click = p.click /\ Sorted(w) /\ w.list = q.list
      /\ w.list # <<>> => w = q
  <2>1. CASE q.list = <<>>
    <3>1. w = [NoData EXCEPT !.click = q.click]
      BY <2>1 DEF RemoveData
    <3>2. /\ DOMAIN w = {"list", "delegates", "click"} /\ w.list = <<>> /\ w.delegates = 0
          /\ w.click = q.click
      BY <3>1 DEF NoData
    <3>3. q.click = p.click /\ IsClick(q.click)
      BY <1>2 DEF Remains, IsData
    <3>. HIDE DEF w
    <3>4. DOMAIN w.list = {} /\ Len(w.list) = 0 /\ w.list \in Seq(Own)
      BY <3>2
    <3>. QED  BY <2>1, <3>2, <3>3, <3>4 DEF IsData, Sorted
  <2>2. CASE q.list # <<>>
    BY <1>2, <2>2 DEF Remains
  <2>. QED  BY <2>1, <2>2
<1>4. \A i \in DOMAIN w.list : /\ ~Meant(w.list[i], id, ns)
                              /\ \E j \in DOMAIN p.list : w.list[i] = p.list[j]
  BY <1>2, <1>3 DEF Remains
<1>. HIDE DEF w
<1>5. w.list # <<>> => id # "any" /\ p.list # <<>>
  <2>. SUFFICES ASSUME w.list # <<>> PROVE id # "any" /\ p.list # <<>>
    OBVIOUS
  <2>1. 1 \in DOMAIN w.list
    BY <1>3 DEF IsData
  <2>2. PICK j \in DOMAIN p.list : w.list[1] = p.list[j]
    BY <1>4, <2>1
  <2>3. p.list # <<>>
    BY <2>2
  <2>4. id # "any"
    BY <1>4, <2>1 DEF Meant, Names
  <2>. QED  BY <2>3, <2>4
<1>. HIDE DEF p
<1>6. ListOK(w, n)
  <2>1. n \in Boxes /\ w.list # <<>> => w.delegates < Len(w.list) /\ w.list[w.delegates + 1] = Lever
    BY <1>0, <1>2, <1>3, <1>5 DEF ListOK, Led, Remains
  <2>2. n \notin Boxes => \A i \in DOMAIN w.list : w.list[i] # Lever
    BY <1>0, <1>4 DEF ListOK
  <2>. QED  BY <1>3, <2>1, <2>2 DEF ListOK, Sorted
<1>7. /\ u.priv = [t.priv EXCEPT ![n] = w] /\ u.listening = on /\ SameRest(t, u)
  BY <1>0, <1>1 DEF Parts, SameRest
<1>8. n \in on <=> w.list # <<>>
  BY <1>0, <1>3, <1>5
<1>9. u.priv[n] = w /\ DOMAIN u.priv = Nodes /\ \A m \in Nodes \ {n} : u.priv[m] = t.priv[m]
  BY <1>0, <1>7
<1>10. \A m \in Nodes \ {n} : m \in u.listening <=> m \in t.listening
  BY <1>7
<1>. HIDE DEF on
<1>11. ListsInv(u)
  BY <1>6, <1>7, <1>8, <1>9, <1>10 DEF ListsInv
<1>12. Page(u)
  <2>1. \A m \in Nodes : IsData(u.priv[m])
    BY <1>3, <1>9 DEF Page
  <2>2. u.listening \subseteq Nodes
    BY <1>7 DEF Page, on
  <2>. QED  BY <1>0, <1>7, <1>9, <2>1, <2>2 DEF Page, SameRest
<1>. QED  BY <1>3, <1>4, <1>7, <1>9, <1>11, <1>12 DEF p, Removed, Handles

(* remove() of a node and what is in it. *)
Cleaned(t, u) ==
  /\ Page(u) /\ ListsInv(u) /\ SameRest(t, u)
  /\ \A m \in Nodes : u.priv[m] = t.priv[m] \/ u.priv[m] = NoData

LEMMA CleanKeeps ==
  ASSUME NEW t, Page(t), ListsInv(t), NEW n \in Nodes, NEW u, u = Clean(t, n)
  PROVE  Cleaned(t, u)
<1>. DEFINE gone == {n} \cup {m \in Nodes : t.up[m] = n}
<1>0. DOMAIN t = Parts /\ DOMAIN t.priv = Nodes
  BY DEF Page
<1>1. /\ u.priv = [m \in Nodes |-> IF m \in gone THEN NoData ELSE t.priv[m]]
      /\ u.listening = t.listening \ gone /\ SameRest(t, u)
  BY <1>0 DEF Clean, Parts, SameRest
<1>. HIDE DEF gone
<1>2. \A m \in Nodes : u.priv[m] = IF m \in gone THEN NoData ELSE t.priv[m]
  BY <1>1
<1>3. Page(u)
  <2>1. DOMAIN u.priv = Nodes /\ \A m \in Nodes : IsData(u.priv[m])
    BY <1>1, <1>2, NoDataOK DEF Page
  <2>. QED  BY <1>1, <2>1 DEF Page, SameRest
<1>4. ListsInv(u)
  <2>1. NoData.list = <<>>
    BY DEF NoData
  <2>. QED  BY <1>1, <1>2, <2>1, NoDataOK DEF ListsInv
<1>. QED  BY <1>1, <1>2, <1>3, <1>4 DEF Cleaned

-----------------------------------------------------------------------------
(* A clone. *)
Copied(t, n, c, u) ==
  /\ Page(u) /\ ListsInv(u) /\ SameRest(t, u)
  /\ \A m \in Nodes \ {c} : u.priv[m] = t.priv[m]
  /\ \A i \in DOMAIN u.priv[c].list :
       u.priv[c].list[i] = Lever \/ Handles(u.priv[c].list[i], t, n)
  /\ HasLength(u.priv[c].click) => u.priv[c].list = <<>>
IsAdding(g, bare, c, list, n) ==
  g = [i \in 0..n |-> IF i = 0 THEN bare ELSE Add(g[i - 1], c, list[i])]

LEMMA AddingExists ==
  ASSUME NEW bare, NEW c, NEW list, NEW n \in Nat
  PROVE  \E g : IsAdding(g, bare, c, list, n)
<1>. DEFINE T == {k \in 0..n : \E g : IsAdding(g, bare, c, list, k)}
<1>1. 0 \in T
  <2>1. IsAdding([k \in 0..0 |-> bare], bare, c, list, 0)
    BY DEF IsAdding
  <2>. QED  BY <2>1
<1>2. ASSUME NEW k \in 1..n, k - 1 \in T PROVE k \in T
  <2>1. PICK g : IsAdding(g, bare, c, list, k - 1)
    BY <1>2
  <2>. DEFINE h == [i \in 0..k |-> IF i <= k - 1 THEN g[i] ELSE Add(g[k - 1], c, list[k])]
  <2>2. \A i \in 0..(k - 1) : g[i] = IF i = 0 THEN bare ELSE Add(g[i - 1], c, list[i])
    BY <2>1 DEF IsAdding
  <2>3. \A i \in 0..k : h[i] = IF i = 0 THEN bare ELSE Add(h[i - 1], c, list[i])
    BY <2>2
  <2>4. h = [i \in 0..k |-> h[i]]
    OBVIOUS
  <2>. HIDE DEF h
  <2>5. IsAdding(h, bare, c, list, k)
    BY <2>3, <2>4 DEF IsAdding
  <2>. QED  BY <2>5
<1>. HIDE DEF T
<1>3. 0..n \subseteq T
  BY <1>1, <1>2, UpTo
<1>. QED  BY <1>3 DEF T

LEMMA CopyKeeps ==
  ASSUME NEW t, Page(t), ListsInv(t), NEW n \in Nodes, NEW c \in Boxes, t.priv[c] = NoData, n # c,
         NEW u, u = CopyEvents(t, n, c)
  PROVE  Copied(t, n, c, u)
<1>. DEFINE from == t.priv[n]
            list == from.list
            m == Len(list)
            bare == [t EXCEPT !.priv[c] = [NoData EXCEPT !.click = from.click]]
            W(w, k) ==
              /\ Page(w) /\ ListsInv(w) /\ SameRest(t, w)
              /\ \A l \in Nodes \ {c} : w.priv[l] = t.priv[l]
              /\ \A i \in DOMAIN w.priv[c].list :
                   w.priv[c].list[i] = Lever \/ Handles(w.priv[c].list[i], t, n)
              /\ k > 0 => w.priv[c].click = Unset
              /\ k = 0 <=> w.priv[c].list = <<>>
<1>0. /\ DOMAIN t = Parts /\ DOMAIN t.priv = Nodes /\ IsData(from) /\ c \in Nodes
      /\ list \in Seq(Own) /\ m \in Nat /\ DOMAIN list = 1..m /\ IsClick(from.click)
      /\ NoData.list = <<>> /\ c \notin t.listening
  BY DEF Page, IsData, Nodes, ListsInv, NoData
<1>1. PICK g : IsAdding(g, bare, c, list, m) /\ u = g[m]
  <2>. DEFINE f == CHOOSE g : IsAdding(g, bare, c, list, m)
  <2>1. IsAdding(f, bare, c, list, m)
    BY <1>0, AddingExists
  <2>2. u = f[m]
    BY DEF CopyEvents, IsAdding
  <2>. QED  BY <2>1, <2>2
<1>2. \A i \in 0..m : g[i] = IF i = 0 THEN bare ELSE Add(g[i - 1], c, list[i])
  BY <1>1 DEF IsAdding
<1>3. W(bare, 0)
  <2>. DEFINE r == [NoData EXCEPT !.click = from.click]
  <2>1. /\ DOMAIN r = {"list", "delegates", "click"} /\ r.list = <<>> /\ r.delegates = 0
        /\ r.click = from.click
    BY DEF NoData
  <2>. HIDE DEF r
  <2>2. IsData(r) /\ ListOK(r, c)
    BY <1>0, <2>1 DEF IsData, ListOK
  <2>3. bare = [t EXCEPT !.priv[c] = r]
    BY DEF r
  <2>. HIDE DEF bare
  <2>4. /\ bare.priv = [t.priv EXCEPT ![c] = r] /\ bare.listening = t.listening /\ SameRest(t, bare)
    BY <1>0, <2>3 DEF Parts, SameRest
  <2>5. /\ bare.priv[c] = r /\ DOMAIN bare.priv = Nodes
        /\ \A l \in Nodes \ {c} : bare.priv[l] = t.priv[l]
    BY <1>0, <2>4
  <2>6. Page(bare)
    <3>1. \A l \in Nodes : IsData(bare.priv[l])
      BY <2>2, <2>5 DEF Page
    <3>. QED  BY <1>0, <2>4, <2>5, <3>1 DEF Page, SameRest
  <2>7. ListsInv(bare)
    BY <1>0, <2>1, <2>2, <2>4, <2>5 DEF ListsInv
  <2>. QED  BY <2>1, <2>4, <2>5, <2>6, <2>7
<1>. HIDE DEF bare
<1>. DEFINE T == {k \in 0..m : W(g[k], k)}
<1>. HIDE DEF m, list
<1>4. 0 \in T
  <2>1. 0 \in 0..m
    BY <1>0
  <2>2. g[0] = bare
    BY <1>2, <2>1
  <2>3. W(g[0], 0)
    BY <1>3, <2>2, Zenon
  <2>. QED  BY <2>1, <2>3, Zenon DEF T
<1>5. ASSUME NEW k \in 1..m, k - 1 \in T PROVE k \in T
  <2>. DEFINE r == g[k - 1]
              w == g[k]
  <2>1. W(r, k - 1)
    BY <1>5
  <2>2. w = Add(r, c, list[k]) /\ list[k] \in Own /\ k \in 0..m /\ k > 0
    BY <1>0, <1>2
  <2>3. Handles(list[k], t, n)
    BY <1>0 DEF Handles, list
  <2>. HIDE DEF r, w
  <2>4. Added(r, c, list[k], w)
    <3>1. Page(r) /\ ListsInv(r)
      BY <2>1
    <3>. HIDE DEF W
    <3>. QED  BY <1>0, <2>2, <3>1, AddKeeps
  <2>5. SameRest(t, w)
    BY <2>1, <2>4 DEF SameRest, Added
  <2>6. \A l \in Nodes \ {c} : w.priv[l] = t.priv[l]
    BY <2>1, <2>4 DEF Added
  <2>7. \A i \in DOMAIN w.priv[c].list :
          w.priv[c].list[i] = Lever \/ Handles(w.priv[c].list[i], t, n)
    <3>. TAKE i \in DOMAIN w.priv[c].list
    <3>1. CASE w.priv[c].list[i] \in {list[k], Lever}
      BY <2>3, <3>1
    <3>2. CASE Handles(w.priv[c].list[i], r, c)
      BY <2>1, <3>2 DEF Handles
    <3>. QED  BY <2>4, <3>1, <3>2 DEF Added
  <2>8. w.priv[c].click = Unset
    <3>1. k - 1 = 0 \/ k - 1 > 0
      OBVIOUS
    <3>. QED  BY <2>1, <2>4, <3>1 DEF Added
  <2>9. W(w, k)
    <3>1. Page(w) /\ ListsInv(w) /\ w.priv[c].list # <<>>
      BY <2>4 DEF Added
    <3>. QED  BY <2>2, <2>5, <2>6, <2>7, <2>8, <3>1
  <2>. QED  BY <2>2, <2>9 DEF w
<1>. HIDE DEF T
<1>6. m \in T
  <2>1. m \in Nat
    BY <1>0
  <2>2. 0..m \subseteq T
    BY <1>4, <1>5, <2>1, UpTo, Zenon
  <2>. QED  BY <2>1, <2>2
<1>7. W(u, m) /\ m \in Nat
  BY <1>0, <1>1, <1>6 DEF T, m
<1>8. HasLength(u.priv[c].click) => u.priv[c].list = <<>>
  <2>1. ~HasLength(Unset)
    BY DEF HasLength, Unset
  <2>2. m = 0 \/ m > 0
    BY <1>7
  <2>. QED  BY <1>7, <2>1, <2>2
<1>. QED  BY <1>7, <1>8 DEF Copied

-----------------------------------------------------------------------------
(* Stacks.  Reach: how many events there are, or were when it began. *)
Reach(f) == IF HasEvent(f) THEN f.ev ELSE f.made
Under(f, g) == (Mine(g) => Reach(f) < g.ev) /\ (~HasEvent(g) => Reach(f) <= g.made)
(* Each of the first c events is owned by one frame, and no frame is for an
   event made after it. *)
Numbered(q, c) ==
  /\ \A k \in DOMAIN q : Reach(q[k]) <= c /\ (HasEvent(q[k]) => Reach(q[k]) > 0)
  /\ \A k \in DOMAIN q : \A j \in 1..(k - 1) : Under(q[j], q[k])
  /\ \A e \in 1..c : \E k \in DOMAIN q : Mine(q[k]) /\ q[k].ev = e

(* A node is in inClick as long as its click method is on the stack, which is
   once at most. *)
Clicking(q, clicked) ==
  /\ \A n \in clicked : \E k \in DOMAIN q : Method(q[k], n)
  /\ \A k \in DOMAIN q : \A n : Method(q[k], n) => n \in clicked
  /\ \A k, j \in DOMAIN q : \A n : Method(q[k], n) /\ Method(q[j], n) => k = j

(* jQuery.event.triggered is set under the default action of a trigger only. *)
Guarded(q) ==
  LET m == Len(q)
  IN m > 0 /\ (q[m].at = "triggered" \/ (m > 1 /\ q[m].at = "native" /\ q[m - 1].at = "triggered"))
(* A handler runs in the dispatch of its event; what interrupts a controller
   is the click method of its node. *)
Follows(q) ==
  \A k \in DOMAIN q :
    /\ q[k].at = "user" => k > 1 /\ q[k - 1].at = "dispatch" /\ q[k - 1].ev = q[k].ev
    /\ q[k].at = "interrupted" /\ k < Len(q) => Method(q[k + 1], q[k].n)

(* The function of one() that runs is let go: it is not in the list of the node
   any more, and no dispatch at this node that began later has it. *)
InQueue(h, f) == \E k \in DOMAIN f.queue : \E m \in DOMAIN f.queue[k].todo : f.queue[k].todo[m] = h
Holds(priv, n, h) == \E j \in DOMAIN priv[n].list : priv[n].list[j] = h
Let(q, priv, i) ==
  /\ ~Holds(priv, q[i - 1].n, q[i].h)
  /\ \A j \in DOMAIN q : j > i /\ q[j].at = "dispatch" /\ q[j].n = q[i - 1].n => ~InQueue(q[i].h, q[j])
LetGo(q, priv) == \A i \in DOMAIN q : q[i].at = "user" /\ q[i].h.one => Let(q, priv, i)

(* The controller is called for boxes only, and what it has kept belongs to one
   of its calls that is still under way. *)
Interrupted(f, n, e) == f.at = "interrupted" /\ f.n = n /\ f.ev = e
Wired(q, priv) ==
  /\ \A k \in DOMAIN q : q[k].at = "dispatch" => QueueOK(q[k])
  /\ \A n \in Boxes : HasLength(priv[n].click) =>
       \/ \E k \in DOMAIN q : Interrupted(q[k], n, priv[n].click.ev)
       \/ priv[n].list = <<>> /\ \A k \in DOMAIN q : q[k].at = "dispatch" => q[k].n # n

(* A frame that stands for another. *)
Same(f, g) ==
  /\ g.at = f.at \/ (f.at = "trigger" /\ g.at = "triggered")
  /\ Reach(g) = Reach(f) /\ (Mine(g) <=> Mine(f))
  /\ \A n : Method(g, n) <=> Method(f, n)
  /\ f.at \in {"dispatch", "interrupted"} => g.n = f.n
  /\ f.at = "user" => g.h = f.h
  /\ f.at = "dispatch" => (\A h : InQueue(h, g) => InQueue(h, f)) /\ (QueueOK(f) => QueueOK(g))
Alike(q, r) == Len(r) = Len(q) /\ \A k \in DOMAIN q : Same(q[k], r[k])

Stacked(q, c, clicked) == Numbered(q, c) /\ Clicking(q, clicked) /\ Follows(q)

LEMMA SameSelf == \A f : Same(f, f)
BY DEF Same

LEMMA Reaches ==
  ASSUME NEW f \in Frame
  PROVE  /\ Reach(f) \in Nat /\ (HasEvent(f) => Reach(f) = f.ev)
         /\ (~HasEvent(f) => Reach(f) = f.made /\ f.at = "native" /\ f.method \in BOOLEAN)
         /\ (Mine(f) => HasEvent(f)) /\ (f.at = "native" => ~Mine(f) /\ ~HasEvent(f))
         /\ (\A n : Method(f, n) => f.at = "native" /\ f.n = n)
<1>1. f.at # "native" => f.ev \in Nat
  BY Kinds
<1>2. f.at = "native" => f \in NativeFrame
  BY Kinds
<1>3. f.at = "native" => f.made \in Nat /\ f.method \in BOOLEAN
  BY <1>2 DEF NativeFrame
<1>. QED  BY <1>1, <1>3 DEF Reach, HasEvent, Mine, Method

LEMMA AlikeStacked ==
  ASSUME NEW q \in Seq(Frame), NEW r \in Seq(Frame), Alike(q, r), NEW c \in Nat, NEW clicked,
         Stacked(q, c, clicked)
  PROVE  Stacked(r, c, clicked) /\ (Guarded(q) => Guarded(r))
<1>1. /\ DOMAIN q = 1..Len(q) /\ DOMAIN r = DOMAIN q /\ Len(r) = Len(q) /\ Len(q) \in Nat
      /\ \A k \in DOMAIN q : Same(q[k], r[k])
  BY DEF Alike
<1>2. \A k \in DOMAIN q : /\ Reach(r[k]) = Reach(q[k]) /\ (HasEvent(r[k]) <=> HasEvent(q[k]))
                          /\ (Mine(r[k]) <=> Mine(q[k]))
                          /\ (\A n : Method(r[k], n) <=> Method(q[k], n))
  BY <1>1 DEF Same, HasEvent
<1>3. \A k \in DOMAIN q : HasEvent(q[k]) => r[k].ev = q[k].ev
  BY <1>2 DEF Reach
<1>4. \A k \in DOMAIN q : ~HasEvent(q[k]) => r[k].made = q[k].made
  BY <1>2 DEF Reach
<1>5. \A k \in DOMAIN q : Mine(q[k]) => HasEvent(q[k])
  BY DEF Mine, HasEvent
<1>6. Numbered(r, c)
  <2>1. \A k \in DOMAIN r : Reach(r[k]) <= c /\ (HasEvent(r[k]) => Reach(r[k]) > 0)
    BY <1>1, <1>2 DEF Stacked, Numbered
  <2>2. ASSUME NEW k \in DOMAIN r, NEW j \in 1..(k - 1) PROVE Under(r[j], r[k])
    <3>1. j \in DOMAIN q /\ k \in DOMAIN q
      BY <1>1
    <3>2. Under(q[j], q[k])
      BY <3>1 DEF Stacked, Numbered
    <3>. QED  BY <1>2, <1>3, <1>4, <1>5, <3>1, <3>2 DEF Under
  <2>3. ASSUME NEW e \in 1..c PROVE \E k \in DOMAIN r : Mine(r[k]) /\ r[k].ev = e
    <3>1. PICK k \in DOMAIN q : Mine(q[k]) /\ q[k].ev = e
      BY DEF Stacked, Numbered
    <3>. QED  BY <1>1, <1>2, <1>3, <1>5, <3>1
  <2>. QED  BY <2>1, <2>2, <2>3 DEF Numbered
<1>7. Clicking(r, clicked)
  BY <1>1, <1>2 DEF Stacked, Clicking
<1>8. Follows(r)
  <2>. SUFFICES ASSUME NEW k \in DOMAIN q
                PROVE  /\ r[k].at = "user" => k > 1 /\ r[k - 1].at = "dispatch" /\ r[k - 1].ev = r[k].ev
                       /\ r[k].at = "interrupted" /\ k < Len(r) => Method(r[k + 1], r[k].n)
    BY <1>1 DEF Follows
  <2>1. ASSUME r[k].at = "user"
        PROVE  k > 1 /\ r[k - 1].at = "dispatch" /\ r[k - 1].ev = r[k].ev
    <3>1. q[k].at = "user"
      BY <1>1, <2>1 DEF Same
    <3>2. k > 1 /\ q[k - 1].at = "dispatch" /\ q[k - 1].ev = q[k].ev
      BY <3>1 DEF Stacked, Follows
    <3>3. k - 1 \in DOMAIN q
      BY <1>1, <3>2
    <3>4. HasEvent(q[k]) /\ HasEvent(q[k - 1])
      BY <3>1, <3>2 DEF HasEvent
    <3>5. r[k - 1].at = "dispatch"
      BY <1>1, <3>2, <3>3 DEF Same
    <3>. QED  BY <1>3, <3>2, <3>3, <3>4, <3>5
  <2>2. ASSUME r[k].at = "interrupted", k < Len(r) PROVE Method(r[k + 1], r[k].n)
    <3>1. q[k].at = "interrupted" /\ r[k].n = q[k].n
      BY <1>1, <2>2 DEF Same
    <3>2. Method(q[k + 1], q[k].n) /\ k + 1 \in DOMAIN q
      BY <1>1, <2>2, <3>1 DEF Stacked, Follows
    <3>. QED  BY <1>2, <3>1, <3>2
  <2>. QED  BY <2>1, <2>2
<1>9. Guarded(q) => Guarded(r)
  <2>. SUFFICES ASSUME Guarded(q) PROVE Guarded(r)
    OBVIOUS
  <2>. DEFINE m == Len(q)
  <2>1. m > 0 /\ m \in DOMAIN q
    BY <1>1 DEF Guarded
  <2>2. \A k \in DOMAIN q : q[k].at \in {"triggered", "native"} => r[k].at = q[k].at
    BY <1>1 DEF Same
  <2>3. CASE q[m].at = "triggered"
    BY <1>1, <2>1, <2>2, <2>3 DEF Guarded
  <2>4. CASE m > 1 /\ q[m].at = "native" /\ q[m - 1].at = "triggered"
    <3>1. m - 1 \in DOMAIN q
      BY <1>1, <2>4
    <3>. QED  BY <1>1, <2>1, <2>2, <2>4, <3>1 DEF Guarded
  <2>. QED  BY <2>3, <2>4 DEF Guarded
<1>. QED  BY <1>6, <1>7, <1>8, <1>9 DEF Stacked

LEMMA AlikeLetGo ==
  ASSUME NEW q \in Seq(Frame), NEW r \in Seq(Frame), Alike(q, r), NEW priv, LetGo(q, priv), Follows(q)
  PROVE  LetGo(r, priv)
<1>1. /\ DOMAIN q = 1..Len(q) /\ DOMAIN r = DOMAIN q /\ Len(q) \in Nat
      /\ \A k \in DOMAIN q : Same(q[k], r[k])
  BY DEF Alike
<1>. SUFFICES ASSUME NEW i \in DOMAIN q, r[i].at = "user", r[i].h.one PROVE Let(r, priv, i)
  BY <1>1 DEF LetGo
<1>2. q[i].at = "user" /\ r[i].h = q[i].h
  BY <1>1 DEF Same
<1>3. i - 1 \in DOMAIN q /\ q[i - 1].at = "dispatch"
  BY <1>1, <1>2 DEF Follows
<1>4. r[i - 1].n = q[i - 1].n
  BY <1>1, <1>3 DEF Same
<1>5. Let(q, priv, i)
  BY <1>2 DEF LetGo
<1>6. ASSUME NEW j \in DOMAIN r, j > i, r[j].at = "dispatch", r[j].n = r[i - 1].n
      PROVE  ~InQueue(r[i].h, r[j])
  <2>1. Same(q[j], r[j])
    BY <1>1, <1>6
  <2>2. q[j].at = "dispatch" /\ q[j].n = r[j].n
    BY <1>6, <2>1 DEF Same
  <2>3. ~InQueue(q[i].h, q[j])
    BY <1>1, <1>4, <1>5, <1>6, <2>2 DEF Let
  <2>. QED  BY <1>2, <2>1, <2>2, <2>3 DEF Same
<1>. QED  BY <1>2, <1>4, <1>5, <1>6 DEF Let

(* A frame is pushed. *)
Uppermost(q) == q[Len(q)]
LEMMA PushStacked ==
  ASSUME NEW q \in Seq(Frame), NEW f \in Frame, NEW c \in Nat, NEW d \in Nat, NEW clicked, NEW now,
         Stacked(q, c, clicked),
         IF Mine(f) THEN d = c + 1 /\ f.ev = d
                    ELSE d = c /\ Reach(f) <= c /\ (HasEvent(f) => f.ev > 0) /\ (~HasEvent(f) => f.made = c),
         \A n : Method(f, n) => n \notin clicked,
         now = clicked \cup {n \in {f.n} : Method(f, n)},
         f.at = "user" => q # <<>> /\ Uppermost(q).at = "dispatch" /\ Uppermost(q).ev = f.ev,
         q # <<>> /\ Uppermost(q).at = "interrupted" => Method(f, Uppermost(q).n)
  PROVE  Stacked(Append(q, f), d, now)
<1>. DEFINE r == Append(q, f)
            m == Len(q)
<1>1. /\ m \in Nat /\ DOMAIN q = 1..m /\ r \in Seq(Frame) /\ DOMAIN r = 1..(m + 1) /\ Len(r) = m + 1
      /\ \A k \in 1..m : r[k] = q[k]
      /\ r[m + 1] = f /\ (q # <<>> <=> m > 0)
      /\ \A k \in 1..m : q[k] \in Frame
  OBVIOUS
<1>2. /\ \A k \in 1..m : Reach(q[k]) \in Nat /\ Reach(q[k]) <= c
      /\ Reach(f) \in Nat
  BY <1>1, Reaches DEF Stacked, Numbered
<1>3. /\ HasEvent(f) => Reach(f) = f.ev
      /\ ~HasEvent(f) => Reach(f) = f.made
      /\ Mine(f) => HasEvent(f)
  BY Reaches
<1>. HIDE DEF r, m
<1>4. Numbered(r, d)
  <2>1. ASSUME NEW k \in DOMAIN r PROVE Reach(r[k]) <= d /\ (HasEvent(r[k]) => Reach(r[k]) > 0)
    <3>1. CASE k = m + 1
      BY <1>1, <1>2, <1>3, <3>1
    <3>2. CASE k \in 1..m
      <4>1. r[k] = q[k] /\ (HasEvent(q[k]) => Reach(q[k]) > 0) /\ Reach(q[k]) <= c
        BY <1>1, <3>2 DEF Stacked, Numbered
      <4>. QED  BY <1>2, <3>2, <4>1
    <3>. QED  BY <1>1, <3>1, <3>2
  <2>2. ASSUME NEW k \in DOMAIN r, NEW j \in 1..(k - 1) PROVE Under(r[j], r[k])
    <3>0. j \in 1..m /\ r[j] = q[j]
      BY <1>1
    <3>1. CASE k = m + 1
      BY <1>1, <1>2, <1>3, <3>0, <3>1 DEF Under
    <3>2. CASE k \in 1..m
      BY <1>1, <3>0, <3>2 DEF Stacked, Numbered
    <3>. QED  BY <1>1, <3>1, <3>2
  <2>3. ASSUME NEW e \in 1..d PROVE \E k \in DOMAIN r : Mine(r[k]) /\ r[k].ev = e
    <3>1. CASE e \in 1..c
      <4>1. PICK k \in DOMAIN q : Mine(q[k]) /\ q[k].ev = e
        BY <3>1 DEF Stacked, Numbered
      <4>. QED  BY <1>1, <4>1
    <3>2. CASE e \notin 1..c
      <4>1. Mine(f) /\ e = d
        BY <3>2
      <4>. QED  BY <1>1, <4>1
    <3>. QED  BY <3>1, <3>2
  <2>. QED  BY <2>1, <2>2, <2>3 DEF Numbered
<1>5. \A n : Method(f, n) => n = f.n
  BY DEF Method
<1>6. Clicking(r, now)
  <2>1. ASSUME NEW n \in now PROVE \E k \in DOMAIN r : Method(r[k], n)
    <3>1. CASE n \in clicked
      <4>1. PICK k \in DOMAIN q : Method(q[k], n)
        BY <3>1 DEF Stacked, Clicking
      <4>. QED  BY <1>1, <4>1
    <3>2. CASE n \notin clicked
      BY <1>1, <3>2
    <3>. QED  BY <3>1, <3>2
  <2>2. ASSUME NEW k \in DOMAIN r, NEW n, Method(r[k], n) PROVE n \in now
    <3>1. CASE k = m + 1
      BY <1>1, <1>5, <2>2, <3>1
    <3>2. CASE k \in 1..m
      BY <1>1, <2>2, <3>2 DEF Stacked, Clicking
    <3>. QED  BY <1>1, <3>1, <3>2
  <2>3. ASSUME NEW k \in DOMAIN r, NEW j \in DOMAIN r, NEW n, Method(r[k], n), Method(r[j], n) PROVE k = j
    <3>1. \A i \in 1..m : Method(r[i], n) => n \in clicked
      BY <1>1 DEF Stacked, Clicking
    <3>2. CASE k \in 1..m /\ j \in 1..m
      BY <1>1, <2>3, <3>2 DEF Stacked, Clicking
    <3>3. CASE k = m + 1 /\ j \in 1..m
      BY <1>1, <2>3, <3>1, <3>3
    <3>4. CASE j = m + 1 /\ k \in 1..m
      BY <1>1, <2>3, <3>1, <3>4
    <3>. QED  BY <1>1, <3>2, <3>3, <3>4
  <2>. QED  BY <2>1, <2>2, <2>3 DEF Clicking
<1>7. Follows(r)
  <2>. SUFFICES ASSUME NEW k \in DOMAIN r
                PROVE  /\ r[k].at = "user" => k > 1 /\ r[k - 1].at = "dispatch" /\ r[k - 1].ev = r[k].ev
                       /\ r[k].at = "interrupted" /\ k < Len(r) => Method(r[k + 1], r[k].n)
    BY DEF Follows
  <2>1. CASE k = m + 1
    <3>1. m > 0 => r[m] = Uppermost(q) /\ k - 1 = m
      BY <1>1, <2>1 DEF Uppermost, m
    <3>. QED  BY <1>1, <2>1, <3>1
  <2>2. CASE k \in 1..m
    <3>1. r[k] = q[k]
      BY <1>1, <2>2
    <3>2. ASSUME r[k].at = "user" PROVE k > 1 /\ r[k - 1].at = "dispatch" /\ r[k - 1].ev = r[k].ev
      <4>1. k > 1 /\ q[k - 1].at = "dispatch" /\ q[k - 1].ev = q[k].ev
        BY <1>1, <2>2, <3>1, <3>2 DEF Stacked, Follows
      <4>2. r[k - 1] = q[k - 1]
        BY <1>1, <2>2, <4>1
      <4>. QED  BY <3>1, <4>1, <4>2
    <3>3. ASSUME r[k].at = "interrupted", k < Len(r) PROVE Method(r[k + 1], r[k].n)
      <4>1. CASE k = m
        BY <1>1, <3>1, <3>3, <4>1 DEF Uppermost, m
      <4>2. CASE k # m
        <5>1. k < m /\ k + 1 \in 1..m
          BY <1>1, <2>2, <4>2
        <5>2. Method(q[k + 1], q[k].n)
          BY <1>1, <2>2, <3>1, <3>3, <5>1 DEF Stacked, Follows, m
        <5>. QED  BY <1>1, <3>1, <5>1, <5>2
      <4>. QED  BY <4>1, <4>2
    <3>. QED  BY <3>2, <3>3
  <2>. QED  BY <1>1, <2>1, <2>2
<1>. QED  BY <1>4, <1>6, <1>7 DEF Stacked, r

LEMMA PushLetGo ==
  ASSUME NEW q \in Seq(Frame), NEW f \in Frame, NEW priv, LetGo(q, priv), Follows(q),
         f.at = "user" /\ f.h.one => q # <<>> /\ ~Holds(priv, Uppermost(q).n, f.h),
         f.at = "dispatch" => \A h \in Handlers : InQueue(h, f) => Holds(priv, f.n, h)
  PROVE  LetGo(Append(q, f), priv)
<1>. DEFINE r == Append(q, f)
            m == Len(q)
<1>1. /\ m \in Nat /\ DOMAIN q = 1..m /\ r \in Seq(Frame) /\ DOMAIN r = 1..(m + 1)
      /\ \A k \in 1..m : r[k] = q[k]
      /\ r[m + 1] = f /\ (q # <<>> <=> m > 0)
      /\ \A k \in 1..m : q[k] \in Frame
  OBVIOUS
<1>. HIDE DEF r, m
<1>. SUFFICES ASSUME NEW i \in DOMAIN r, r[i].at = "user", r[i].h.one PROVE Let(r, priv, i)
  BY DEF LetGo, r
<1>2. CASE i = m + 1
  <2>1. m > 0 /\ r[i - 1] = Uppermost(q)
    BY <1>1, <1>2 DEF Uppermost, m
  <2>2. ~\E j \in DOMAIN r : j > i
    BY <1>1, <1>2
  <2>. QED  BY <1>1, <1>2, <2>1, <2>2 DEF Let
<1>3. CASE i \in 1..m
  <2>1. r[i] = q[i] /\ i - 1 \in 1..m /\ q[i - 1] = r[i - 1]
    BY <1>1, <1>3 DEF Follows
  <2>2. Let(q, priv, i)
    BY <1>1, <1>3, <2>1 DEF LetGo
  <2>3. q[i].h \in Handlers
    <3>1. q[i] \in UserFrame
      BY <1>1, <1>3, <2>1, Kinds
    <3>. QED  BY <3>1 DEF UserFrame
  <2>4. ASSUME NEW j \in DOMAIN r, j > i, r[j].at = "dispatch", r[j].n = r[i - 1].n
        PROVE  ~InQueue(r[i].h, r[j])
    <3>1. CASE j \in 1..m
      BY <1>1, <2>1, <2>2, <2>4, <3>1 DEF Let
    <3>2. CASE j = m + 1
      BY <1>1, <2>1, <2>2, <2>3, <2>4, <3>2 DEF Let
    <3>. QED  BY <1>1, <3>1, <3>2
  <2>. QED  BY <2>1, <2>2, <2>4 DEF Let
<1>. QED  BY <1>1, <1>2, <1>3

(* The stack is cut. *)
LEMMA CutStacked ==
  ASSUME NEW q \in Seq(Frame), NEW m \in 0..Len(q), NEW c \in Nat, NEW d \in 0..c,
         NEW clicked, NEW now \in SUBSET clicked,
         Stacked(q, c, clicked),
         \A k \in 1..m : Reach(q[k]) <= d,
         \A k \in (m + 1)..Len(q) : Mine(q[k]) => q[k].ev > d,
         \A k \in 1..m : \A n : Method(q[k], n) => n \in now,
         \A k \in (m + 1)..Len(q) : \A n : Method(q[k], n) => n \notin now
  PROVE  Stacked(SubSeq(q, 1, m), d, now)
<1>. DEFINE r == SubSeq(q, 1, m)
            l == Len(q)
<1>1. /\ l \in Nat /\ m \in Nat /\ m <= l /\ DOMAIN q = 1..l /\ r \in Seq(Frame)
      /\ DOMAIN r = 1..m /\ Len(r) = m
      /\ \A k \in 1..m : r[k] = q[k] /\ k \in 1..l
  OBVIOUS
<1>. HIDE DEF r
<1>2. Numbered(r, d)
  <2>1. ASSUME NEW k \in DOMAIN r PROVE Reach(r[k]) <= d /\ (HasEvent(r[k]) => Reach(r[k]) > 0)
    BY <1>1 DEF Stacked, Numbered
  <2>2. ASSUME NEW k \in DOMAIN r, NEW j \in 1..(k - 1) PROVE Under(r[j], r[k])
    <3>1. j \in 1..m
      BY <1>1
    <3>. QED  BY <1>1, <3>1 DEF Stacked, Numbered
  <2>3. ASSUME NEW e \in 1..d PROVE \E k \in DOMAIN r : Mine(r[k]) /\ r[k].ev = e
    <3>1. PICK k \in DOMAIN q : Mine(q[k]) /\ q[k].ev = e
      BY DEF Stacked, Numbered
    <3>2. ~(k \in (m + 1)..Len(q))
      BY <3>1
    <3>3. k \in 1..m
      BY <1>1, <3>2
    <3>. QED  BY <1>1, <3>1, <3>3
  <2>. QED  BY <2>1, <2>2, <2>3 DEF Numbered
<1>3. Clicking(r, now)
  <2>1. ASSUME NEW n \in now PROVE \E k \in DOMAIN r : Method(r[k], n)
    <3>1. PICK k \in DOMAIN q : Method(q[k], n)
      BY DEF Stacked, Clicking
    <3>2. ~(k \in (m + 1)..Len(q))
      BY <3>1
    <3>3. k \in 1..m
      BY <1>1, <3>2
    <3>. QED  BY <1>1, <3>1, <3>3
  <2>2. \A k, j \in DOMAIN r : \A n : Method(r[k], n) /\ Method(r[j], n) => k = j
    BY <1>1 DEF Stacked, Clicking
  <2>3. \A k \in DOMAIN r : \A n : Method(r[k], n) => n \in now
    BY <1>1
  <2>. QED  BY <2>1, <2>2, <2>3 DEF Clicking
<1>4. Follows(r)
  <2>. SUFFICES ASSUME NEW k \in DOMAIN r
                PROVE  /\ r[k].at = "user" => k > 1 /\ r[k - 1].at = "dispatch" /\ r[k - 1].ev = r[k].ev
                       /\ r[k].at = "interrupted" /\ k < Len(r) => Method(r[k + 1], r[k].n)
    BY DEF Follows
  <2>1. k > 1 => k - 1 \in 1..m
    BY <1>1
  <2>2. k < Len(r) => k + 1 \in 1..m /\ k < Len(q)
    BY <1>1
  <2>. QED  BY <1>1, <2>1, <2>2 DEF Stacked, Follows
<1>. QED  BY <1>2, <1>3, <1>4 DEF Stacked, r

LEMMA CutLetGo ==
  ASSUME NEW q \in Seq(Frame), NEW m \in 0..Len(q), NEW priv, LetGo(q, priv), Follows(q)
  PROVE  LetGo(SubSeq(q, 1, m), priv)
<1>. DEFINE r == SubSeq(q, 1, m)
<1>1. /\ Len(q) \in Nat /\ DOMAIN q = 1..Len(q) /\ DOMAIN r = 1..m
      /\ \A k \in 1..m : r[k] = q[k] /\ k \in 1..Len(q)
  OBVIOUS
<1>. HIDE DEF r
<1>. SUFFICES ASSUME NEW i \in DOMAIN r, r[i].at = "user", r[i].h.one PROVE Let(r, priv, i)
  BY DEF LetGo, r
<1>2. i - 1 \in 1..m /\ r[i - 1] = q[i - 1] /\ r[i] = q[i]
  BY <1>1 DEF Follows
<1>3. Let(q, priv, i)
  BY <1>1, <1>2 DEF LetGo
<1>. QED  BY <1>1, <1>2, <1>3 DEF Let

(* The top frame is popped, with its event if it is the frame's own. *)
LEMMA PopStacked ==
  ASSUME NEW q \in Seq(Frame), q # <<>>, NEW c \in Nat, NEW clicked, NEW now, Stacked(q, c, clicked),
         now = clicked \ {n \in {Uppermost(q).n} : Method(Uppermost(q), n)},
         NEW d, d = IF Mine(Uppermost(q)) THEN c - 1 ELSE c
  PROVE  d \in Nat /\ Stacked(SubSeq(q, 1, Len(q) - 1), d, now)
<1>. DEFINE l == Len(q)
            m == l - 1
            f == Uppermost(q)
<1>1. l \in Nat /\ l > 0 /\ DOMAIN q = 1..l /\ m \in 0..l /\ f \in Frame /\ f = q[l] /\ (m + 1)..l = {l}
      /\ l \in 1..l
  BY DEF Uppermost
<1>2. \A k \in 1..l : Reach(q[k]) \in Nat /\ Reach(q[k]) <= c
  <2>1. \A k \in 1..l : q[k] \in Frame
    OBVIOUS
  <2>. QED  BY <1>1, <2>1, Reaches DEF Stacked, Numbered
<1>. HIDE DEF m
<1>3. ASSUME Mine(f) PROVE f.ev = c /\ c > 0 /\ \A k \in 1..m : Reach(q[k]) <= c - 1
  <2>1. HasEvent(f) /\ Reach(f) = f.ev
    BY <1>1, <1>3, Reaches
  <2>2. f.ev \in Nat /\ f.ev <= c /\ f.ev > 0
    BY <1>1, <1>2, <2>1 DEF Stacked, Numbered
  <2>3. \A k \in 1..m : Reach(q[k]) < f.ev
    <3>1. \A k \in 1..m : k \in 1..(l - 1)
      BY <1>1 DEF m
    <3>. QED  BY <1>1, <1>3, <3>1 DEF Stacked, Numbered, Under
  <2>4. PICK k \in DOMAIN q : Mine(q[k]) /\ q[k].ev = c
    BY <2>2 DEF Stacked, Numbered
  <2>5. Reach(q[k]) = c
    BY <2>4 DEF Mine, HasEvent, Reach
  <2>6. k = l
    <3>. SUFFICES ASSUME k # l PROVE FALSE
      OBVIOUS
    <3>1. k \in 1..m
      BY <1>1, <2>4 DEF m
    <3>. QED  BY <2>2, <2>3, <2>5, <3>1
  <2>7. \A i \in 1..m : Reach(q[i]) <= c - 1
    <3>. TAKE i \in 1..m
    <3>1. i \in 1..l
      BY <1>1 DEF m
    <3>. QED  BY <1>2, <2>2, <2>3, <3>1
  <2>. QED  BY <1>1, <2>2, <2>4, <2>6, <2>7
<1>4. d \in 0..c
  BY <1>3
<1>5. \A k \in 1..m : Reach(q[k]) <= d
  <2>1. \A k \in 1..m : k \in 1..l
    BY <1>1 DEF m
  <2>. QED  BY <1>2, <1>3, <2>1
<1>6. \A k \in (m + 1)..Len(q) : Mine(q[k]) => q[k].ev > d
  BY <1>1, <1>3
<1>7. \A n : Method(f, n) => n = f.n
  BY DEF Method
<1>8. \A k \in 1..m : \A n : Method(q[k], n) => n \in now
  <2>. TAKE k \in 1..m
  <2>0. m = l - 1 /\ l \in Nat /\ l > 0
    BY <1>1 DEF m
  <2>. HIDE DEF l
  <2>3. k \in 1..l /\ k # l
    BY <2>0
  <2>1. k \in DOMAIN q /\ k # l /\ l \in DOMAIN q
    BY <1>1, <2>3 DEF l
  <2>2. ASSUME NEW n, Method(q[k], n) PROVE n \in clicked /\ ~Method(f, n)
    BY <1>1, <2>1, <2>2 DEF Stacked, Clicking
  <2>. QED  BY <2>2
<1>9. \A k \in (m + 1)..Len(q) : \A n : Method(q[k], n) => n \notin now
  <2>. TAKE k \in (m + 1)..Len(q)
  <2>1. q[k] = f
    BY <1>1
  <2>. QED  BY <1>7, <2>1
<1>10. now \in SUBSET clicked
  OBVIOUS
<1>. HIDE DEF f
<1>11. Stacked(SubSeq(q, 1, m), d, now)
  BY <1>1, <1>4, <1>5, <1>6, <1>8, <1>9, <1>10, CutStacked
<1>. QED  BY <1>4, <1>11 DEF m

-----------------------------------------------------------------------------
LEMMA AlikeWired ==
  ASSUME NEW q \in Seq(Frame), NEW r \in Seq(Frame), Alike(q, r), NEW priv, Wired(q, priv)
  PROVE  Wired(r, priv)
<1>1. DOMAIN r = DOMAIN q /\ \A k \in DOMAIN q : Same(q[k], r[k])
  BY DEF Alike
<1>2. \A k \in DOMAIN q : r[k].at = "dispatch" => q[k].at = "dispatch" /\ r[k].n = q[k].n
  BY <1>1 DEF Same
<1>3. \A k \in DOMAIN q : \A n, e : Interrupted(q[k], n, e) => Interrupted(r[k], n, e)
  <2>. TAKE k \in DOMAIN q
  <2>. SUFFICES ASSUME q[k].at = "interrupted" PROVE r[k].at = "interrupted" /\ r[k].n = q[k].n /\ r[k].ev = q[k].ev
    BY DEF Interrupted
  <2>1. r[k].at = "interrupted" /\ r[k].n = q[k].n /\ Reach(r[k]) = Reach(q[k])
    BY <1>1 DEF Same
  <2>. QED  BY <2>1 DEF Reach, HasEvent
<1>4. \A k \in DOMAIN r : r[k].at = "dispatch" => QueueOK(r[k])
  BY <1>1, <1>2 DEF Wired, Same
<1>. QED  BY <1>1, <1>2, <1>3, <1>4 DEF Wired

LEMMA PushWired ==
  ASSUME NEW q \in Seq(Frame), NEW f \in Frame, NEW priv, Wired(q, priv),
         f.at = "dispatch" => QueueOK(f) /\ priv[f.n].list # <<>>
  PROVE  Wired(Append(q, f), priv)
<1>. DEFINE r == Append(q, f)
            m == Len(q)
<1>1. /\ m \in Nat /\ DOMAIN q = 1..m /\ DOMAIN r = 1..(m + 1)
      /\ \A k \in 1..m : r[k] = q[k]
      /\ r[m + 1] = f
  OBVIOUS
<1>. HIDE DEF r, m
<1>2. \A k \in DOMAIN r : k = m + 1 \/ (k \in DOMAIN q /\ r[k] = q[k])
  BY <1>1
<1>3. \A k \in DOMAIN q : k \in DOMAIN r /\ r[k] = q[k]
  BY <1>1
<1>4. \A k \in DOMAIN r : r[k].at = "dispatch" => QueueOK(r[k])
  BY <1>1, <1>2 DEF Wired
<1>5. ASSUME NEW n \in Boxes, HasLength(priv[n].click)
      PROVE  \/ \E k \in DOMAIN r : Interrupted(r[k], n, priv[n].click.ev)
             \/ priv[n].list = <<>> /\ \A k \in DOMAIN r : r[k].at = "dispatch" => r[k].n # n
  BY <1>1, <1>2, <1>3, <1>5 DEF Wired
<1>. QED  BY <1>4, <1>5 DEF Wired, r

LEMMA CutWired ==
  ASSUME NEW q \in Seq(Frame), NEW m \in 0..Len(q), NEW priv, Wired(q, priv),
         \A k \in (m + 1)..Len(q) : q[k].at = "interrupted" => ~HasLength(priv[q[k].n].click)
  PROVE  Wired(SubSeq(q, 1, m), priv)
<1>. DEFINE r == SubSeq(q, 1, m)
<1>1. /\ Len(q) \in Nat /\ DOMAIN q = 1..Len(q) /\ DOMAIN r = 1..m
      /\ \A k \in 1..m : r[k] = q[k] /\ k \in DOMAIN q
  OBVIOUS
<1>2. \A k \in DOMAIN q : k \in 1..m \/ k \in (m + 1)..Len(q)
  BY <1>1
<1>. HIDE DEF r
<1>3. ASSUME NEW n \in Boxes, HasLength(priv[n].click), NEW k \in DOMAIN q,
             Interrupted(q[k], n, priv[n].click.ev)
      PROVE  k \in 1..m
  BY <1>2, <1>3 DEF Interrupted
<1>4. \A k \in DOMAIN r : r[k].at = "dispatch" => QueueOK(r[k])
  BY <1>1 DEF Wired
<1>5. ASSUME NEW n \in Boxes, HasLength(priv[n].click)
      PROVE  \/ \E k \in DOMAIN r : Interrupted(r[k], n, priv[n].click.ev)
             \/ priv[n].list = <<>> /\ \A k \in DOMAIN r : r[k].at = "dispatch" => r[k].n # n
  <2>1. CASE \E k \in DOMAIN q : Interrupted(q[k], n, priv[n].click.ev)
    BY <1>1, <1>3, <1>5, <2>1
  <2>2. CASE priv[n].list = <<>> /\ \A k \in DOMAIN q : q[k].at = "dispatch" => q[k].n # n
    BY <1>1, <2>2
  <2>. QED  BY <1>5, <2>1, <2>2 DEF Wired
<1>. QED  BY <1>4, <1>5 DEF Wired, r

(* The invariant of a page t: the first c events belong to frames, one more may
   be on its way to one. *)
Good(t, c) ==
  /\ Page(t) /\ ListsInv(t) /\ c \in Nat /\ c <= Len(t.events)
  /\ Stacked(t.stack, c, t.inClick) /\ (t.triggered => Guarded(t.stack))
  /\ Wired(t.stack, t.priv) /\ (~t.rebound => LetGo(t.stack, t.priv))

(* Flags of events and frames are set. *)
Flags(t, u) ==
  /\ Page(u) /\ u.priv = t.priv /\ u.listening = t.listening /\ u.inClick = t.inClick
  /\ u.triggered = t.triggered /\ u.rebound = t.rebound
  /\ Len(u.events) = Len(t.events) /\ Alike(t.stack, u.stack)

LEMMA FlagsKeep ==
  ASSUME NEW t, NEW u, NEW c, Good(t, c), Flags(t, u)
  PROVE  Good(u, c)
<1>1. t.stack \in Seq(Frame) /\ u.stack \in Seq(Frame) /\ c \in Nat
  BY DEF Good, Flags, Page
<1>2. Stacked(u.stack, c, u.inClick) /\ (Guarded(t.stack) => Guarded(u.stack))
  BY <1>1, AlikeStacked DEF Good, Flags
<1>3. ~u.rebound => LetGo(u.stack, u.priv)
  BY <1>1, AlikeLetGo DEF Good, Flags, Stacked
<1>4. ListsInv(u)
  BY DEF Good, Flags, ListsInv
<1>5. Wired(u.stack, u.priv)
  BY <1>1, AlikeWired DEF Good, Flags
<1>. QED  BY <1>2, <1>3, <1>4, <1>5 DEF Good, Flags

OnlyEvents(t, u) ==
  /\ DOMAIN u = DOMAIN t /\ u.up = t.up /\ u.priv = t.priv /\ u.listening = t.listening
  /\ u.checked = t.checked /\ u.inClick = t.inClick
  /\ u.triggered = t.triggered /\ u.stack = t.stack
  /\ u.threw = t.threw /\ u.unclaimed = t.unclaimed /\ u.rebound = t.rebound

LEMMA AlikeSelf == \A q : Alike(q, q)
BY SameSelf DEF Alike

LEMMA EventSet ==
  ASSUME NEW t, Page(t), NEW ev \in DOMAIN t.events, NEW e \in Event,
         NEW u, u = [t EXCEPT !.events[ev] = e]
  PROVE  /\ OnlyEvents(t, u) /\ Flags(t, u) /\ u.events = [t.events EXCEPT ![ev] = e]
         /\ DOMAIN u.events = DOMAIN t.events
<1>1. DOMAIN t = Parts /\ t.events \in Seq(Event)
  BY DEF Page
<1>2. OnlyEvents(t, u) /\ u.events = [t.events EXCEPT ![ev] = e]
  BY <1>1 DEF OnlyEvents, Parts
<1>3. u.events \in Seq(Event) /\ Len(u.events) = Len(t.events) /\ DOMAIN u.events = DOMAIN t.events
  BY <1>1, <1>2
<1>4. Page(u)
  BY <1>2, <1>3 DEF Page, OnlyEvents
<1>. QED  BY <1>2, <1>3, <1>4, AlikeSelf DEF Flags, OnlyEvents

(* The flags of a native click are set by its events. *)
LEMMA MarkFrame ==
  ASSUME NEW f \in Frame,
         NEW g, g = [f EXCEPT !.prevented = TRUE] \/ g = [f EXCEPT !.stopped = TRUE]
  PROVE  g \in Frame /\ Same(f, g)
<1>1. CASE f \in NativeFrame
  <2>1. /\ g \in NativeFrame /\ g.at = f.at /\ g.n = f.n /\ g.made = f.made /\ g.method = f.method
    BY <1>1 DEF NativeFrame
  <2>2. f.at = "native"
    BY <1>1 DEF NativeFrame
  <2>. QED  BY <2>1, <2>2 DEF Same, Frame, Reach, HasEvent, Mine, Method
<1>2. CASE f \in DispatchFrame
  <2>1. g = f
    BY <1>2 DEF DispatchFrame
  <2>. QED  BY <2>1, SameSelf
<1>3. CASE f \in TriggerFrame
  <2>1. g = f
    BY <1>3 DEF TriggerFrame
  <2>. QED  BY <2>1, SameSelf
<1>4. CASE f \in TriggeredFrame
  <2>1. g = f
    BY <1>4 DEF TriggeredFrame
  <2>. QED  BY <2>1, SameSelf
<1>5. CASE f \in LeverFrame
  <2>1. g = f
    BY <1>5 DEF LeverFrame
  <2>. QED  BY <2>1, SameSelf
<1>6. CASE f \in UserFrame
  <2>1. g = f
    BY <1>6 DEF UserFrame
  <2>. QED  BY <2>1, SameSelf
<1>. QED  BY <1>1, <1>2, <1>3, <1>4, <1>5, <1>6 DEF Frame

OnlyStack(t, u) ==
  /\ DOMAIN u = DOMAIN t /\ u.up = t.up /\ u.priv = t.priv /\ u.listening = t.listening
  /\ u.checked = t.checked /\ u.inClick = t.inClick /\ u.events = t.events
  /\ u.triggered = t.triggered
  /\ u.threw = t.threw /\ u.unclaimed = t.unclaimed /\ u.rebound = t.rebound

LEMMA StackSet ==
  ASSUME NEW t, Page(t), NEW q \in Seq(Frame), NEW u, u = [t EXCEPT !.stack = q]
  PROVE  OnlyStack(t, u) /\ u.stack = q /\ Page(u)
<1>1. DOMAIN t = Parts
  BY DEF Page
<1>2. OnlyStack(t, u) /\ u.stack = q
  BY <1>1 DEF OnlyStack, Parts
<1>. QED  BY <1>2 DEF Page, OnlyStack

LEMMA Nested ==
  ASSUME NEW t, NEW ev
  PROVE  /\ \A g : [t EXCEPT !.stack[ev] = g] = [t EXCEPT !.stack = [t.stack EXCEPT ![ev] = g]]
         /\ [t EXCEPT !.events[ev].prevented = TRUE]
              = [t EXCEPT !.events[ev] = [t.events[ev] EXCEPT !.prevented = TRUE]]
         /\ [t EXCEPT !.events[ev].stopped = TRUE]
              = [t EXCEPT !.events[ev] = [t.events[ev] EXCEPT !.stopped = TRUE]]
         /\ [t EXCEPT !.events[ev].immediate = TRUE]
              = [t EXCEPT !.events[ev] = [t.events[ev] EXCEPT !.immediate = TRUE]]
BY Zenon

LEMMA MarkStack ==
  ASSUME NEW t, Page(t), NEW i,
         NEW u, \/ u = [t EXCEPT !.stack[i].prevented = TRUE] \/ u = [t EXCEPT !.stack[i].stopped = TRUE]
  PROVE  OnlyStack(t, u) /\ Flags(t, u)
<1>0. PICK g : /\ g = [t.stack[i] EXCEPT !.prevented = TRUE] \/ g = [t.stack[i] EXCEPT !.stopped = TRUE]
               /\ u = [t EXCEPT !.stack[i] = g]
  <2>1. [t EXCEPT !.stack[i].prevented = TRUE] = [t EXCEPT !.stack[i] = [t.stack[i] EXCEPT !.prevented = TRUE]]
    BY Zenon
  <2>2. [t EXCEPT !.stack[i].stopped = TRUE] = [t EXCEPT !.stack[i] = [t.stack[i] EXCEPT !.stopped = TRUE]]
    BY Zenon
  <2>. QED  BY <2>1, <2>2, Zenon
<1>. DEFINE q == [t.stack EXCEPT ![i] = g]
<1>1. t.stack \in Seq(Frame)
  BY DEF Page
<1>2. i \in DOMAIN t.stack => g \in Frame /\ Same(t.stack[i], g)
  BY <1>0, <1>1, MarkFrame
<1>3. u = [t EXCEPT !.stack = q]
  BY <1>0, Nested, Zenon
<1>4. q \in Seq(Frame) /\ Len(q) = Len(t.stack)
  <2>1. CASE i \in DOMAIN t.stack
    BY <1>1, <1>2, <2>1
  <2>2. CASE i \notin DOMAIN t.stack
    <3>1. q = [k \in DOMAIN t.stack |-> t.stack[k]]
      BY <2>2
    <3>2. t.stack = [k \in DOMAIN t.stack |-> t.stack[k]]
      BY <1>1
    <3>. QED  BY <1>1, <3>1, <3>2
  <2>. QED  BY <2>1, <2>2
<1>5. \A k \in DOMAIN t.stack : q[k] = IF k = i THEN g ELSE t.stack[k]
  BY <1>1
<1>6. Alike(t.stack, q)
  BY <1>2, <1>4, <1>5, SameSelf DEF Alike
<1>. HIDE DEF q
<1>7. OnlyStack(t, u) /\ u.stack = q /\ Page(u)
  BY <1>3, <1>4, StackSet
<1>. QED  BY <1>6, <1>7 DEF Flags, OnlyStack

LEMMA FlagsTrans ==
  ASSUME NEW t, NEW u, NEW v, Flags(t, u), Flags(u, v), Page(t)
  PROVE  Flags(t, v)
<1>1. t.stack \in Seq(Frame) /\ u.stack \in Seq(Frame) /\ v.stack \in Seq(Frame)
  BY DEF Flags, Page
<1>2. Len(u.stack) = Len(t.stack) /\ Len(v.stack) = Len(t.stack) /\ DOMAIN u.stack = DOMAIN t.stack
  BY <1>1 DEF Flags, Alike
<1>3. \A k \in DOMAIN t.stack : Same(t.stack[k], u.stack[k]) /\ Same(u.stack[k], v.stack[k])
  BY <1>2 DEF Flags, Alike
<1>4. \A f, g, h : Same(f, g) /\ Same(g, h) => Same(f, h)
  BY DEF Same
<1>5. Alike(t.stack, v.stack)
  BY <1>2, <1>3, <1>4 DEF Alike
<1>. QED  BY <1>5 DEF Flags

(* preventDefault(), stopPropagation(), stopImmediatePropagation(). *)
LEMMA PreventFlags ==
  ASSUME NEW t, Page(t), NEW ev \in DOMAIN t.events
  PROVE  Flags(t, Prevent(t, ev))
<1>. DEFINE e == [t.events[ev] EXCEPT !.prevented = TRUE]
            u == [t EXCEPT !.events[ev] = e]
<1>1. t.events[ev] \in Event /\ e \in Event
  <2>1. t.events[ev] \in Event
    BY Types
  <2>. QED  BY <2>1 DEF Event
<1>2. Flags(t, u)
  BY <1>1, EventSet
<1>3. u = [t EXCEPT !.events[ev].prevented = TRUE]
  BY Nested, Zenon
<1>. HIDE DEF u
<1>4. CASE t.events[ev].native = 0
  BY <1>2, <1>3, <1>4 DEF Prevent
<1>5. CASE t.events[ev].native # 0
  <2>. DEFINE v == [u EXCEPT !.stack[t.events[ev].native].prevented = TRUE]
  <2>1. Prevent(t, ev) = v
    BY <1>3, <1>5 DEF Prevent
  <2>2. Flags(u, v)
    <3>1. Page(u)
      BY <1>2 DEF Flags
    <3>. QED  BY <3>1, MarkStack
  <2>. QED  BY <1>2, <2>1, <2>2, FlagsTrans
<1>. QED  BY <1>4, <1>5

LEMMA StopFlags ==
  ASSUME NEW t, Page(t), NEW ev \in DOMAIN t.events
  PROVE  Flags(t, StopPropagation(t, ev))
<1>. DEFINE e == [t.events[ev] EXCEPT !.stopped = TRUE]
            u == [t EXCEPT !.events[ev] = e]
<1>1. t.events[ev] \in Event /\ e \in Event
  <2>1. t.events[ev] \in Event
    BY Types
  <2>. QED  BY <2>1 DEF Event
<1>2. Flags(t, u)
  BY <1>1, EventSet
<1>3. u = [t EXCEPT !.events[ev].stopped = TRUE]
  BY Nested, Zenon
<1>. HIDE DEF u
<1>4. CASE t.events[ev].native = 0
  BY <1>2, <1>3, <1>4 DEF StopPropagation
<1>5. CASE t.events[ev].native # 0
  <2>. DEFINE v == [u EXCEPT !.stack[t.events[ev].native].stopped = TRUE]
  <2>1. StopPropagation(t, ev) = v
    BY <1>3, <1>5 DEF StopPropagation
  <2>2. Flags(u, v)
    <3>1. Page(u)
      BY <1>2 DEF Flags
    <3>. QED  BY <3>1, MarkStack
  <2>. QED  BY <1>2, <2>1, <2>2, FlagsTrans
<1>. QED  BY <1>4, <1>5

LEMMA FlagsDomain ==
  ASSUME NEW t, NEW u, Page(t), Flags(t, u)
  PROVE  Page(u) /\ DOMAIN u.events = DOMAIN t.events
<1>1. Page(u) /\ t.events \in Seq(Event) /\ u.events \in Seq(Event)
  BY DEF Flags, Page
<1>. QED  BY <1>1 DEF Flags

LEMMA ImmediateFlags ==
  ASSUME NEW t, Page(t), NEW ev \in DOMAIN t.events
  PROVE  Flags(t, StopImmediate(t, ev))
<1>. DEFINE e == [t.events[ev] EXCEPT !.immediate = TRUE]
            u == [t EXCEPT !.events[ev] = e]
<1>1. t.events[ev] \in Event /\ e \in Event
  <2>1. t.events[ev] \in Event
    BY Types
  <2>. QED  BY <2>1 DEF Event
<1>2. Flags(t, u)
  BY <1>1, EventSet
<1>0. u = [t EXCEPT !.events[ev].immediate = TRUE]
  BY Nested, Zenon
<1>3. StopImmediate(t, ev) = StopPropagation(u, ev)
  BY <1>0, Zenon DEF StopImmediate
<1>. HIDE DEF u
<1>4. Page(u) /\ ev \in DOMAIN u.events
  BY <1>2, FlagsDomain
<1>. QED  BY <1>2, <1>3, <1>4, StopFlags, FlagsTrans

LEMMA CancelledFlags ==
  ASSUME NEW t, Page(t), NEW ev \in DOMAIN t.events
  PROVE  Flags(t, Cancelled(t, ev))
<1>1. Flags(t, StopImmediate(t, ev))
  BY ImmediateFlags
<1>2. Page(StopImmediate(t, ev)) /\ ev \in DOMAIN StopImmediate(t, ev).events
  BY <1>1, FlagsDomain
<1>. QED  BY <1>1, <1>2, PreventFlags, FlagsTrans DEF Cancelled

(* Binding: no function of one() that runs is bound where it was. *)
Loses(t, u) ==
  \A i \in DOMAIN t.stack :
    t.stack[i].at = "user" /\ t.stack[i].h.one
      /\ Holds(u.priv, t.stack[i - 1].n, t.stack[i].h) => Holds(t.priv, t.stack[i - 1].n, t.stack[i].h)

LEMMA DataKeeps ==
  ASSUME NEW t, NEW u, NEW c, Good(t, c), Page(u), ListsInv(u),
         u.stack = t.stack, u.events = t.events, u.inClick = t.inClick, u.triggered = t.triggered,
         Wired(u.stack, u.priv), ~u.rebound => ~t.rebound /\ Loses(t, u)
  PROVE  Good(u, c)
<1>1. ~u.rebound => LetGo(u.stack, u.priv)
  BY DEF Good, Loses, LetGo, Let
<1>. QED  BY <1>1 DEF Good

(* A frame on top. *)
Fits(t, f, c, d) ==
  /\ f \in Frame
  /\ IF Mine(f) THEN d = c + 1 /\ f.ev = d
     ELSE d = c /\ Reach(f) <= c /\ (HasEvent(f) => f.ev > 0) /\ (~HasEvent(f) => f.made = c)
  /\ f.at = "user" => t.stack # <<>> /\ Uppermost(t.stack).at = "dispatch" /\ Uppermost(t.stack).ev = f.ev
  /\ t.stack # <<>> /\ Uppermost(t.stack).at = "interrupted" => Method(f, Uppermost(t.stack).n)
  /\ ~t.rebound /\ f.at = "user" /\ f.h.one => ~Holds(t.priv, Uppermost(t.stack).n, f.h)
  /\ f.at = "dispatch" =>
       /\ \A h \in Handlers : InQueue(h, f) => Holds(t.priv, f.n, h)
       /\ QueueOK(f) /\ t.priv[f.n].list # <<>>

LEMMA FrameOnTop ==
  ASSUME NEW t, NEW u, NEW c, NEW d, NEW f, Good(t, c), Fits(t, f, c, d), d \in Nat, d <= Len(u.events),
         Page(u), u.stack = Append(t.stack, f), u.priv = t.priv, u.listening = t.listening,
         u.rebound = t.rebound, \A n : Method(f, n) => n \notin t.inClick,
         u.inClick = t.inClick \cup {n \in {f.n} : Method(f, n)},
         u.triggered => Guarded(u.stack)
  PROVE  Good(u, d)
<1>1. t.stack \in Seq(Frame) /\ c \in Nat /\ f \in Frame
  BY DEF Good, Page, Fits
<1>2. Stacked(u.stack, d, u.inClick)
  <2>1. f.at = "user" => t.stack # <<>> /\ Uppermost(t.stack).at = "dispatch" /\ Uppermost(t.stack).ev = f.ev
    BY DEF Fits
  <2>2. t.stack # <<>> /\ Uppermost(t.stack).at = "interrupted" => Method(f, Uppermost(t.stack).n)
    BY DEF Fits
  <2>3. IF Mine(f) THEN d = c + 1 /\ f.ev = d
        ELSE d = c /\ Reach(f) <= c /\ (HasEvent(f) => f.ev > 0) /\ (~HasEvent(f) => f.made = c)
    BY DEF Fits
  <2>4. Stacked(t.stack, c, t.inClick)
    BY DEF Good
  <2>. QED  BY <1>1, <2>1, <2>2, <2>3, <2>4, PushStacked
<1>3. ~u.rebound => LetGo(u.stack, u.priv)
  <2>. SUFFICES ASSUME ~u.rebound PROVE LetGo(u.stack, u.priv)
    OBVIOUS
  <2>1. LetGo(t.stack, t.priv) /\ Follows(t.stack)
    BY DEF Good, Stacked
  <2>2. f.at = "user" /\ f.h.one => t.stack # <<>> /\ ~Holds(t.priv, Uppermost(t.stack).n, f.h)
    BY DEF Fits
  <2>3. f.at = "dispatch" => \A h \in Handlers : InQueue(h, f) => Holds(t.priv, f.n, h)
    BY DEF Fits
  <2>. QED  BY <1>1, <2>1, <2>2, <2>3, PushLetGo
<1>4. ListsInv(u)
  BY DEF Good, ListsInv
<1>5. Wired(u.stack, u.priv)
  <2>1. f.at = "dispatch" => QueueOK(f) /\ t.priv[f.n].list # <<>>
    BY DEF Fits
  <2>. QED  BY <1>1, <2>1, PushWired DEF Good
<1>. QED  BY <1>2, <1>3, <1>4, <1>5 DEF Good

LEMMA PushIs ==
  ASSUME NEW t, Page(t), NEW f \in Frame
  PROVE  OnlyStack(t, Push(t, f)) /\ Push(t, f).stack = Append(t.stack, f) /\ Page(Push(t, f))
<1>1. Append(t.stack, f) \in Seq(Frame)
  BY DEF Page
<1>. QED  BY <1>1, StackSet DEF Push

LEMMA PushKeeps ==
  ASSUME NEW t, NEW c, NEW d, NEW f, Good(t, c), Fits(t, f, c, d), d <= Len(t.events),
         f.at # "native", ~t.triggered
  PROVE  Good(Push(t, f), d)
<1>1. Page(t) /\ f \in Frame /\ c \in Nat
  BY DEF Good, Fits
<1>2. OnlyStack(t, Push(t, f)) /\ Push(t, f).stack = Append(t.stack, f) /\ Page(Push(t, f))
  BY <1>1, PushIs
<1>3. \A n : ~Method(f, n)
  BY DEF Method
<1>4. d \in Nat
  BY <1>1 DEF Fits
<1>. DEFINE u == Push(t, f)
<1>. HIDE DEF u
<1>5. t.inClick \cup {n \in {f.n} : Method(f, n)} = t.inClick
  BY <1>3
<1>6. /\ Page(u) /\ u.stack = Append(t.stack, f) /\ u.priv = t.priv /\ u.listening = t.listening
      /\ u.rebound = t.rebound /\ u.inClick = t.inClick \cup {n \in {f.n} : Method(f, n)}
      /\ ~u.triggered /\ u.events = t.events
  BY <1>2, <1>5 DEF OnlyStack, u
<1>. QED  BY <1>3, <1>4, <1>6, FrameOnTop DEF u

(* A native click. *)
LEMMA PathTyped ==
  ASSUME NEW t, Page(t), NEW n \in Nodes
  PROVE  PathOf(t, n) \in Seq(Nodes) /\ PathOf(t, n) # <<>> /\ PathOf(t, n)[1] = n
<1>1. \A m \in Nodes : t.up[m] \in Nodes \cup {None}
  BY DEF Page, Nodes
<1>. QED  BY <1>1 DEF PathOf

LEMMA NativeKeeps ==
  ASSUME NEW t, NEW c, Good(t, c), c = Len(t.events), NEW n \in Nodes, NEW method \in BOOLEAN,
         t.triggered => t.stack # <<>> /\ Uppermost(t.stack).at = "triggered",
         t.stack # <<>> /\ Uppermost(t.stack).at = "interrupted" => method /\ Uppermost(t.stack).n = n
  PROVE  Good(Native(t, n, method), c) /\ Native(t, n, method).events = t.events
<1>0. Page(t) /\ c \in Nat /\ DOMAIN t = Parts
  BY DEF Good, Page
<1>1. CASE method /\ n \in t.inClick
  BY <1>1 DEF Native
<1>2. CASE ~(method /\ n \in t.inClick)
  <2>. DEFINE checked == IF n \notin Boxes THEN t.checked
                         ELSE IF n \in t.checked THEN t.checked \ {n} ELSE t.checked \cup {n}
              clicked == IF method THEN t.inClick \cup {n} ELSE t.inClick
              v == [t EXCEPT !.checked = checked, !.inClick = clicked]
              f == [at |-> "native", n |-> n, path |-> PathOf(t, n), method |-> method,
                    stopped |-> FALSE, prevented |-> FALSE, was |-> n \in t.checked,
                    made |-> Len(t.events)]
  <2>1. Native(t, n, method) = Push(v, f)
    BY <1>2 DEF Native
  <2>2. f \in NativeFrame
    BY <1>0, PathTyped DEF NativeFrame
  <2>3. f \in Frame /\ f.at = "native" /\ f.n = n /\ f.method = method /\ f.made = c
    BY <2>2 DEF Frame
  <2>4. /\ DOMAIN v = Parts /\ v.up = t.up /\ v.priv = t.priv /\ v.listening = t.listening
        /\ v.events = t.events /\ v.triggered = t.triggered /\ v.stack = t.stack
        /\ v.threw = t.threw /\ v.unclaimed = t.unclaimed /\ v.rebound = t.rebound
        /\ v.checked = checked /\ v.inClick = clicked
    BY <1>0 DEF Parts
  <2>. HIDE DEF f, v
  <2>5. checked \subseteq Boxes /\ clicked \subseteq Nodes
    BY <1>0 DEF Page
  <2>. HIDE DEF checked
  <2>6. Page(v)
    BY <1>0, <2>4, <2>5 DEF Page
  <2>. DEFINE u == Push(v, f)
  <2>7. OnlyStack(v, u) /\ u.stack = Append(v.stack, f) /\ Page(u)
    BY <2>3, <2>6, PushIs
  <2>. HIDE DEF u
  <2>8. /\ ~Mine(f) /\ ~HasEvent(f) /\ Reach(f) = c
        /\ \A m : Method(f, m) <=> method /\ m = n
    BY <2>3 DEF Mine, HasEvent, Reach, Method
  <2>9. Fits(t, f, c, c)
    BY <1>0, <2>3, <2>8 DEF Fits
  <2>10. u.inClick = t.inClick \cup {m \in {f.n} : Method(f, m)}
    BY <2>3, <2>4, <2>7, <2>8 DEF OnlyStack
  <2>11. \A m : Method(f, m) => m \notin t.inClick
    BY <1>2, <2>8
  <2>12. u.triggered => Guarded(u.stack)
    <3>. SUFFICES ASSUME u.triggered PROVE Guarded(u.stack)
      OBVIOUS
    <3>1. t.stack # <<>> /\ Uppermost(t.stack).at = "triggered" /\ u.stack = Append(t.stack, f)
      BY <2>4, <2>7 DEF OnlyStack
    <3>2. t.stack \in Seq(Frame)
      BY <1>0 DEF Page
    <3>3. /\ Len(u.stack) = Len(t.stack) + 1 /\ Len(t.stack) > 0 /\ Len(t.stack) \in Nat
          /\ u.stack[Len(t.stack)] = t.stack[Len(t.stack)]
          /\ u.stack[Len(t.stack) + 1] = f
      BY <3>1, <3>2
    <3>. QED  BY <2>3, <3>1, <3>3 DEF Guarded, Uppermost
  <2>13. /\ u.stack = Append(t.stack, f) /\ u.priv = t.priv /\ u.listening = t.listening
         /\ u.rebound = t.rebound /\ u.events = t.events
    BY <2>4, <2>7 DEF OnlyStack
  <2>15. c \in Nat /\ c <= Len(u.events) /\ Page(u)
    BY <1>0, <2>7, <2>13
  <2>14. Good(u, c)
    BY <2>9, <2>10, <2>11, <2>12, <2>13, <2>15, FrameOnTop, Zenon
  <2>. QED  BY <2>1, <2>13, <2>14 DEF u
<1>. QED  BY <1>1, <1>2

(* A frame is taken off. *)
LEMMA TopGone ==
  ASSUME NEW t, NEW u, NEW c, NEW d, Good(t, c), t.stack # <<>>,
         Page(u), u.stack = SubSeq(t.stack, 1, Len(t.stack) - 1), u.priv = t.priv,
         u.listening = t.listening, u.rebound = t.rebound,
         d = IF Mine(Uppermost(t.stack)) THEN c - 1 ELSE c, d <= Len(u.events),
         u.inClick = t.inClick \ {n \in {Uppermost(t.stack).n} : Method(Uppermost(t.stack), n)},
         u.triggered => Guarded(u.stack),
         Uppermost(t.stack).at = "interrupted" => ~HasLength(t.priv[Uppermost(t.stack).n].click)
  PROVE  Good(u, d)
<1>1. t.stack \in Seq(Frame) /\ c \in Nat /\ Stacked(t.stack, c, t.inClick)
  BY DEF Good, Page
<1>2. d \in Nat /\ Stacked(u.stack, d, u.inClick)
  BY <1>1, PopStacked
<1>3. ~u.rebound => LetGo(u.stack, u.priv)
  <2>1. Len(t.stack) - 1 \in 0..Len(t.stack)
    BY <1>1
  <2>. QED  BY <1>1, <2>1, CutLetGo DEF Good, Stacked
<1>4. ListsInv(u)
  BY DEF Good, ListsInv
<1>5. Wired(u.stack, u.priv)
  <2>1. Len(t.stack) - 1 \in 0..Len(t.stack) /\ \A k \in ((Len(t.stack) - 1) + 1)..Len(t.stack) : k = Len(t.stack)
    BY <1>1
  <2>2. \A k \in ((Len(t.stack) - 1) + 1)..Len(t.stack) :
          t.stack[k].at = "interrupted" => ~HasLength(t.priv[t.stack[k].n].click)
    BY <2>1 DEF Uppermost
  <2>. QED  BY <1>1, <2>1, <2>2, CutWired DEF Good
<1>. QED  BY <1>2, <1>3, <1>4, <1>5 DEF Good

(* An exception. *)
LEMMA LastOf ==
  ASSUME NEW l \in Nat, NEW T \in SUBSET (1..l), T # {}
  PROVE  LET m == CHOOSE i \in T : \A j \in T : j <= i IN m \in T /\ \A j \in T : j <= m
<1>. SUFFICES \E i \in T : \A j \in T : j <= i
  OBVIOUS
<1>. DEFINE R == {l - i : i \in T}
<1>1. \A i \in T : i \in 1..l /\ l - i \in Nat
  OBVIOUS
<1>2. R \subseteq Nat /\ R # {} /\ \A j \in T : l - j \in R
  BY <1>1
<1>3. \A x \in R : \E i \in T : x = l - i
  OBVIOUS
<1>. HIDE DEF R
<1>4. PICK x \in R : \A y \in R : x <= y
  BY <1>2, NatMin, Zenon
<1>5. PICK i \in T : x = l - i
  BY <1>3
<1>6. \A j \in T : l - i <= l - j
  BY <1>2, <1>4, <1>5
<1>7. \A j \in T : j <= i
  BY <1>1, <1>6
<1>. QED  BY <1>7

(* What is left of the stack and of the events. *)
Cut(t, m, d, u) ==
  /\ m \in 0..Len(t.stack)
  /\ \A k \in (m + 1)..Len(t.stack) : t.stack[k].at # "native"
  /\ \/ m = 0 /\ d = 0
     \/ m > 0 /\ t.stack[m].at = "native" /\ d = t.stack[m].made
  /\ u.stack = SubSeq(t.stack, 1, m) /\ u.events = SubSeq(t.events, 1, d)
  /\ DOMAIN u = Parts /\ u.up = t.up /\ u.priv = t.priv /\ u.listening = t.listening
  /\ u.checked = t.checked /\ u.inClick = t.inClick /\ u.triggered = t.triggered
  /\ u.threw = TRUE /\ u.unclaimed = t.unclaimed /\ u.rebound = t.rebound

LEMMA ThrownIs ==
  ASSUME NEW t, Page(t)
  PROVE  \E m, d : Cut(t, m, d, Thrown(t))
<1>. DEFINE q == t.stack
            below == {i \in DOMAIN q : q[i].at = "native"}
            last == CHOOSE i \in below : \A j \in below : j <= i
            v == [t EXCEPT !.threw = TRUE]
            u == Thrown(t)
<1>0. /\ DOMAIN t = Parts /\ q \in Seq(Frame) /\ t.events \in Seq(Event)
      /\ DOMAIN q = 1..Len(q) /\ Len(q) \in Nat
  BY DEF Page
<1>1. CASE below = {}
  <2>1. u = [v EXCEPT !.stack = <<>>, !.events = <<>>]
    BY <1>1 DEF Thrown
  <2>2. SubSeq(q, 1, 0) = <<>> /\ SubSeq(t.events, 1, 0) = <<>>
    BY <1>0
  <2>3. \A k \in 1..Len(q) : q[k].at # "native"
    BY <1>0, <1>1
  <2>. HIDE DEF u, below
  <2>4. /\ u.stack = <<>> /\ u.events = <<>>
        /\ DOMAIN u = Parts /\ u.up = t.up /\ u.priv = t.priv /\ u.listening = t.listening
        /\ u.checked = t.checked /\ u.inClick = t.inClick /\ u.triggered = t.triggered
        /\ u.threw = TRUE /\ u.unclaimed = t.unclaimed /\ u.rebound = t.rebound
    BY <1>0, <2>1 DEF Parts
  <2>5. 0 \in 0..Len(q) /\ \A k \in (0 + 1)..Len(q) : q[k].at # "native"
    BY <1>0, <2>3
  <2>6. Cut(t, 0, 0, u)
    BY <2>2, <2>4, <2>5 DEF Cut
  <2>. QED  BY <2>6 DEF u
<1>2. CASE below # {}
  <2>1. below \in SUBSET (1..Len(q))
    BY <1>0
  <2>2. last \in below /\ \A j \in below : j <= last
    <3>. HIDE DEF below
    <3>. QED  BY <1>0, <1>2, <2>1, LastOf
  <2>3. u = [v EXCEPT !.stack = SubSeq(q, 1, last), !.events = SubSeq(t.events, 1, q[last].made)]
    BY <1>0, <1>2 DEF Thrown, Parts
  <2>. HIDE DEF last
  <2>4. last \in 1..Len(q) /\ q[last].at = "native"
    BY <1>0, <2>2
  <2>5. \A k \in (last + 1)..Len(q) : q[k].at # "native"
    <3>. SUFFICES ASSUME NEW k \in (last + 1)..Len(q), q[k].at = "native" PROVE FALSE
      OBVIOUS
    <3>1. k \in 1..Len(q) /\ ~(k <= last)
      BY <1>0, <2>4
    <3>2. k \in below
      BY <1>0, <3>1
    <3>. QED  BY <2>2, <3>1, <3>2
  <2>. HIDE DEF u, below
  <2>6. /\ u.stack = SubSeq(q, 1, last) /\ u.events = SubSeq(t.events, 1, q[last].made)
        /\ DOMAIN u = Parts /\ u.up = t.up /\ u.priv = t.priv /\ u.listening = t.listening
        /\ u.checked = t.checked /\ u.inClick = t.inClick /\ u.triggered = t.triggered
        /\ u.threw = TRUE /\ u.unclaimed = t.unclaimed /\ u.rebound = t.rebound
    BY <1>0, <2>3 DEF Parts
  <2>7. last \in 0..Len(q) /\ last > 0
    BY <1>0, <2>4
  <2>8. Cut(t, last, q[last].made, u)
    BY <2>4, <2>5, <2>6, <2>7 DEF Cut
  <2>. QED  BY <2>8 DEF u
<1>. QED  BY <1>1, <1>2

LEMMA CutKeeps ==
  ASSUME NEW t, NEW c, Good(t, c), c = Len(t.events), ~t.triggered,
         t.stack # <<>> => Uppermost(t.stack).at # "interrupted", NEW m, NEW d, NEW u, Cut(t, m, d, u)
  PROVE  Good(u, d) /\ d = Len(u.events)
<1>. DEFINE q == t.stack
<1>0. /\ Page(t) /\ c \in Nat /\ q \in Seq(Frame) /\ t.events \in Seq(Event)
      /\ DOMAIN q = 1..Len(q) /\ Len(q) \in Nat /\ Stacked(q, c, t.inClick)
      /\ \A k \in 1..Len(q) : q[k] \in Frame
      /\ m \in 0..Len(q)
  BY DEF Good, Page, Cut
<1>1. \A k \in 1..Len(q) : Reach(q[k]) \in Nat /\ Reach(q[k]) <= c /\ (HasEvent(q[k]) => Reach(q[k]) > 0)
  BY <1>0, Reaches DEF Stacked, Numbered
<1>2. \A k \in (m + 1)..Len(q) : k \in DOMAIN q /\ q[k].at # "native"
  BY <1>0 DEF Cut
<1>3. m > 0 => /\ m \in 1..Len(q) /\ q[m].at = "native" /\ ~HasEvent(q[m])
               /\ d = q[m].made /\ Reach(q[m]) = d
  BY <1>0 DEF Cut, HasEvent, Reach
<1>4. m = 0 => d = 0
  BY <1>0 DEF Cut
<1>5. d \in 0..c
  <2>1. CASE m = 0
    BY <1>0, <1>4, <2>1
  <2>2. CASE m > 0
    BY <1>0, <1>1, <1>3, <2>2
  <2>. QED  BY <1>0, <2>1, <2>2
<1>6. \A k \in 1..m : Reach(q[k]) <= d
  <2>. SUFFICES ASSUME NEW k \in 1..m PROVE Reach(q[k]) <= d
    OBVIOUS
  <2>1. m > 0 /\ k \in 1..Len(q)
    BY <1>0
  <2>2. CASE k = m
    BY <1>3, <1>5, <2>1, <2>2
  <2>3. CASE k # m
    <3>1. k \in 1..(m - 1)
      BY <1>0, <2>3
    <3>2. Under(q[k], q[m])
      BY <1>0, <1>3, <2>1, <3>1 DEF Stacked, Numbered
    <3>. QED  BY <1>3, <2>1, <3>2 DEF Under
  <2>. QED  BY <2>2, <2>3
<1>7. \A k \in (m + 1)..Len(q) : Mine(q[k]) => q[k].ev > d
  <2>. SUFFICES ASSUME NEW k \in (m + 1)..Len(q), Mine(q[k]) PROVE q[k].ev > d
    OBVIOUS
  <2>0. k \in DOMAIN q /\ HasEvent(q[k]) /\ Reach(q[k]) = q[k].ev
    BY <1>2 DEF Mine, HasEvent, Reach
  <2>1. CASE m = 0
    BY <1>0, <1>1, <1>4, <2>0, <2>1
  <2>2. CASE m > 0
    <3>1. m \in 1..(k - 1)
      BY <1>0, <2>2
    <3>2. Under(q[m], q[k])
      BY <1>0, <2>0, <3>1 DEF Stacked, Numbered
    <3>3. d < q[k].ev /\ q[k].ev \in Nat
      BY <1>0, <1>1, <1>3, <2>0, <2>2, <3>2 DEF Under
    <3>. QED  BY <1>5, <3>3
  <2>. QED  BY <1>0, <2>1, <2>2
<1>8. \A k \in 1..m : \A n : Method(q[k], n) => n \in t.inClick
  <2>1. \A k \in 1..m : k \in DOMAIN q
    BY <1>0
  <2>. QED  BY <1>0, <2>1 DEF Stacked, Clicking
<1>9. \A k \in (m + 1)..Len(q) : \A n : Method(q[k], n) => n \notin t.inClick
  BY <1>2 DEF Method
<1>10. Stacked(SubSeq(q, 1, m), d, t.inClick)
  BY <1>0, <1>5, <1>6, <1>7, <1>8, <1>9, CutStacked
<1>11. /\ u.stack = SubSeq(q, 1, m) /\ u.events = SubSeq(t.events, 1, d)
       /\ DOMAIN u = Parts /\ u.up = t.up /\ u.priv = t.priv /\ u.listening = t.listening
       /\ u.checked = t.checked /\ u.inClick = t.inClick /\ u.triggered = t.triggered
       /\ u.threw = TRUE /\ u.unclaimed = t.unclaimed /\ u.rebound = t.rebound
  BY DEF Cut
<1>12. u.stack \in Seq(Frame) /\ u.events \in Seq(Event) /\ Len(u.events) = d /\ d \in Nat
  BY <1>0, <1>5, <1>11
<1>13. Page(u)
  BY <1>0, <1>11, <1>12 DEF Page
<1>14. ListsInv(u)
  BY <1>11 DEF Good, ListsInv
<1>15. ~u.rebound => LetGo(u.stack, u.priv)
  BY <1>0, <1>11, CutLetGo DEF Good, Stacked
<1>16. Wired(u.stack, u.priv)
  <2>1. ASSUME NEW k \in (m + 1)..Len(q), q[k].at = "interrupted" PROVE FALSE
    <3>0. k \in 1..Len(q) /\ q # <<>>
      BY <1>0, <2>1
    <3>1. k < Len(q)
      BY <1>0, <2>1, <3>0 DEF Uppermost
    <3>2. Method(q[k + 1], q[k].n) /\ k + 1 \in (m + 1)..Len(q)
      <4>1. k + 1 \in (m + 1)..Len(q) /\ k \in DOMAIN q
        BY <1>0, <1>2, <3>1
      <4>2. Follows(q)
        BY <1>0 DEF Stacked
      <4>. QED  BY <2>1, <3>1, <4>1, <4>2 DEF Follows
    <3>. QED  BY <1>2, <3>2 DEF Method
  <2>2. \A k \in (m + 1)..Len(q) : q[k].at = "interrupted" => ~HasLength(t.priv[q[k].n].click)
    BY <2>1
  <2>. QED  BY <1>0, <1>11, <2>2, CutWired DEF Good
<1>. QED  BY <1>10, <1>11, <1>12, <1>13, <1>14, <1>15, <1>16 DEF Good

LEMMA ThrownKeeps ==
  ASSUME NEW t, NEW c, Good(t, c), c = Len(t.events), ~t.triggered,
         t.stack # <<>> => Uppermost(t.stack).at # "interrupted"
  PROVE  Good(Thrown(t), Len(Thrown(t).events))
<1>1. PICK m, d : Cut(t, m, d, Thrown(t))
  BY ThrownIs DEF Good
<1>2. Good(Thrown(t), d) /\ d = Len(Thrown(t).events)
  BY <1>1, CutKeeps
<1>. QED  BY <1>2

(* A frame for event ev can be pushed: on its own, or for one there is. *)
Owes(mine, ev, c, d) == (mine /\ d = c + 1 /\ ev = d) \/ (~mine /\ d = c /\ ev <= c)
Open(t) == ~t.triggered /\ (t.stack # <<>> => Uppermost(t.stack).at # "interrupted")

Only(t, u) == OnlyEvents(t, u) /\ Flags(t, u) /\ DOMAIN u.events = DOMAIN t.events

LEMMA NestedToo ==
  ASSUME NEW t, NEW ev
  PROVE  /\ \A n : [t EXCEPT !.events[ev].delegateTarget = n]
              = [t EXCEPT !.events[ev] = [t.events[ev] EXCEPT !.delegateTarget = n]]
         /\ \A x : [t EXCEPT !.events[ev].trig = x]
              = [t EXCEPT !.events[ev] = [t.events[ev] EXCEPT !.trig = x]]
         /\ [t EXCEPT !.events[ev].clicks = @ + 1]
              = [t EXCEPT !.events[ev] = [t.events[ev] EXCEPT !.clicks = @ + 1]]
         /\ [t EXCEPT !.events[ev].reused = TRUE]
              = [t EXCEPT !.events[ev] = [t.events[ev] EXCEPT !.reused = TRUE]]
BY Zenon

LEMMA EventFlags ==
  ASSUME NEW t, Page(t), NEW ev \in DOMAIN t.events
  PROVE  /\ \A n \in Nodes : Only(t, [t EXCEPT !.events[ev].delegateTarget = n])
         /\ \A x \in {0, 2, 3} : Only(t, [t EXCEPT !.events[ev].trig = x])
         /\ Only(t, [t EXCEPT !.events[ev].clicks = @ + 1])
         /\ Only(t, [t EXCEPT !.events[ev].reused = TRUE])
<1>1. t.events[ev] \in Event
  BY Types
<1>2. ASSUME NEW e \in Event PROVE Only(t, [t EXCEPT !.events[ev] = e])
  <2>. DEFINE u == [t EXCEPT !.events[ev] = e]
  <2>1. u = [t EXCEPT !.events[ev] = e]
    OBVIOUS
  <2>2. OnlyEvents(t, u) /\ Flags(t, u)
    BY EventSet
  <2>. HIDE DEF u
  <2>3. DOMAIN u.events = DOMAIN t.events
    BY <2>2, FlagsDomain
  <2>. QED  BY <2>2, <2>3 DEF Only, u
<1>3. \A n \in Nodes : [t.events[ev] EXCEPT !.delegateTarget = n] \in Event
  BY <1>1 DEF Event
<1>4. \A x \in {0, 2, 3} : [t.events[ev] EXCEPT !.trig = x] \in Event
  BY <1>1 DEF Event
<1>5. [t.events[ev] EXCEPT !.clicks = @ + 1] \in Event
  BY <1>1 DEF Event
<1>6. [t.events[ev] EXCEPT !.reused = TRUE] \in Event
  BY <1>1 DEF Event
<1>7. \A n \in Nodes : Only(t, [t EXCEPT !.events[ev].delegateTarget = n])
  BY <1>2, <1>3, NestedToo, Zenon
<1>8. \A x \in {0, 2, 3} : Only(t, [t EXCEPT !.events[ev].trig = x])
  BY <1>2, <1>4, NestedToo, Zenon
<1>9. Only(t, [t EXCEPT !.events[ev].clicks = @ + 1])
  BY <1>2, <1>5, NestedToo, Zenon
<1>10. Only(t, [t EXCEPT !.events[ev].reused = TRUE])
  BY <1>2, <1>6, NestedToo, Zenon
<1>. QED  BY <1>7, <1>8, <1>9, <1>10

-----------------------------------------------------------------------------
(* dispatch(). *)
Listed(t, n) ==
  {x \in Todo : \A m \in DOMAIN x.todo :
     Holds(t.priv, n, x.todo[m]) /\ (x.todo[m] = Lever => x.elem = n /\ n \in Boxes)}

LEMMA QueueTyped ==
  ASSUME NEW t, Page(t), ListsInv(t), NEW n \in Nodes, NEW ev
  PROVE  HandlerQueue(t, n, ev) \in Seq(Listed(t, n))
<1>. DEFINE p == t.priv[n]
            target == t.events[ev].target
            l == Len(p.list)
            d == p.delegates
            front == SubSeq(p.list, 1, d)
            direct == SubSeq(p.list, d + 1, l)
            a == IF target \in Boxes \ {n} /\ front # <<>>
                 THEN <<[elem |-> target, todo |-> front]>> ELSE <<>>
            b == IF direct # <<>> THEN <<[elem |-> n, todo |-> direct]>> ELSE <<>>
<1>1. /\ p.list \in Seq(Own) /\ l \in Nat /\ d \in 0..l /\ DOMAIN p.list = 1..l /\ ListOK(p, n)
  BY DEF Page, IsData, ListsInv
<1>. HIDE DEF p
<1>i. /\ front \in Seq(Own) /\ Len(front) = d /\ \A i \in 1..d : front[i] = p.list[i]
      /\ direct \in Seq(Own) /\ Len(direct) = l - d
      /\ \A i \in 1..(l - d) : direct[i] = p.list[d + i]
  <2>. DEFINE hs == p.list
  <2>1. hs \in Seq(Own) /\ DOMAIN hs = 1..l /\ Len(hs) = l /\ l \in Nat /\ d \in Nat /\ d <= l
    BY <1>1
  <2>2. front = SubSeq(hs, 1, d) /\ direct = SubSeq(hs, d + 1, l)
    OBVIOUS
  <2>. HIDE DEF hs, front, direct, l, d, a, b
  <2>3. front \in Seq(Own) /\ Len(front) = d /\ \A i \in 1..d : front[i] = hs[i]
    BY <2>1, <2>2
  <2>4. direct \in Seq(Own) /\ Len(direct) = l - d
    BY <2>1, <2>2
  <2>5. \A i \in 1..(l - d) : direct[i] = hs[d + i]
    BY <2>1, <2>2
  <2>. QED  BY <2>3, <2>4, <2>5 DEF hs
<1>. HIDE DEF front, direct, l, d, a, b
<1>n. l \in Nat /\ d \in Nat /\ d <= l
  BY <1>1
<1>2. /\ front \in Seq(Own) /\ DOMAIN front = 1..d /\ \A i \in 1..d : front[i] = p.list[i] /\ i \in 1..l
      /\ direct \in Seq(Own) /\ DOMAIN direct = 1..(l - d)
      /\ \A i \in 1..(l - d) : direct[i] = p.list[d + i] /\ d + i \in 1..l
  <2>1. DOMAIN front = 1..d /\ DOMAIN direct = 1..(l - d)
    BY <1>i
  <2>2. \A i \in 1..d : i \in 1..l
    BY <1>n
  <2>3. \A i \in 1..(l - d) : d + i \in 1..l
    BY <1>n
  <2>. QED  BY <1>i, <2>1, <2>2, <2>3, Zenon
<1>3. \A i \in 1..d : Holds(t.priv, n, front[i]) /\ front[i] # Lever
  <2>. TAKE i \in 1..d
  <2>1. i \in DOMAIN p.list /\ front[i] = p.list[i] /\ i <= d
    BY <1>1, <1>2
  <2>2. p.list[i].sel
    BY <1>1, <2>1 DEF ListOK, d
  <2>. QED  BY <2>1, <2>2, Specials DEF Holds, p
<1>4. \A i \in 1..(l - d) : Holds(t.priv, n, direct[i]) /\ (direct[i] = Lever => n \in Boxes)
  <2>. TAKE i \in 1..(l - d)
  <2>1. d + i \in DOMAIN p.list /\ direct[i] = p.list[d + i]
    BY <1>1, <1>2
  <2>. QED  BY <1>1, <2>1 DEF Holds, p, ListOK
<1>5. target \in Boxes => [elem |-> target, todo |-> front] \in Listed(t, n)
  BY <1>2, <1>3 DEF Listed, Todo, Nodes
<1>6. [elem |-> n, todo |-> direct] \in Listed(t, n)
  BY <1>2, <1>4 DEF Listed, Todo
<1>7. a \in Seq(Listed(t, n)) /\ b \in Seq(Listed(t, n))
  BY <1>5, <1>6 DEF a, b
<1>8. HandlerQueue(t, n, ev) = a \o b
  BY DEF HandlerQueue, front, direct, l, d, p, a, b
<1>. QED  BY <1>7, <1>8

LEMMA DispatchKeeps ==
  ASSUME NEW t, NEW c, Good(t, c), NEW n \in Nodes, NEW ev \in DOMAIN t.events, NEW mine \in BOOLEAN,
         NEW d, Owes(mine, ev, c, d), Open(t), t.priv[n].list # <<>>
  PROVE  /\ Good(Dispatch(t, n, ev, mine), d)
         /\ Len(Dispatch(t, n, ev, mine).events) = Len(t.events)
<1>. DEFINE u == [t EXCEPT !.events[ev].delegateTarget = n]
            queue == HandlerQueue(t, n, ev)
            f == [at |-> "dispatch", n |-> n, ev |-> ev, mine |-> mine, queue |-> queue]
<1>0. Page(t) /\ c \in Nat /\ c <= Len(t.events) /\ ev \in 1..Len(t.events)
  BY Types DEF Good
<1>1. Dispatch(t, n, ev, mine) = Push(u, f)
  BY DEF Dispatch
<1>2. Only(t, u)
  BY <1>0, EventFlags
<1>3. queue \in Seq(Listed(t, n))
  BY <1>0, QueueTyped DEF Good
<1>. HIDE DEF u, queue
<1>4. \A k \in DOMAIN queue : queue[k] \in Listed(t, n)
  BY <1>3
<1>5. queue \in Seq(Todo)
  <2>1. Listed(t, n) \subseteq Todo
    BY DEF Listed
  <2>. QED  BY <1>3, <2>1
<1>6. f \in DispatchFrame
  BY <1>0, <1>5 DEF DispatchFrame
<1>7. f \in Frame
  BY <1>6 DEF Frame
<1>8. f.at = "dispatch" /\ f.n = n /\ f.ev = ev /\ f.mine = mine /\ f.queue = queue
  OBVIOUS
<1>. HIDE DEF f
<1>9. QueueOK(f) /\ \A h : InQueue(h, f) => Holds(t.priv, n, h)
  BY <1>4, <1>8 DEF QueueOK, InQueue, Listed
<1>10. (Mine(f) <=> mine) /\ HasEvent(f) /\ Reach(f) = ev
  BY <1>8 DEF Mine, HasEvent, Reach
<1>11. /\ Good(u, c) /\ u.priv = t.priv /\ u.stack = t.stack /\ ~u.triggered
       /\ Len(u.events) = Len(t.events)
  BY <1>2, FlagsKeep DEF Only, OnlyEvents, Flags, Open
<1>12. Fits(u, f, c, d)
  BY <1>0, <1>7, <1>8, <1>9, <1>10, <1>11 DEF Fits, Owes, Open
<1>13. d <= Len(u.events)
  BY <1>0, <1>11 DEF Owes
<1>14. Good(Push(u, f), d)
  BY <1>8, <1>11, <1>12, <1>13, PushKeeps
<1>15. Page(u)
  BY <1>11 DEF Good
<1>16. Push(u, f).events = u.events
  BY <1>7, <1>15, PushIs DEF OnlyStack
<1>. QED  BY <1>1, <1>11, <1>14, <1>16

-----------------------------------------------------------------------------
(* trigger(). *)
LEMMA AddedKeeps ==
  ASSUME NEW t, NEW c, Good(t, c), NEW n \in Nodes, NEW h \in Own, h = Lever => n \in Boxes,
         NEW u, u = Add(t, n, h)
  PROVE  /\ Page(u) /\ ListsInv(u) /\ SameRest(t, u) /\ Wired(u.stack, u.priv) /\ u.priv[n].list # <<>>
         /\ \A m \in Nodes : \A g \in Handlers : g # h /\ Holds(u.priv, m, g) => Holds(t.priv, m, g)
<1>1. Added(t, n, h, u)
  BY AddKeeps DEF Good
<1>2. \A m \in Nodes : \A g \in Handlers : g # h /\ Holds(u.priv, m, g) => Holds(t.priv, m, g)
  <2>. TAKE m \in Nodes
  <2>. TAKE g \in Handlers
  <2>. HAVE g # h /\ Holds(u.priv, m, g)
  <2>1. CASE m = n
    BY <1>1, <2>1, Specials DEF Added, Holds, Handles
  <2>2. CASE m # n
    BY <1>1, <2>2 DEF Added, Holds
  <2>. QED  BY <2>1, <2>2
<1>3. Wired(u.stack, u.priv)
  <2>1. u.stack = t.stack /\ Wired(t.stack, t.priv)
    BY <1>1 DEF Added, SameRest, Good
  <2>2. ASSUME NEW m \in Boxes, HasLength(u.priv[m].click)
        PROVE  \/ \E k \in DOMAIN t.stack : Interrupted(t.stack[k], m, u.priv[m].click.ev)
               \/ u.priv[m].list = <<>> /\ \A k \in DOMAIN t.stack : t.stack[k].at = "dispatch" => t.stack[k].n # m
    <3>0. m \in Nodes
      BY DEF Nodes
    <3>1. CASE m # n
      BY <1>1, <2>1, <2>2, <3>0, <3>1 DEF Added, Wired
    <3>2. CASE m = n
      <4>1. u.priv[n].click # Unset
        BY <2>2, <3>2 DEF HasLength, Unset
      <4>2. u.priv[n].click = t.priv[n].click /\ t.priv[n].list # <<>>
        BY <1>1, <3>2, <4>1 DEF Added
      <4>. QED  BY <2>1, <2>2, <3>2, <4>2 DEF Wired
    <3>. QED  BY <3>1, <3>2
  <2>. QED  BY <2>1, <2>2 DEF Wired
<1>. QED  BY <1>1, <1>2, <1>3 DEF Added

LEMMA UserHandler ==
  ASSUME NEW t, NEW c, Good(t, c), NEW i \in DOMAIN t.stack, t.stack[i].at = "user"
  PROVE  /\ t.stack[i].h \in Handlers /\ i - 1 \in DOMAIN t.stack /\ t.stack[i - 1].at = "dispatch"
         /\ t.stack[i - 1].n \in Nodes
<1>1. t.stack \in Seq(Frame) /\ DOMAIN t.stack = 1..Len(t.stack) /\ Len(t.stack) \in Nat
  BY DEF Good, Page
<1>2. i - 1 \in DOMAIN t.stack /\ t.stack[i - 1].at = "dispatch"
  BY <1>1 DEF Good, Stacked, Follows
<1>3. t.stack[i] \in UserFrame /\ t.stack[i - 1] \in DispatchFrame
  BY <1>1, <1>2, Kinds
<1>. QED  BY <1>2, <1>3 DEF UserFrame, DispatchFrame

LEMMA ForceKeeps ==
  ASSUME NEW t, NEW c, Good(t, c), NEW n \in Nodes, NEW u, u = ForceSetup(t, n)
  PROVE  Good(u, c) /\ SameRest(t, u)
<1>1. CASE n \in Boxes /\ t.priv[n].click = Undefined
  <2>1. u = Add(t, n, IsTrue)
    BY <1>1 DEF ForceSetup
  <2>2. IsTrue \in Own /\ IsTrue # Lever /\ \A h \in Handlers : h # IsTrue
    BY Specials
  <2>3. /\ Page(u) /\ ListsInv(u) /\ SameRest(t, u) /\ Wired(u.stack, u.priv)
        /\ \A m \in Nodes : \A g \in Handlers : g # IsTrue /\ Holds(u.priv, m, g) => Holds(t.priv, m, g)
    BY <2>1, <2>2, AddedKeeps
  <2>4. Loses(t, u)
    BY <2>2, <2>3, UserHandler DEF Loses
  <2>. QED  BY <2>3, <2>4, DataKeeps DEF SameRest
<1>2. CASE ~(n \in Boxes /\ t.priv[n].click = Undefined)
  BY <1>2 DEF ForceSetup, SameRest
<1>. QED  BY <1>1, <1>2

LEMMA TriggerKeeps ==
  ASSUME NEW t, NEW c, Good(t, c), NEW ev \in DOMAIN t.events, NEW n \in Nodes,
         NEW only \in BOOLEAN, NEW mine \in BOOLEAN,
         NEW d, Owes(mine, ev, c, d), Open(t)
  PROVE  /\ Good(Trigger(t, ev, n, only, mine), d)
         /\ Len(Trigger(t, ev, n, only, mine).events) = Len(t.events)
<1>. DEFINE u == [t EXCEPT !.events[ev].trig = IF only THEN 2 ELSE 3]
            v == IF only THEN u ELSE ForceSetup(u, n)
            w == [v EXCEPT !.unclaimed = @ \/ (~only /\ n \in Boxes /\ ~Claimed(v, n))]
            f == [at |-> "trigger", n |-> n, ev |-> ev, only |-> only, mine |-> mine,
                  path |-> IF only THEN <<n>> ELSE PathOf(v, n)]
<1>0. Page(t) /\ c \in Nat /\ c <= Len(t.events) /\ ev \in 1..Len(t.events)
  BY Types DEF Good
<1>1. Trigger(t, ev, n, only, mine) = Push(w, f)
  BY DEF Trigger
<1>2. Only(t, u)
  BY <1>0, EventFlags
<1>. HIDE DEF u
<1>3. Good(u, c) /\ u.stack = t.stack /\ ~u.triggered /\ Len(u.events) = Len(t.events)
  BY <1>2, FlagsKeep DEF Only, OnlyEvents, Flags, Open
<1>4. Good(v, c) /\ v.stack = t.stack /\ ~v.triggered /\ Len(v.events) = Len(t.events)
  <2>1. CASE only
    BY <1>3, <2>1
  <2>2. CASE ~only
    <3>1. v = ForceSetup(u, n)
      BY <2>2
    <3>2. Good(v, c) /\ SameRest(u, v)
      BY <1>3, <3>1, ForceKeeps
    <3>. QED  BY <1>3, <3>2 DEF SameRest
  <2>. QED  BY <2>1, <2>2
<1>. HIDE DEF v
<1>5. /\ DOMAIN v = Parts /\ Page(v) /\ v.unclaimed \in BOOLEAN
  BY <1>4 DEF Good, Page
<1>6. /\ DOMAIN w = Parts /\ w.up = v.up /\ w.priv = v.priv /\ w.listening = v.listening
      /\ w.checked = v.checked /\ w.inClick = v.inClick /\ w.events = v.events
      /\ w.triggered = v.triggered /\ w.stack = v.stack /\ w.threw = v.threw /\ w.rebound = v.rebound
      /\ w.unclaimed = (v.unclaimed \/ (~only /\ n \in Boxes /\ ~Claimed(v, n)))
  BY <1>5 DEF Parts
<1>. HIDE DEF w
<1>7. w.unclaimed \in BOOLEAN
  BY <1>5, <1>6
<1>8. Page(w) /\ ListsInv(w)
  BY <1>4, <1>5, <1>6, <1>7 DEF Page, Good, ListsInv
<1>9. Good(w, c)
  BY <1>4, <1>6, <1>8 DEF Good
<1>10. f \in TriggerFrame
  BY <1>0, <1>5, PathTyped DEF TriggerFrame
<1>11. f \in Frame /\ f.at = "trigger" /\ f.ev = ev /\ f.mine = mine
  BY <1>10 DEF Frame
<1>. HIDE DEF f
<1>12. (Mine(f) <=> mine) /\ HasEvent(f) /\ Reach(f) = ev
  BY <1>11 DEF Mine, HasEvent, Reach
<1>13. w.stack = t.stack /\ ~w.triggered /\ Len(w.events) = Len(t.events)
  BY <1>4, <1>6
<1>14. Fits(w, f, c, d)
  BY <1>0, <1>11, <1>12, <1>13 DEF Fits, Owes, Open
<1>15. d <= Len(w.events)
  BY <1>0, <1>13 DEF Owes
<1>16. Good(Push(w, f), d)
  BY <1>9, <1>11, <1>13, <1>14, <1>15, PushKeeps
<1>17. Push(w, f).events = w.events
  BY <1>8, <1>11, PushIs DEF OnlyStack
<1>. QED  BY <1>1, <1>13, <1>16, <1>17

(* An event is made. *)
LEMMA EventMade ==
  ASSUME NEW t, NEW c, Good(t, c), NEW e \in Event,
         NEW u, u = [t EXCEPT !.events = Append(@, e)]
  PROVE  /\ Good(u, c) /\ OnlyEvents(t, u) /\ Len(u.events) = Len(t.events) + 1
         /\ Len(u.events) \in DOMAIN u.events
         /\ \A i \in DOMAIN t.events : u.events[i] = t.events[i] /\ i \in DOMAIN u.events
         /\ u.events[Len(u.events)] = e
<1>1. Page(t) /\ DOMAIN t = Parts /\ t.events \in Seq(Event) /\ c \in Nat /\ c <= Len(t.events)
  BY DEF Good, Page
<1>3. OnlyEvents(t, u) /\ u.events = Append(t.events, e)
  BY <1>1 DEF OnlyEvents, Parts
<1>4. /\ u.events \in Seq(Event) /\ Len(u.events) = Len(t.events) + 1
      /\ Len(u.events) \in DOMAIN u.events /\ c <= Len(u.events)
      /\ \A i \in DOMAIN t.events : u.events[i] = t.events[i] /\ i \in DOMAIN u.events
      /\ u.events[Len(u.events)] = e
  BY <1>1, <1>3
<1>5. Page(u) /\ ListsInv(u)
  BY <1>3, <1>4 DEF Page, Good, ListsInv, OnlyEvents
<1>. QED  BY <1>3, <1>4, <1>5 DEF Good, OnlyEvents

LEMMA OwnTriggerKeeps ==
  ASSUME NEW t, NEW c, Good(t, c), NEW ev \in DOMAIN t.events, NEW n \in Nodes,
         NEW only \in BOOLEAN, NEW d, Owes(TRUE, ev, c, d), Open(t)
  PROVE  /\ Good(Trigger(t, ev, n, only, TRUE), d)
         /\ Len(Trigger(t, ev, n, only, TRUE).events) = Len(t.events)
<1>1. PICK mine \in BOOLEAN : mine = TRUE
  OBVIOUS
<1>2. Owes(mine, ev, c, d)
  BY <1>1
<1>3. /\ Good(Trigger(t, ev, n, only, mine), d)
      /\ Len(Trigger(t, ev, n, only, mine).events) = Len(t.events)
  BY <1>2, TriggerKeeps
<1>. QED  BY <1>1, <1>3

LEMMA TriggerNewKeeps ==
  ASSUME NEW t, NEW c, Good(t, c), c = Len(t.events), NEW n \in Nodes, NEW ns \in Spaces,
         NEW only \in BOOLEAN, Open(t)
  PROVE  LET u == TriggerNew(t, n, ns, only) IN Good(u, Len(u.events))
<1>. DEFINE e == NewEvent(n, ns, 0, FALSE)
            u == [t EXCEPT !.events = Append(@, e)]
            v == Trigger(u, Len(u.events), n, only, TRUE)
<1>e. e \in Event /\ u = [t EXCEPT !.events = Append(@, e)]
  BY DEF NewEvent, Event
<1>2. TriggerNew(t, n, ns, only) = v
  BY DEF TriggerNew
<1>. HIDE DEF e, u
<1>1. /\ Good(u, c) /\ OnlyEvents(t, u) /\ Len(u.events) = Len(t.events) + 1
      /\ Len(u.events) \in DOMAIN u.events
  BY <1>e, EventMade
<1>3. Open(u)
  BY <1>1 DEF OnlyEvents, Open
<1>4. Good(v, c + 1) /\ Len(v.events) = Len(u.events)
  <2>. DEFINE ev == Len(u.events)
              d == c + 1
  <2>1. d = c + 1 /\ ev = d /\ ev \in DOMAIN u.events /\ v = Trigger(u, ev, n, only, TRUE)
    BY <1>1
  <2>2. Owes(TRUE, ev, c, d)
    BY <2>1 DEF Owes
  <2>. HIDE DEF ev, v, d
  <2>3. Good(u, c) /\ ev \in DOMAIN u.events /\ Open(u) /\ TRUE \in BOOLEAN
    BY <1>1, <1>3, <2>1
  <2>4. /\ Good(Trigger(u, ev, n, only, TRUE), d)
        /\ Len(Trigger(u, ev, n, only, TRUE).events) = Len(u.events)
    BY ONLY <2>2, <2>3, n \in Nodes, only \in BOOLEAN, OwnTriggerKeeps, ZenonT(60)
  <2>. QED  BY <2>1, <2>4
<1>5. Good(v, Len(v.events))
  BY <1>1, <1>4
<1>. QED  BY <1>2, <1>5

-----------------------------------------------------------------------------
(* The frame on top. *)
LEMMA TopFrame ==
  ASSUME NEW t, NEW c, Good(t, c), t.stack # <<>>
  PROVE  /\ Uppermost(t.stack) \in Frame /\ Len(t.stack) \in DOMAIN t.stack
         /\ c <= Len(t.events) /\ c \in Nat /\ Len(t.events) \in Nat
         /\ DOMAIN t.events = 1..Len(t.events)
         /\ HasEvent(Uppermost(t.stack)) => Uppermost(t.stack).ev \in 1..c /\ Uppermost(t.stack).ev \in DOMAIN t.events
         /\ t.triggered => Uppermost(t.stack).at \in {"triggered", "native"}
<1>. DEFINE m == Len(t.stack)
            f == t.stack[m]
<1>1. /\ Page(t) /\ m \in Nat /\ m > 0 /\ m \in DOMAIN t.stack /\ f \in Frame /\ f = Uppermost(t.stack)
      /\ c \in Nat /\ c <= Len(t.events) /\ Len(t.events) \in Nat /\ DOMAIN t.events = 1..Len(t.events)
  BY Types DEF Good, Uppermost
<1>2. Reach(f) \in Nat /\ (HasEvent(f) => Reach(f) = f.ev)
  BY <1>1, Reaches
<1>3. Reach(f) <= c /\ (HasEvent(f) => Reach(f) > 0)
  BY <1>1 DEF Good, Stacked, Numbered
<1>4. HasEvent(f) => f.ev \in 1..c /\ f.ev \in 1..Len(t.events)
  BY <1>1, <1>2, <1>3
<1>5. t.triggered => f.at \in {"triggered", "native"}
  BY DEF Good, Guarded
<1>. QED  BY <1>1, <1>4, <1>5

LEMMA PopIs ==
  ASSUME NEW t, Page(t), t.stack # <<>>
  PROVE  /\ Page(Pop(t)) /\ OnlyStack(t, Pop(t))
         /\ Pop(t).stack = SubSeq(t.stack, 1, Len(t.stack) - 1)
<1>1. t.stack \in Seq(Frame) /\ Len(t.stack) \in Nat /\ Len(t.stack) > 0
  BY DEF Page
<1>2. SubSeq(t.stack, 1, Len(t.stack) - 1) \in Seq(Frame)
  BY <1>1
<1>. DEFINE q == SubSeq(t.stack, 1, Len(t.stack) - 1)
<1>3. Pop(t) = [t EXCEPT !.stack = q]
  BY DEF Pop
<1>. HIDE DEF q
<1>4. q \in Seq(Frame)
  BY <1>2 DEF q
<1>5. Page(Pop(t)) /\ OnlyStack(t, Pop(t)) /\ Pop(t).stack = q
  BY <1>3, <1>4, StackSet
<1>. QED  BY <1>5 DEF q

LEMMA SwapIs ==
  ASSUME NEW t, Page(t), t.stack # <<>>, NEW g \in Frame, Same(Uppermost(t.stack), g)
  PROVE  /\ OnlyStack(t, Swap(t, g)) /\ Flags(t, Swap(t, g))
         /\ Swap(t, g).stack # <<>> /\ Uppermost(Swap(t, g).stack) = g
<1>. DEFINE q == t.stack
            m == Len(q)
            r == Append(SubSeq(q, 1, m - 1), g)
            u == Swap(t, g)
<1>1. q \in Seq(Frame) /\ m \in Nat /\ m > 0 /\ DOMAIN q = 1..m
  BY Types DEF Page
<1>2. /\ r \in Seq(Frame) /\ Len(r) = m /\ \A k \in 1..(m - 1) : r[k] = q[k]
      /\ r[m] = g
  BY <1>1
<1>3. Page(Pop(t)) /\ OnlyStack(t, Pop(t)) /\ Pop(t).stack = SubSeq(q, 1, m - 1)
  BY PopIs
<1>4. OnlyStack(Pop(t), u) /\ u.stack = r /\ Page(u)
  BY <1>3, PushIs DEF Swap
<1>. HIDE DEF r, u
<1>5. OnlyStack(t, u)
  BY <1>3, <1>4 DEF OnlyStack
<1>6. Alike(q, r)
  <2>1. \A k \in 1..m : k \in 1..(m - 1) \/ k = m
    BY <1>1
  <2>. QED  BY <1>1, <1>2, <2>1, SameSelf DEF Alike, Uppermost
<1>7. r # <<>> /\ Uppermost(r) = g
  BY <1>1, <1>2 DEF Uppermost
<1>. QED  BY <1>4, <1>5, <1>6, <1>7 DEF Flags, OnlyStack, u

LEMMA SwapKeeps ==
  ASSUME NEW t, NEW c, Good(t, c), t.stack # <<>>, NEW g \in Frame, Same(Uppermost(t.stack), g)
  PROVE  /\ Good(Swap(t, g), c) /\ OnlyStack(t, Swap(t, g))
         /\ Swap(t, g).stack # <<>> /\ Uppermost(Swap(t, g).stack) = g
BY SwapIs, FlagsKeep DEF Good

(* Other parts of a frame. *)
LEMMA PathLess ==
  ASSUME NEW f \in Frame, f.at \in {"native", "trigger"}, f.path # <<>>
  PROVE  /\ [f EXCEPT !.path = Tail(@)] \in Frame /\ Same(f, [f EXCEPT !.path = Tail(@)])
         /\ [f EXCEPT !.path = Tail(@)].at = f.at /\ Head(f.path) \in Nodes
<1>. DEFINE g == [f EXCEPT !.path = Tail(@)]
<1>1. CASE f.at = "native"
  <2>1. f \in NativeFrame
    BY <1>1, Kinds
  <2>2. Tail(f.path) \in Seq(Nodes) /\ Head(f.path) \in Nodes
    BY <2>1 DEF NativeFrame
  <2>3. g \in NativeFrame /\ g.n = f.n /\ g.made = f.made /\ g.method = f.method /\ g.at = f.at
    BY <2>1, <2>2 DEF NativeFrame
  <2>. QED  BY <1>1, <2>2, <2>3 DEF Frame, Same, Reach, HasEvent, Mine, Method
<1>2. CASE f.at = "trigger"
  <2>1. f \in TriggerFrame
    BY <1>2, Kinds
  <2>2. Tail(f.path) \in Seq(Nodes) /\ Head(f.path) \in Nodes
    BY <2>1 DEF TriggerFrame
  <2>3. g \in TriggerFrame /\ g.n = f.n /\ g.ev = f.ev /\ g.mine = f.mine /\ g.at = f.at
    BY <2>1, <2>2 DEF TriggerFrame
  <2>. QED  BY <1>2, <2>2, <2>3 DEF Frame, Same, Reach, HasEvent, Mine, Method
<1>. QED  BY <1>1, <1>2

LEMMA QueueLess ==
  ASSUME NEW f \in Frame, f.at = "dispatch", f.queue # <<>>
  PROVE  /\ [f EXCEPT !.queue = Tail(@)] \in Frame /\ Same(f, [f EXCEPT !.queue = Tail(@)])
         /\ Head(f.queue) \in Todo
<1>. DEFINE g == [f EXCEPT !.queue = Tail(@)]
<1>1. f \in DispatchFrame /\ f.queue \in Seq(Todo) /\ Len(f.queue) \in Nat /\ Len(f.queue) > 0
      /\ DOMAIN f.queue = 1..Len(f.queue)
  <2>1. f \in DispatchFrame
    BY Kinds
  <2>2. f.queue \in Seq(Todo)
    BY <2>1 DEF DispatchFrame
  <2>. QED  BY <2>1, <2>2
<1>2. /\ Tail(f.queue) \in Seq(Todo) /\ Head(f.queue) \in Todo
      /\ DOMAIN Tail(f.queue) = 1..(Len(f.queue) - 1)
      /\ \A k \in 1..(Len(f.queue) - 1) : Tail(f.queue)[k] = f.queue[k + 1] /\ k + 1 \in DOMAIN f.queue
  BY <1>1
<1>3. g \in DispatchFrame /\ g.n = f.n /\ g.ev = f.ev /\ g.mine = f.mine /\ g.at = f.at
      /\ g.queue = Tail(f.queue)
  BY <1>1, <1>2 DEF DispatchFrame
<1>. HIDE DEF g
<1>4. \A h : InQueue(h, g) => InQueue(h, f)
  BY <1>2, <1>3 DEF InQueue
<1>5. QueueOK(f) => QueueOK(g)
  BY <1>2, <1>3 DEF QueueOK
<1>6. g \in Frame /\ Same(f, g)
  BY <1>3, <1>4, <1>5 DEF Frame, Same, Reach, HasEvent, Mine, Method
<1>. QED  BY <1>2, <1>6 DEF g

LEMMA TodoLess ==
  ASSUME NEW f \in Frame, f.at = "dispatch", f.queue # <<>>, Head(f.queue).todo # <<>>
  PROVE  /\ [f EXCEPT !.queue[1].todo = Tail(@)] \in Frame
         /\ Same(f, [f EXCEPT !.queue[1].todo = Tail(@)])
         /\ [f EXCEPT !.queue[1].todo = Tail(@)].at = "dispatch"
         /\ [f EXCEPT !.queue[1].todo = Tail(@)].n = f.n
         /\ [f EXCEPT !.queue[1].todo = Tail(@)].ev = f.ev
         /\ Head(Head(f.queue).todo) \in Own
         /\ QueueOK(f) /\ Head(Head(f.queue).todo) = Lever => Head(f.queue).elem = f.n /\ f.n \in Boxes
<1>. DEFINE x == [f.queue[1] EXCEPT !.todo = Tail(f.queue[1].todo)]
            p == [f.queue EXCEPT ![1] = x]
            g == [f EXCEPT !.queue = p]
            l == Len(f.queue)
<1>0. [f EXCEPT !.queue[1].todo = Tail(@)] = g
  BY Zenon
<1>1. f \in DispatchFrame /\ f.queue \in Seq(Todo) /\ l \in Nat /\ l > 0 /\ DOMAIN f.queue = 1..l
      /\ 1 \in DOMAIN f.queue /\ Head(f.queue) = f.queue[1] /\ f.queue[1] \in Todo
  <2>1. f \in DispatchFrame
    BY Kinds
  <2>2. f.queue \in Seq(Todo)
    BY <2>1 DEF DispatchFrame
  <2>. QED  BY <2>1, <2>2
<1>2. f.queue[1].todo \in Seq(Own) /\ f.queue[1].todo # <<>>
  BY <1>1 DEF Todo
<1>3. /\ Tail(f.queue[1].todo) \in Seq(Own) /\ Head(f.queue[1].todo) \in Own
      /\ 1 \in DOMAIN f.queue[1].todo /\ Head(f.queue[1].todo) = f.queue[1].todo[1]
      /\ \A m \in DOMAIN Tail(f.queue[1].todo) :
           Tail(f.queue[1].todo)[m] = f.queue[1].todo[m + 1] /\ m + 1 \in DOMAIN f.queue[1].todo
  BY <1>2
<1>4. x \in Todo /\ x.todo = Tail(f.queue[1].todo) /\ x.elem = f.queue[1].elem
  BY <1>1, <1>3 DEF Todo
<1>. HIDE DEF x
<1>5. /\ p \in Seq(Todo) /\ DOMAIN p = DOMAIN f.queue
      /\ \A k \in DOMAIN p : p[k] = IF k = 1 THEN x ELSE f.queue[k]
  BY <1>1, <1>4
<1>. HIDE DEF p
<1>6. g \in DispatchFrame /\ g.n = f.n /\ g.ev = f.ev /\ g.mine = f.mine /\ g.at = f.at
      /\ g.queue = p
  BY <1>1, <1>5 DEF DispatchFrame
<1>. HIDE DEF g
<1>a. ASSUME NEW k \in DOMAIN g.queue, NEW m \in DOMAIN g.queue[k].todo
      PROVE  /\ k \in DOMAIN f.queue /\ g.queue[k].elem = f.queue[k].elem
             /\ \E i \in DOMAIN f.queue[k].todo : g.queue[k].todo[m] = f.queue[k].todo[i]
  <2>1. CASE k = 1
    <3>1. g.queue[k] = x /\ m \in DOMAIN Tail(f.queue[1].todo)
      BY <1>4, <1>5, <1>6, <2>1
    <3>. QED  BY <1>1, <1>3, <1>4, <2>1, <3>1
  <2>2. CASE k # 1
    BY <1>5, <1>6, <2>2
  <2>. QED  BY <2>1, <2>2
<1>7. \A h : InQueue(h, g) => InQueue(h, f)
  BY <1>a DEF InQueue
<1>8. QueueOK(f) => QueueOK(g)
  <2>1. \A k \in DOMAIN f.queue : \A i \in DOMAIN f.queue[k].todo :
          QueueOK(f) /\ f.queue[k].todo[i] = Lever => f.queue[k].elem = f.n /\ f.n \in Boxes
    BY DEF QueueOK
  <2>. QED  BY <1>a, <1>6, <2>1 DEF QueueOK
<1>9. g \in Frame /\ Same(f, g)
  BY <1>6, <1>7, <1>8 DEF Frame, Same, Reach, HasEvent, Mine, Method
<1>10. QueueOK(f) /\ f.queue[1].todo[1] = Lever => f.queue[1].elem = f.n /\ f.n \in Boxes
  BY <1>1, <1>3 DEF QueueOK
<1>. QED  BY <1>0, <1>1, <1>3, <1>6, <1>9, <1>10

-----------------------------------------------------------------------------
(* A click method is called for an event. *)
LEMMA ClickForKeeps ==
  ASSUME NEW t, NEW c, Good(t, c), c = Len(t.events), NEW n \in Nodes, NEW ev \in DOMAIN t.events,
         t.triggered => t.stack # <<>> /\ Uppermost(t.stack).at = "triggered",
         t.stack # <<>> /\ Uppermost(t.stack).at = "interrupted" => Uppermost(t.stack).n = n
  PROVE  Good(ClickFor(t, ev, n), c) /\ Len(ClickFor(t, ev, n).events) = c
<1>. DEFINE u == Native(t, n, TRUE)
            v == [u EXCEPT !.events[ev].clicks = @ + 1]
<1>1. ClickFor(t, ev, n) = IF u = t THEN t ELSE v
  BY DEF ClickFor
<1>2. Good(u, c) /\ u.events = t.events
  <2>1. TRUE \in BOOLEAN
    OBVIOUS
  <2>. QED  BY <2>1, NativeKeeps, Zenon
<1>. HIDE DEF u
<1>3. Page(u) /\ ev \in DOMAIN u.events
  BY <1>2 DEF Good
<1>4. Only(u, v)
  BY <1>3, EventFlags
<1>. HIDE DEF v
<1>5. Good(v, c) /\ Len(v.events) = Len(u.events)
  BY <1>2, <1>4, FlagsKeep DEF Only, Flags
<1>. QED  BY <1>1, <1>2, <1>5

(* off(). *)
LEMMA RemovedKeeps ==
  ASSUME NEW t, NEW c, Good(t, c), NEW n \in Nodes, NEW id, NEW ns, Names(id, ns),
         NEW u, u = Remove(t, n, id, ns)
  PROVE  /\ Good(u, c) /\ SameRest(t, u)
         /\ \A h : Holds(u.priv, n, h) => ~Meant(h, id, ns)
<1>1. Removed(t, n, id, ns, u) /\ Page(t)
  BY RemoveKeeps DEF Good
<1>2. \A m \in Nodes : \A h : Holds(u.priv, m, h) => Holds(t.priv, m, h)
  BY <1>1 DEF Removed, Holds, Handles
<1>3. u.priv[n].list \in Seq(Own)
  BY <1>1 DEF Removed, Page, IsData
<1>4. t.priv[n].list = <<>> => u.priv[n].list = <<>>
  <2>. SUFFICES ASSUME t.priv[n].list = <<>> PROVE u.priv[n].list = <<>>
    OBVIOUS
  <2>1. \A h : ~Handles(h, t, n)
    BY DEF Handles
  <2>2. \A i \in DOMAIN u.priv[n].list : FALSE
    BY <1>1, <2>1 DEF Removed
  <2>3. Len(u.priv[n].list) = 0
    BY <1>3, <2>2
  <2>. QED  BY <1>3, <2>3
<1>5. \A m \in Boxes : /\ m \in Nodes /\ u.priv[m].click = t.priv[m].click
                       /\ (t.priv[m].list = <<>> => u.priv[m].list = <<>>)
  BY <1>1, <1>4 DEF Removed, Nodes
<1>6. Wired(u.stack, u.priv)
  <2>1. u.stack = t.stack /\ Wired(t.stack, t.priv)
    BY <1>1 DEF Removed, SameRest, Good
  <2>. QED  BY <1>5, <2>1 DEF Wired
<1>7. Loses(t, u)
  BY <1>2, UserHandler DEF Loses
<1>8. Page(u) /\ ListsInv(u) /\ SameRest(t, u)
  BY <1>1 DEF Removed
<1>9. Good(u, c)
  BY <1>6, <1>7, <1>8, DataKeeps DEF SameRest
<1>. QED  BY <1>1, <1>8, <1>9 DEF Removed, Holds

(* The wrapper of one(). *)
LEMMA UnboundKeeps ==
  ASSUME NEW t, NEW c, Good(t, c), NEW h \in Handlers, NEW ev \in DOMAIN t.events,
         NEW u, u = Unbound(t, h, ev)
  PROVE  /\ Good(u, c) /\ SameRest(t, u)
         /\ h.one => ~Holds(u.priv, t.events[ev].delegateTarget, h)
<1>1. CASE h.one
  <2>. DEFINE n == t.events[ev].delegateTarget
  <2>1. t.events[ev] \in Event
    BY Types DEF Good
  <2>2. n \in Nodes
    BY <2>1 DEF Event
  <2>3. u = Remove(t, n, h.id, h.ns)
    BY <1>1 DEF Unbound
  <2>. HIDE DEF n
  <2>4. Names(h.id, h.ns)
    BY Specials DEF Names
  <2>5. Meant(h, h.id, h.ns)
    BY DEF Meant
  <2>6. /\ Good(u, c) /\ SameRest(t, u)
        /\ \A g : Holds(u.priv, n, g) => ~Meant(g, h.id, h.ns)
    BY <2>2, <2>3, <2>4, RemovedKeeps
  <2>. QED  BY <2>5, <2>6 DEF n
<1>2. CASE ~h.one
  BY <1>2 DEF Unbound, SameRest
<1>. QED  BY <1>1, <1>2

(* The tree changes. *)
LEMMA UpKeeps ==
  ASSUME NEW t, NEW c, Good(t, c), NEW up \in [Nodes -> {None, Doc} \cup Plain],
         NEW u, u = [t EXCEPT !.up = up]
  PROVE  Good(u, c) /\ u.events = t.events
<1>1. DOMAIN t = Parts
  BY DEF Good, Page
<1>2. /\ DOMAIN u = Parts /\ u.up = up /\ u.priv = t.priv /\ u.listening = t.listening
      /\ u.checked = t.checked /\ u.inClick = t.inClick /\ u.events = t.events
      /\ u.triggered = t.triggered /\ u.stack = t.stack
      /\ u.threw = t.threw /\ u.unclaimed = t.unclaimed /\ u.rebound = t.rebound
  BY <1>1 DEF Parts
<1>3. Page(u) /\ ListsInv(u)
  BY <1>2 DEF Good, Page, ListsInv
<1>. QED  BY <1>2, <1>3 DEF Good

LEMMA CleanedKeeps ==
  ASSUME NEW t, NEW c, Good(t, c), NEW n \in Nodes, NEW u, u = Clean(t, n)
  PROVE  Good(u, c) /\ SameRest(t, u)
<1>1. Cleaned(t, u)
  BY CleanKeeps DEF Good
<1>2. \A m \in Nodes : \A h : Holds(u.priv, m, h) => Holds(t.priv, m, h)
  BY <1>1 DEF Cleaned, Holds, NoData
<1>3. \A m \in Boxes : HasLength(u.priv[m].click) => u.priv[m] = t.priv[m]
  BY <1>1 DEF Cleaned, Nodes, NoData, HasLength, Undefined
<1>4. Wired(u.stack, u.priv)
  <2>1. u.stack = t.stack /\ Wired(t.stack, t.priv)
    BY <1>1 DEF Cleaned, SameRest, Good
  <2>. QED  BY <1>3, <2>1 DEF Wired
<1>5. Loses(t, u)
  BY <1>2, UserHandler DEF Loses
<1>6. Page(u) /\ ListsInv(u) /\ SameRest(t, u)
  BY <1>1 DEF Cleaned
<1>. QED  BY <1>4, <1>5, <1>6, DataKeeps DEF SameRest

(* A clone is made. *)
LEMMA CopiedKeeps ==
  ASSUME NEW t, NEW c, Good(t, c), NEW n \in Nodes, NEW a \in Boxes, n # a, t.priv[a] = NoData,
         \A i \in DOMAIN t.stack : t.stack[i].at = "dispatch" => t.stack[i].n # a,
         NEW u, u = CopyEvents(t, n, a)
  PROVE  Good(u, c) /\ SameRest(t, u)
<1>1. Copied(t, n, a, u)
  BY CopyKeeps DEF Good
<1>2. Page(u) /\ ListsInv(u) /\ SameRest(t, u) /\ u.stack = t.stack
  BY <1>1 DEF Copied, SameRest
<1>3. Loses(t, u)
  <2>. SUFFICES ASSUME NEW i \in DOMAIN t.stack, t.stack[i].at = "user",
                       Holds(u.priv, t.stack[i - 1].n, t.stack[i].h)
                PROVE  Holds(t.priv, t.stack[i - 1].n, t.stack[i].h)
    BY DEF Loses
  <2>1. i - 1 \in DOMAIN t.stack /\ t.stack[i - 1].at = "dispatch" /\ t.stack[i - 1].n \in Nodes
    BY UserHandler
  <2>2. t.stack[i - 1].n # a
    BY <2>1
  <2>. QED  BY <1>1, <2>1, <2>2 DEF Copied, Holds
<1>4. Wired(u.stack, u.priv)
  <2>1. Wired(t.stack, t.priv)
    BY DEF Good
  <2>2. ASSUME NEW m \in Boxes, HasLength(u.priv[m].click)
        PROVE  \/ \E k \in DOMAIN t.stack : Interrupted(t.stack[k], m, u.priv[m].click.ev)
               \/ u.priv[m].list = <<>> /\ \A k \in DOMAIN t.stack : t.stack[k].at = "dispatch" => t.stack[k].n # m
    <3>1. CASE m = a
      BY <1>1, <2>2, <3>1 DEF Copied
    <3>2. CASE m # a
      <4>1. u.priv[m] = t.priv[m]
        BY <1>1, <3>2 DEF Copied, Nodes
      <4>. QED  BY <2>1, <2>2, <4>1 DEF Wired
    <3>. QED  BY <3>1, <3>2
  <2>. QED  BY <1>2, <2>1, <2>2 DEF Wired
<1>. QED  BY <1>2, <1>3, <1>4, DataKeeps DEF SameRest

(* What leverageNative keeps of a node is set. *)
ClickSet(t, n, x) == [t EXCEPT !.priv[n].click = x]
LEMMA ClickSetIs ==
  ASSUME NEW t, Page(t), ListsInv(t), NEW n \in Nodes, NEW x, IsClick(x),
         NEW u, u = ClickSet(t, n, x)
  PROVE  /\ Page(u) /\ ListsInv(u) /\ SameRest(t, u) /\ u.listening = t.listening
         /\ u.priv[n].click = x /\ u.priv[n].list = t.priv[n].list
         /\ \A m \in Nodes : m # n => u.priv[m] = t.priv[m]
         /\ \A m \in Nodes : u.priv[m].list = t.priv[m].list
<1>. DEFINE p == [t.priv[n] EXCEPT !.click = x]
            q == [t.priv EXCEPT ![n] = p]
<1>1. DOMAIN t = Parts /\ DOMAIN t.priv = Nodes /\ IsData(t.priv[n])
  BY DEF Page
<1>2. IsData(p) /\ p.click = x /\ p.list = t.priv[n].list /\ p.delegates = t.priv[n].delegates
  BY <1>1 DEF IsData
<1>. HIDE DEF p
<1>3. DOMAIN q = Nodes /\ \A m \in Nodes : q[m] = IF m = n THEN p ELSE t.priv[m]
  BY <1>1
<1>. HIDE DEF q
<1>4. u = [t EXCEPT !.priv = q]
  BY DEF p, q, ClickSet
<1>5. u.priv = q /\ SameRest(t, u) /\ u.listening = t.listening /\ DOMAIN u = Parts
  BY <1>1, <1>4 DEF SameRest, Parts
<1>6. Page(u)
  BY <1>2, <1>3, <1>5 DEF Page, SameRest
<1>7. ListsInv(u)
  <2>. SUFFICES ASSUME NEW m \in Nodes
                PROVE  ListOK(u.priv[m], m) /\ (m \in u.listening <=> u.priv[m].list # <<>>)
    BY DEF ListsInv
  <2>1. ListOK(t.priv[m], m) /\ (m \in t.listening <=> t.priv[m].list # <<>>)
    BY DEF ListsInv
  <2>2. u.priv[m].list = t.priv[m].list /\ u.priv[m].delegates = t.priv[m].delegates
    BY <1>2, <1>3, <1>5
  <2>. QED  BY <1>5, <2>1, <2>2 DEF ListOK
<1>. QED  BY <1>2, <1>3, <1>5, <1>6, <1>7

LEMMA ClickSetKeeps ==
  ASSUME NEW t, NEW c, Good(t, c), NEW n \in Nodes, NEW x, IsClick(x),
         HasLength(x) => \E k \in DOMAIN t.stack : Interrupted(t.stack[k], n, x.ev),
         NEW u, u = ClickSet(t, n, x)
  PROVE  Good(u, c) /\ SameRest(t, u) /\ u.priv[n].click = x /\ u.listening = t.listening
<1>1. /\ Page(u) /\ ListsInv(u) /\ SameRest(t, u) /\ u.listening = t.listening
      /\ u.priv[n].click = x /\ \A m \in Nodes : m # n => u.priv[m] = t.priv[m]
      /\ \A m \in Nodes : u.priv[m].list = t.priv[m].list
  <2>1. Page(t) /\ ListsInv(t)
    BY DEF Good
  <2>. QED  BY <2>1, ClickSetIs
<1>2. Loses(t, u)
  BY <1>1, UserHandler DEF Loses, Holds
<1>3. Wired(u.stack, u.priv)
  <2>1. Wired(t.stack, t.priv) /\ u.stack = t.stack
    BY <1>1 DEF Good, SameRest
  <2>2. ASSUME NEW m \in Boxes, HasLength(u.priv[m].click)
        PROVE  \/ \E k \in DOMAIN t.stack : Interrupted(t.stack[k], m, u.priv[m].click.ev)
               \/ u.priv[m].list = <<>> /\ \A k \in DOMAIN t.stack : t.stack[k].at = "dispatch" => t.stack[k].n # m
    <3>1. CASE m = n
      BY <1>1, <2>2, <3>1
    <3>2. CASE m # n
      <4>1. u.priv[m] = t.priv[m]
        BY <1>1, <3>2 DEF Nodes
      <4>. QED  BY <2>1, <2>2, <4>1 DEF Wired
    <3>. QED  BY <3>1, <3>2
  <2>. QED  BY <2>1, <2>2 DEF Wired
<1>. QED  BY <1>1, <1>2, <1>3, DataKeeps DEF SameRest

-----------------------------------------------------------------------------
(* The controller. *)
LEMMA PushSet ==
  ASSUME NEW t, DOMAIN t = Parts, NEW n, NEW x, NEW f
  PROVE  Push([t EXCEPT !.priv[n].click = x], f) = ClickSet(Push(t, f), n, x)
BY DEF Push, ClickSet, Parts

LEMMA PopSet ==
  ASSUME NEW t, DOMAIN t = Parts, NEW n, NEW x
  PROVE  [Pop(t) EXCEPT !.priv[n].click = x] = Pop(ClickSet(t, n, x))
BY DEF Pop, ClickSet, Parts

LEMMA LeverPush ==
  ASSUME NEW t, NEW c, Good(t, c), NEW n \in Nodes, NEW ev \in 1..c, Open(t),
         NEW f \in LeverFrame, f.n = n, f.ev = ev
  PROVE  /\ Good(Push(t, f), c) /\ OnlyStack(t, Push(t, f)) /\ Push(t, f).stack # <<>>
         /\ Uppermost(Push(t, f).stack) = f /\ Len(Push(t, f).stack) \in DOMAIN Push(t, f).stack
<1>1. Page(t) /\ c \in Nat /\ c <= Len(t.events) /\ t.stack \in Seq(Frame)
  BY DEF Good, Page
<1>2. f \in Frame /\ f.at \in {"interrupted", "reinvoked"}
  BY DEF Frame, LeverFrame
<1>3. ~Mine(f) /\ HasEvent(f) /\ Reach(f) = ev
  BY <1>2 DEF Mine, HasEvent, Reach
<1>4. Fits(t, f, c, c)
  BY <1>1, <1>2, <1>3 DEF Fits, Open
<1>5. Good(Push(t, f), c)
  BY <1>1, <1>2, <1>4, PushKeeps DEF Open
<1>6. OnlyStack(t, Push(t, f)) /\ Push(t, f).stack = Append(t.stack, f)
  BY <1>1, <1>2, PushIs
<1>. QED  BY <1>1, <1>2, <1>5, <1>6 DEF Uppermost

EventPut(t, ev, e) == [t EXCEPT !.events[ev] = e]
LEMMA EventPutIs ==
  ASSUME NEW t, Page(t), NEW ev \in DOMAIN t.events, NEW e \in Event
  PROVE  /\ OnlyEvents(t, EventPut(t, ev, e)) /\ Flags(t, EventPut(t, ev, e))
         /\ DOMAIN EventPut(t, ev, e).events = DOMAIN t.events
<1>. DEFINE u == [t EXCEPT !.events[ev] = e]
<1>1. u = [t EXCEPT !.events[ev] = e]
  OBVIOUS
<1>2. OnlyEvents(t, u) /\ Flags(t, u)
  BY EventSet
<1>. HIDE DEF u
<1>3. DOMAIN u.events = DOMAIN t.events
  BY <1>2, FlagsDomain
<1>. QED  BY <1>1, <1>2, <1>3 DEF EventPut

LEMMA LeverageKeeps ==
  ASSUME NEW t, NEW c, Good(t, c), c = Len(t.events), t.stack # <<>>, ~t.triggered,
         NEW n \in Boxes, NEW ev, Uppermost(t.stack).at = "dispatch", Uppermost(t.stack).n = n, Uppermost(t.stack).ev = ev,
         NEW u, u = Leverage(t, n, ev)
  PROVE  Good(u, Len(u.events))
<1>. DEFINE saved == t.priv[n].click
<1>0. /\ Page(t) /\ DOMAIN t = Parts /\ c \in Nat /\ n \in Nodes /\ IsClick(saved)
      /\ DOMAIN t.events = 1..c /\ Len(t.stack) \in DOMAIN t.stack
      /\ ev \in 1..c /\ ev \in DOMAIN t.events /\ Open(t)
  <2>1. Page(t) /\ DOMAIN t = Parts /\ c \in Nat /\ n \in Nodes /\ IsData(t.priv[n])
    BY DEF Good, Page, Nodes
  <2>2. HasEvent(Uppermost(t.stack))
    BY DEF HasEvent
  <2>3. ev \in 1..c /\ DOMAIN t.events = 1..c /\ Len(t.stack) \in DOMAIN t.stack
    BY <2>2, TopFrame
  <2>4. Open(t)
    BY DEF Open
  <2>. QED  BY <2>1, <2>3, <2>4 DEF IsData
<1>1. CASE saved = Undefined
  <2>1. u = Thrown(t)
    BY <1>1 DEF Leverage
  <2>. QED  BY <2>1, ThrownKeeps
<1>2. CASE saved # Undefined /\ u = t
  BY <1>2
<1>3. CASE saved # Undefined /\ t.events[ev].trig = 3 /\ ~HasLength(saved)
  <2>. DEFINE f == [at |-> "interrupted", n |-> n, ev |-> ev]
              a == Arguments(ev)
              w == Push(t, f)
              v == ClickSet(w, n, a)
  <2>1. u = ClickFor(v, ev, n)
    <3>1. Push([t EXCEPT !.priv[n].click = a], f) = v
      BY <1>0, PushSet
    <3>. HIDE DEF v
    <3>. QED  BY <1>3, <3>1 DEF Leverage
  <2>2. f \in LeverFrame /\ f.n = n /\ f.ev = ev /\ f.at = "interrupted" /\ Interrupted(f, n, ev)
    BY <1>0 DEF LeverFrame, Interrupted
  <2>. HIDE DEF f
  <2>3. /\ Good(w, c) /\ OnlyStack(t, w) /\ w.stack # <<>> /\ Uppermost(w.stack) = f
        /\ Len(w.stack) \in DOMAIN w.stack
    BY <1>0, <2>2, LeverPush
  <2>. HIDE DEF w
  <2>4. IsClick(a) /\ a.ev = ev
    BY <1>0 DEF IsClick, Arguments
  <2>. HIDE DEF a
  <2>5. \E k \in DOMAIN w.stack : Interrupted(w.stack[k], n, a.ev)
    BY <2>2, <2>3, <2>4 DEF Uppermost
  <2>6. Good(v, c) /\ SameRest(w, v)
    BY <1>0, <2>3, <2>4, <2>5, ClickSetKeeps
  <2>. HIDE DEF v
  <2>7. /\ v.events = t.events /\ ~v.triggered /\ v.stack # <<>> /\ Uppermost(v.stack).n = n
        /\ ev \in DOMAIN v.events
    BY <1>0, <2>2, <2>3, <2>6 DEF SameRest, OnlyStack
  <2>8. c = Len(v.events)
    BY <2>7
  <2>9. Good(ClickFor(v, ev, n), c) /\ Len(ClickFor(v, ev, n).events) = c
    BY <1>0, <2>6, <2>7, <2>8, ClickForKeeps
  <2>. QED  BY <2>1, <2>9
<1>4. CASE saved # Undefined /\ t.events[ev].trig # 3 /\ HasLength(saved)
  <2>. DEFINE x == saved.ev
              e == [t.events[x] EXCEPT !.stopped = FALSE, !.immediate = FALSE, !.prevented = FALSE]
              fresh == [t EXCEPT !.events[x] = e]
              f == [at |-> "reinvoked", n |-> n, ev |-> ev]
              w == Push(fresh, f)
  <2>1. u = Trigger(w, x, n, FALSE, FALSE)
    BY <1>4 DEF Leverage
  <2>2. x \in 1..c
    <3>1. PICK k \in DOMAIN t.stack : Interrupted(t.stack[k], n, x)
      BY <1>0, <1>4 DEF Good, Wired, Uppermost
    <3>2. t.stack[k] \in Frame
      BY <1>0, Types
    <3>3. HasEvent(t.stack[k]) /\ t.stack[k].ev = x
      BY <3>1 DEF HasEvent, Interrupted
    <3>4. Reach(t.stack[k]) = x /\ Reach(t.stack[k]) \in Nat
      BY <3>2, <3>3, Reaches
    <3>. QED  BY <1>0, <3>3, <3>4 DEF Good, Stacked, Numbered
  <2>3. f \in LeverFrame /\ f.n = n /\ f.ev = ev /\ f.at = "reinvoked"
    BY <1>0 DEF LeverFrame
  <2>. HIDE DEF f, x
  <2>4. t.events[x] \in Event /\ x \in DOMAIN t.events
    BY <1>0, <2>2, Types
  <2>5. e \in Event
    BY <2>4 DEF Event
  <2>. HIDE DEF e
  <2>6. OnlyEvents(t, fresh) /\ Flags(t, fresh) /\ DOMAIN fresh.events = DOMAIN t.events
    <3>1. fresh = EventPut(t, x, e)
      BY DEF EventPut
    <3>. HIDE DEF fresh
    <3>. QED  BY <1>0, <2>4, <2>5, <3>1, EventPutIs
  <2>. HIDE DEF fresh
  <2>7. Good(fresh, c) /\ Len(fresh.events) = c /\ Open(fresh)
    BY <1>0, <2>6, FlagsKeep DEF Flags, Open, OnlyEvents
  <2>8. /\ Good(w, c) /\ OnlyStack(fresh, w) /\ w.stack # <<>> /\ Uppermost(w.stack) = f
    BY <1>0, <2>3, <2>7, LeverPush
  <2>. HIDE DEF w
  <2>9. x \in DOMAIN w.events /\ Len(w.events) = c /\ Open(w)
    BY <2>3, <2>4, <2>6, <2>7, <2>8 DEF OnlyStack, Open
  <2>10. Owes(FALSE, x, c, c)
    BY <1>0, <2>2 DEF Owes
  <2>11. FALSE \in BOOLEAN
    OBVIOUS
  <2>12. /\ Good(Trigger(w, x, n, FALSE, FALSE), c)
         /\ Len(Trigger(w, x, n, FALSE, FALSE).events) = Len(w.events)
    BY ONLY <1>0, <2>8, <2>9, <2>10, <2>11, TriggerKeeps, Zenon
  <2>. QED  BY <2>1, <2>9, <2>12
<1>. QED  BY <1>1, <1>2, <1>3, <1>4 DEF Leverage

-----------------------------------------------------------------------------
(* The inductive invariant: no event is without a frame.  One lemma for each
   action follows. *)
Fine == Good(s, Len(s.events))

LEMMA TopIs ==
  /\ Top = Uppermost(s.stack)
  /\ \A f : At(f) <=> s.stack # <<>> /\ Uppermost(s.stack).at = f
BY DEF Top, Depth, Uppermost, At

LEMMA Ready ==
  ASSUME Fine
  PROVE  /\ Page(s) /\ DOMAIN s = Parts /\ Len(s.events) \in Nat /\ s.stack \in Seq(Frame)
         /\ Good(s, Len(s.events)) /\ DOMAIN s.priv = Nodes
         /\ (s.stack # <<>> => Uppermost(s.stack) \in Frame)
         /\ (s.stack # <<>> /\ HasEvent(Uppermost(s.stack)) => Uppermost(s.stack).ev \in DOMAIN s.events
                                                          /\ Uppermost(s.stack).ev <= Len(s.events))
         /\ (s.triggered => s.stack # <<>> /\ Uppermost(s.stack).at \in {"triggered", "native"})
<1>1. Page(s) /\ DOMAIN s = Parts /\ Len(s.events) \in Nat /\ s.stack \in Seq(Frame) /\ DOMAIN s.priv = Nodes
  BY DEF Fine, Good, Page
<1>2. s.stack # <<>> =>
        /\ Uppermost(s.stack) \in Frame
        /\ (HasEvent(Uppermost(s.stack)) => Uppermost(s.stack).ev \in DOMAIN s.events
                                                          /\ Uppermost(s.stack).ev <= Len(s.events))
        /\ (s.triggered => Uppermost(s.stack).at \in {"triggered", "native"})
  BY TopFrame DEF Fine
<1>3. s.triggered => s.stack # <<>>
  BY <1>1 DEF Fine, Good, Guarded
<1>. QED  BY <1>1, <1>2, <1>3 DEF Fine

LEMMA NativeTurnKeeps == Fine /\ NativeTurn => Fine'
<1>. SUFFICES ASSUME Fine, NativeTurn PROVE Fine'
  OBVIOUS
<1>. DEFINE f == Uppermost(s.stack)
            c == Len(s.events)
            g == [f EXCEPT !.path = Tail(@)]
            n == Head(f.path)
            t == Swap(s, g)
            e == NewEvent(f.n, "", Depth, f.prevented)
            made == [t EXCEPT !.events = Append(@, e)]
            u == Dispatch(made, n, Len(made.events), TRUE)
<1>1. /\ s.stack # <<>> /\ f.at = "native" /\ f.path # <<>> /\ f \in Frame /\ c \in Nat /\ Page(s)
      /\ Good(s, c) /\ DOMAIN s.priv = Nodes
  BY Ready, TopIs DEF NativeTurn
<1>2. s' = IF n \in s.listening /\ ~s.triggered THEN u ELSE t
  BY Zenon DEF NativeTurn, Top, Depth, Uppermost
<1>3. g \in Frame /\ Same(f, g) /\ g.at = f.at /\ n \in Nodes
  BY <1>1, PathLess
<1>. HIDE DEF g
<1>4. Good(t, c) /\ OnlyStack(s, t) /\ t.stack # <<>> /\ Uppermost(t.stack) = g
  BY <1>1, <1>3, SwapKeeps
<1>. HIDE DEF t
<1>5. CASE ~(n \in s.listening /\ ~s.triggered)
  BY <1>2, <1>4, <1>5 DEF Fine, OnlyStack
<1>6. CASE n \in s.listening /\ ~s.triggered
  <2>1. f.n \in Nodes /\ "" \in Spaces /\ Depth \in Nat /\ f.prevented \in BOOLEAN
    <3>1. f \in NativeFrame
      BY <1>1, Kinds
    <3>2. f.prevented \in BOOLEAN
      BY <3>1 DEF NativeFrame
    <3>. QED  BY <1>1, <3>1, <3>2, Types DEF NativeFrame, Spaces, Depth
  <2>2. c = Len(t.events)
    BY <1>4 DEF OnlyStack
  <2>. DEFINE d == Len(made.events)
  <2>3. /\ Good(made, c) /\ OnlyEvents(t, made) /\ d = c + 1 /\ d \in DOMAIN made.events
    <3>0. e \in Event /\ made = [t EXCEPT !.events = Append(@, e)]
      BY <2>1 DEF NewEvent, Event
    <3>. HIDE DEF e, made
    <3>1. /\ Good(made, c) /\ OnlyEvents(t, made)
          /\ Len(made.events) = Len(t.events) + 1 /\ Len(made.events) \in DOMAIN made.events
      BY <1>4, <3>0, EventMade
    <3>. QED  BY <2>2, <3>1
  <2>. HIDE DEF made
  <2>4. made.priv = s.priv /\ made.stack = t.stack /\ made.triggered = s.triggered
    BY <1>4, <2>3 DEF OnlyStack, OnlyEvents
  <2>5. Open(made)
    BY <1>1, <1>3, <1>4, <1>6, <2>4 DEF Open
  <2>6. made.priv[n].list # <<>>
    BY <1>1, <1>3, <1>6, <2>4 DEF Good, ListsInv
  <2>7. Owes(TRUE, d, c, d)
    BY <2>3 DEF Owes
  <2>8. u = Dispatch(made, n, d, TRUE) /\ TRUE \in BOOLEAN
    OBVIOUS
  <2>. HIDE DEF d, u, n
  <2>9. Good(u, d) /\ Len(u.events) = Len(made.events)
    BY ONLY <1>3, <2>3, <2>5, <2>6, <2>7, <2>8, DispatchKeeps, Zenon
  <2>. QED  BY <1>2, <1>6, <2>9 DEF Fine, d
<1>. QED  BY <1>5, <1>6

LEMMA TriggerTurnKeeps == Fine /\ TriggerTurn => Fine'
<1>. SUFFICES ASSUME Fine, TriggerTurn PROVE Fine'
  OBVIOUS
<1>. DEFINE f == Uppermost(s.stack)
            c == Len(s.events)
            g == [f EXCEPT !.path = Tail(@)]
            n == Head(f.path)
            ev == f.ev
            t == Swap(s, g)
            u == Dispatch(t, n, ev, FALSE)
<1>1. /\ s.stack # <<>> /\ f.at = "trigger" /\ f.path # <<>> /\ f \in Frame /\ c \in Nat /\ Page(s)
      /\ Good(s, c) /\ ~s.triggered /\ ev \in DOMAIN s.events /\ ev <= c
  BY Ready, TopIs DEF TriggerTurn, HasEvent
<1>2. s' = IF s.priv[n].list # <<>> /\ ~s.triggered THEN u ELSE t
  BY Zenon DEF TriggerTurn, Top, Depth, Uppermost
<1>3. g \in Frame /\ Same(f, g) /\ g.at = f.at /\ n \in Nodes
  BY <1>1, PathLess
<1>. HIDE DEF g
<1>4. Good(t, c) /\ OnlyStack(s, t) /\ t.stack # <<>> /\ Uppermost(t.stack) = g
  BY <1>1, <1>3, SwapKeeps
<1>. HIDE DEF t
<1>5. CASE s.priv[n].list = <<>>
  BY <1>2, <1>4, <1>5 DEF Fine, OnlyStack
<1>6. CASE s.priv[n].list # <<>>
  <2>1. Open(t) /\ ev \in DOMAIN t.events /\ t.priv[n].list # <<>> /\ c = Len(t.events)
    BY <1>1, <1>3, <1>4, <1>6 DEF Open, OnlyStack
  <2>2. Owes(FALSE, ev, c, c)
    BY <1>1 DEF Owes
  <2>3. u = Dispatch(t, n, ev, FALSE) /\ FALSE \in BOOLEAN
    OBVIOUS
  <2>. HIDE DEF c, u, n, ev
  <2>4. Good(u, c) /\ Len(u.events) = Len(t.events)
    BY ONLY <1>3, <1>4, <2>1, <2>2, <2>3, DispatchKeeps, Zenon
  <2>. QED  BY <1>1, <1>2, <1>6, <2>1, <2>4 DEF Fine
<1>. QED  BY <1>5, <1>6

(* The frame on top ends. *)
LEMMA EndKeeps ==
  ASSUME Fine, s.stack # <<>>, NEW u, Page(u), u.stack = Pop(s).stack, u.priv = s.priv,
         u.listening = s.listening, u.rebound = s.rebound,
         u.events = IF Mine(Uppermost(s.stack)) THEN Drop(s.events) ELSE s.events,
         u.inClick = s.inClick \ {n \in {Uppermost(s.stack).n} : Method(Uppermost(s.stack), n)},
         u.triggered => s.triggered /\ Uppermost(s.stack).at = "native",
         Uppermost(s.stack).at = "interrupted" => ~HasLength(s.priv[Uppermost(s.stack).n].click)
  PROVE  Good(u, Len(u.events))
<1>. DEFINE c == Len(s.events)
            f == Uppermost(s.stack)
            d == IF Mine(f) THEN c - 1 ELSE c
<1>1. Page(s) /\ Good(s, c) /\ c \in Nat /\ s.stack \in Seq(Frame) /\ s.events \in Seq(Event) /\ f \in Frame
  BY Ready DEF Page
<1>2. u.stack = SubSeq(s.stack, 1, Len(s.stack) - 1)
  BY <1>1, PopIs
<1>3. Len(u.events) = d
  <2>1. CASE Mine(f)
    <3>1. f.ev \in DOMAIN s.events
      BY <2>1, Ready DEF Mine, HasEvent
    <3>2. c > 0
      BY <1>1, <3>1
    <3>3. Len(SubSeq(s.events, 1, c - 1)) = c - 1
      BY <1>1, <3>2
    <3>. QED  BY <2>1, <3>3 DEF Drop
  <2>2. CASE ~Mine(f)
    BY <2>2
  <2>. QED  BY <2>1, <2>2
<1>4. u.triggered => Guarded(u.stack)
  <2>. SUFFICES ASSUME u.triggered PROVE Guarded(u.stack)
    OBVIOUS
  <2>. DEFINE m == Len(s.stack)
  <2>1. s.triggered /\ s.stack[m].at = "native"
    BY DEF Uppermost
  <2>2. m > 1 /\ s.stack[m - 1].at = "triggered" /\ m \in Nat
    BY <1>1, <2>1 DEF Good, Guarded
  <2>3. Len(u.stack) = m - 1 /\ u.stack[m - 1] = s.stack[m - 1]
    BY <1>1, <1>2, <2>2
  <2>. QED  BY <2>2, <2>3 DEF Guarded
<1>5. d <= Len(u.events)
  BY <1>1, <1>3
<1>. HIDE DEF c, d
<1>6. d = IF Mine(f) THEN c - 1 ELSE c
  BY DEF d
<1>7. Good(u, d)
  BY <1>1, <1>2, <1>4, <1>5, <1>6, TopGone
<1>. QED  BY <1>3, <1>7

LEMMA DropTyped == \A q \in Seq(Event) : q # <<>> => Drop(q) \in Seq(Event)
BY DEF Drop

LEMMA OwnEvent ==
  ASSUME Fine, s.stack # <<>>, Mine(Uppermost(s.stack))
  PROVE  s.events # <<>> /\ s.events \in Seq(Event)
<1>1. Uppermost(s.stack).ev \in DOMAIN s.events /\ s.events \in Seq(Event)
  BY Ready DEF Mine, HasEvent, Page
<1>. QED  BY <1>1

LEMMA NativeEndKeeps == Fine /\ NativeEnd => Fine'
<1>. SUFFICES ASSUME Fine, NativeEnd PROVE Fine'
  OBVIOUS
<1>. DEFINE f == Uppermost(s.stack)
            p == Pop(s)
            a == IF f.method THEN s.inClick \ {f.n} ELSE s.inClick
            b == IF ~f.prevented \/ f.n \notin Boxes THEN s.checked
                 ELSE IF f.was THEN s.checked \cup {f.n} ELSE s.checked \ {f.n}
            u == [p EXCEPT !.inClick = a, !.checked = b]
<1>1. s.stack # <<>> /\ f.at = "native" /\ f \in Frame /\ Page(s) /\ DOMAIN s = Parts
  BY Ready, TopIs DEF NativeEnd
<1>2. s' = [p EXCEPT
             !.inClick = IF f.method THEN @ \ {f.n} ELSE @,
             !.checked = IF ~f.prevented \/ f.n \notin Boxes THEN @
                         ELSE IF f.was THEN @ \cup {f.n} ELSE @ \ {f.n}]
  BY Zenon DEF NativeEnd, Top, Depth, Uppermost
<1>3. Page(p) /\ OnlyStack(s, p)
  BY <1>1, PopIs
<1>4. f \in NativeFrame /\ ~Mine(f)
  BY <1>1, Kinds DEF Mine
<1>5. a \subseteq Nodes /\ b \subseteq Boxes
      /\ a = s.inClick \ {n \in {f.n} : Method(f, n)}
  BY <1>1, <1>4 DEF Page, NativeFrame, Method
<1>6. s' = u
  BY <1>2, <1>3 DEF OnlyStack
<1>. HIDE DEF a, b, p
<1>7. /\ DOMAIN u = Parts /\ u.up = p.up /\ u.priv = p.priv /\ u.listening = p.listening
      /\ u.checked = b /\ u.inClick = a /\ u.events = p.events
      /\ u.triggered = p.triggered /\ u.stack = p.stack
      /\ u.threw = p.threw /\ u.unclaimed = p.unclaimed /\ u.rebound = p.rebound
  BY <1>1, <1>3 DEF OnlyStack, Parts
<1>. HIDE DEF u
<1>8. Page(u)
  BY <1>3, <1>5, <1>7 DEF Page
<1>9. Good(u, Len(u.events))
  BY <1>1, <1>3, <1>4, <1>5, <1>7, <1>8, EndKeeps DEF OnlyStack, p
<1>. QED  BY <1>6, <1>9 DEF Fine

LEMMA TriggerEndKeeps == Fine /\ TriggerEnd => Fine'
<1>. SUFFICES ASSUME Fine, TriggerEnd PROVE Fine'
  OBVIOUS
<1>. DEFINE f == Uppermost(s.stack)
            p == Pop(s)
            e == IF f.mine THEN Drop(s.events) ELSE s.events
            u == [p EXCEPT !.triggered = FALSE, !.events = e]
<1>1. s.stack # <<>> /\ f.at = "triggered" /\ f \in Frame /\ Page(s) /\ DOMAIN s = Parts
  BY Ready, TopIs DEF TriggerEnd
<1>2. s' = [p EXCEPT !.triggered = FALSE, !.events = IF f.mine THEN Drop(@) ELSE @]
  BY Zenon DEF TriggerEnd, Top, Depth, Uppermost
<1>3. Page(p) /\ OnlyStack(s, p)
  BY <1>1, PopIs
<1>4. f \in TriggeredFrame /\ (Mine(f) <=> f.mine) /\ \A n : ~Method(f, n)
  BY <1>1, Kinds DEF Mine, Method
<1>5. e = (IF Mine(f) THEN Drop(s.events) ELSE s.events) /\ e \in Seq(Event)
  <2>1. CASE Mine(f)
    BY <1>1, <1>4, <2>1, OwnEvent, DropTyped
  <2>2. CASE ~Mine(f)
    BY <1>1, <1>4, <2>2 DEF Page
  <2>. QED  BY <2>1, <2>2
<1>6. s' = u
  BY <1>2, <1>3 DEF OnlyStack
<1>. HIDE DEF e, p
<1>7. /\ DOMAIN u = Parts /\ u.up = p.up /\ u.priv = p.priv /\ u.listening = p.listening
      /\ u.checked = p.checked /\ u.inClick = p.inClick /\ u.events = e
      /\ u.triggered = FALSE /\ u.stack = p.stack
      /\ u.threw = p.threw /\ u.unclaimed = p.unclaimed /\ u.rebound = p.rebound
  BY <1>1, <1>3 DEF OnlyStack, Parts
<1>. HIDE DEF u
<1>8. Page(u)
  BY <1>3, <1>5, <1>7 DEF Page
<1>9. u.inClick = s.inClick \ {n \in {f.n} : Method(f, n)}
  BY <1>3, <1>4, <1>7 DEF OnlyStack
<1>10. Good(u, Len(u.events))
  BY <1>1, <1>3, <1>4, <1>5, <1>7, <1>8, <1>9, EndKeeps DEF OnlyStack, p
<1>. QED  BY <1>6, <1>10 DEF Fine

LEMMA TriggerDefaultKeeps == Fine /\ TriggerDefault => Fine'
<1>. SUFFICES ASSUME Fine, TriggerDefault PROVE Fine'
  OBVIOUS
<1>. DEFINE f == Uppermost(s.stack)
            c == Len(s.events)
            g == [at |-> "triggered", ev |-> f.ev, mine |-> f.mine]
            t == Swap(s, g)
            v == [t EXCEPT !.triggered = TRUE]
            u == ClickFor(v, f.ev, f.n)
<1>1. /\ s.stack # <<>> /\ f.at = "trigger" /\ f \in Frame /\ c \in Nat /\ Page(s) /\ DOMAIN s = Parts
      /\ Good(s, c) /\ ~s.triggered /\ f.ev \in DOMAIN s.events
  BY Ready, TopIs DEF TriggerDefault, HasEvent
<1>2. s' \in {t, u}
  BY Zenon DEF TriggerDefault, Top, Depth, Uppermost
<1>3. g \in Frame /\ Same(f, g) /\ g.at = "triggered" /\ f.n \in Nodes
  <2>1. f \in TriggerFrame
    BY <1>1, Kinds
  <2>2. g \in TriggeredFrame
    BY <2>1 DEF TriggerFrame, TriggeredFrame
  <2>3. f.n \in Nodes
    BY <2>1 DEF TriggerFrame
  <2>. QED  BY <1>1, <2>2, <2>3 DEF Frame, Same, Reach, HasEvent, Mine, Method
<1>. HIDE DEF g
<1>4. Good(t, c) /\ OnlyStack(s, t) /\ t.stack # <<>> /\ Uppermost(t.stack) = g
  BY <1>1, <1>3, SwapKeeps
<1>. HIDE DEF t
<1>5. CASE s' = t
  BY <1>4, <1>5 DEF Fine, OnlyStack
<1>6. CASE s' = u
  <2>1. /\ DOMAIN v = Parts /\ v.up = t.up /\ v.priv = t.priv /\ v.listening = t.listening
        /\ v.checked = t.checked /\ v.inClick = t.inClick /\ v.events = t.events
        /\ v.triggered = TRUE /\ v.stack = t.stack
        /\ v.threw = t.threw /\ v.unclaimed = t.unclaimed /\ v.rebound = t.rebound
    BY <1>1, <1>4 DEF OnlyStack, Parts
  <2>. HIDE DEF v
  <2>2. Page(v) /\ ListsInv(v)
    BY <1>4, <2>1 DEF Good, Page, ListsInv
  <2>3. Guarded(v.stack)
    <3>1. Len(t.stack) \in Nat /\ Len(t.stack) > 0
      BY <1>4, Types DEF Good
    <3>. QED  BY <1>3, <1>4, <2>1, <3>1 DEF Guarded, Uppermost
  <2>4. Good(v, c)
    BY <1>4, <2>1, <2>2, <2>3 DEF Good
  <2>5. c = Len(v.events) /\ f.ev \in DOMAIN v.events /\ v.stack # <<>> /\ Uppermost(v.stack).at = "triggered"
    BY <1>1, <1>3, <1>4, <2>1 DEF OnlyStack
  <2>6. Good(u, c) /\ Len(u.events) = c
    BY <1>3, <2>4, <2>5, ClickForKeeps
  <2>. QED  BY <1>6, <2>6 DEF Fine
<1>. QED  BY <1>2, <1>5, <1>6

(* The controller goes on. *)
LEMMA LeverEnd ==
  ASSUME Fine, s.stack # <<>>, Uppermost(s.stack).at \in {"interrupted", "reinvoked"},
         NEW x \in {Unset, Capture}, NEW t, t = [Pop(s) EXCEPT !.priv[Uppermost(s.stack).n].click = x]
  PROVE  Good(t, Len(s.events)) /\ Page(t) /\ t.events = s.events /\ Uppermost(s.stack).ev \in DOMAIN t.events
<1>. DEFINE f == Uppermost(s.stack)
            c == Len(s.events)
            v == ClickSet(s, f.n, x)
<1>1. /\ f \in Frame /\ Page(s) /\ DOMAIN s = Parts /\ Good(s, c) /\ f.ev \in DOMAIN s.events
  BY Ready DEF HasEvent
<1>2. f.n \in Nodes /\ ~Mine(f) /\ \A n : ~Method(f, n)
  <2>1. f \in LeverFrame
    BY <1>1, Kinds
  <2>2. f.n \in Nodes
    BY <2>1 DEF LeverFrame
  <2>. QED  BY <2>2 DEF Mine, Method
<1>3. IsClick(x) /\ ~HasLength(x)
  BY DEF IsClick, HasLength, Unset, Capture
<1>4. Good(v, c) /\ SameRest(s, v) /\ v.priv[f.n].click = x
  BY <1>1, <1>2, <1>3, ClickSetKeeps
<1>5. t = Pop(v)
  BY <1>1, PopSet
<1>. HIDE DEF v, f
<1>6. v.stack # <<>> /\ Uppermost(v.stack) = f /\ Page(v) /\ c \in Nat /\ c = Len(v.events)
  BY <1>1, <1>4, Ready DEF SameRest, f, Good
<1>7. Page(t) /\ OnlyStack(v, t) /\ t.stack = SubSeq(v.stack, 1, Len(v.stack) - 1)
  BY <1>5, <1>6, PopIs
<1>8. t.triggered => Guarded(t.stack)
  BY <1>1, <1>4, <1>7, Ready DEF OnlyStack, SameRest, f
<1>9. Good(t, c)
  <2>1. t.inClick = v.inClick \ {n \in {Uppermost(v.stack).n} : Method(Uppermost(v.stack), n)}
    BY <1>2, <1>6, <1>7 DEF OnlyStack
  <2>2. c = (IF Mine(Uppermost(v.stack)) THEN c - 1 ELSE c) /\ c <= Len(t.events)
    BY <1>2, <1>6, <1>7 DEF OnlyStack
  <2>3. t.priv = v.priv /\ t.listening = v.listening /\ t.rebound = v.rebound
    BY <1>7 DEF OnlyStack
  <2>4. ~HasLength(v.priv[Uppermost(v.stack).n].click)
    BY <1>3, <1>4, <1>6
  <2>. HIDE DEF c
  <2>. QED  BY <1>4, <1>6, <1>7, <1>8, <2>1, <2>2, <2>3, <2>4, TopGone
<1>. QED  BY <1>1, <1>4, <1>7, <1>9 DEF OnlyStack, SameRest, f

LEMMA FlagsFine ==
  ASSUME NEW t, NEW c, Good(t, c), c = Len(t.events), NEW u, Flags(t, u)
  PROVE  Good(u, Len(u.events))
BY FlagsKeep DEF Flags

(* Under the call of a controller there is no other: what stands on that is
   the click method. *)
LeverLeaves(t) ==
  ~t.triggered /\ t.stack \in Seq(Frame) /\ (t.stack # <<>> => Uppermost(t.stack).at # "interrupted")
LEMMA LeverBelow ==
  ASSUME Fine, s.stack # <<>>, Uppermost(s.stack).at \in {"interrupted", "reinvoked"}, NEW x
  PROVE  LeverLeaves([Pop(s) EXCEPT !.priv[Uppermost(s.stack).n].click = x])
<1>. DEFINE q == s.stack
            m == Len(q)
            t == [Pop(s) EXCEPT !.priv[Uppermost(s.stack).n].click = x]
<1>0. Page(s) /\ DOMAIN s = Parts /\ q \in Seq(Frame) /\ Follows(q) /\ ~s.triggered
  BY Ready DEF Good, Stacked
<1>1. Page(Pop(s)) /\ OnlyStack(s, Pop(s)) /\ Pop(s).stack = SubSeq(q, 1, m - 1)
  BY <1>0, PopIs
<1>2. t.stack = SubSeq(q, 1, m - 1) /\ t.triggered = s.triggered
  BY <1>0, <1>1 DEF OnlyStack, Page, Parts
<1>3. /\ m \in Nat /\ m > 0 /\ DOMAIN q = 1..m /\ Len(q) = m
      /\ q[m].at \in {"interrupted", "reinvoked"}
  BY <1>0 DEF Uppermost
<1>. SUFFICES LeverLeaves(t)
  OBVIOUS
<1>. HIDE DEF t, m
<1>4. CASE m = 1
  <2>1. t.stack = <<>>
    BY <1>0, <1>2, <1>4
  <2>2. <<>> \in Seq(Frame)
    OBVIOUS
  <2>3. ~t.triggered
    BY <1>0, <1>2
  <2>. QED  BY <2>1, <2>2, <2>3, Zenon DEF LeverLeaves
<1>5. CASE m # 1
  <2>1. m - 1 \in DOMAIN q /\ m - 1 < Len(q) /\ m - 1 + 1 = m
    BY <1>0, <1>3, <1>5
  <2>2. q[m - 1].at # "interrupted"
    BY <1>0, <1>3, <2>1 DEF Follows, Method
  <2>3. t.stack \in Seq(Frame) /\ Len(t.stack) = m - 1 /\ t.stack[m - 1] = q[m - 1]
    BY <1>0, <1>2, <2>1
  <2>. QED  BY <1>0, <1>2, <2>2, <2>3 DEF LeverLeaves, Uppermost
<1>. QED  BY <1>4, <1>5

LEMMA FlagsTop ==
  ASSUME NEW t, NEW u, Flags(t, u), LeverLeaves(t)
  PROVE  LeverLeaves(u)
<1>1. u.stack \in Seq(Frame) /\ Alike(t.stack, u.stack) /\ u.triggered = t.triggered
  BY DEF Flags, Page
<1>2. CASE u.stack = <<>>
  BY <1>1, <1>2 DEF LeverLeaves
<1>3. CASE u.stack # <<>>
  <2>1. Len(u.stack) = Len(t.stack) /\ Len(t.stack) \in DOMAIN t.stack /\ t.stack # <<>>
    BY <1>1, <1>3 DEF Alike, LeverLeaves
  <2>2. Same(Uppermost(t.stack), Uppermost(u.stack))
    BY <1>1, <2>1 DEF Alike, Uppermost
  <2>. QED  BY <1>1, <2>1, <2>2 DEF LeverLeaves, Same
<1>. QED  BY <1>2, <1>3

LEMMA InterruptedEndsKeeps == Fine /\ InterruptedEnds => Fine'
<1>. SUFFICES ASSUME Fine, InterruptedEnds PROVE Fine'
  OBVIOUS
<1>. DEFINE f == Uppermost(s.stack)
            t == [Pop(s) EXCEPT !.priv[f.n].click = Unset]
            u == Cancelled(t, f.ev)
<1>1. s.stack # <<>> /\ f.at \in {"interrupted", "reinvoked"}
  BY TopIs DEF InterruptedEnds
<1>2. s' \in {t, u, Thrown(u)}
  BY Zenon DEF InterruptedEnds, Top, Depth, Uppermost
<1>3. Good(t, Len(s.events)) /\ Page(t) /\ t.events = s.events /\ f.ev \in DOMAIN t.events
  <2>1. Unset \in {Unset, Capture}
    OBVIOUS
  <2>. QED  BY <1>1, <2>1, LeverEnd
<1>. HIDE DEF t
<1>4. Flags(t, u)
  BY <1>3, CancelledFlags
<1>5. Good(u, Len(u.events))
  BY <1>3, <1>4, FlagsFine
<1>6. ~u.triggered /\ (u.stack # <<>> => Uppermost(u.stack).at # "interrupted")
  <2>1. LeverLeaves(t)
    BY <1>1, LeverBelow DEF t
  <2>. QED  BY <1>4, <2>1, FlagsTop DEF LeverLeaves
<1>. HIDE DEF u
<1>7. Good(Thrown(u), Len(Thrown(u).events))
  BY <1>5, <1>6, ThrownKeeps
<1>. QED  BY <1>2, <1>3, <1>5, <1>7 DEF Fine

LEMMA ReinvokedEndsKeeps == Fine /\ ReinvokedEnds => Fine'
<1>. SUFFICES ASSUME Fine, ReinvokedEnds PROVE Fine'
  OBVIOUS
<1>. DEFINE f == Uppermost(s.stack)
            t == [Pop(s) EXCEPT !.priv[f.n].click = Capture]
            u == StopImmediate(t, f.ev)
<1>1. s.stack # <<>> /\ f.at \in {"interrupted", "reinvoked"}
  BY TopIs DEF ReinvokedEnds
<1>2. s' = u
  BY Zenon DEF ReinvokedEnds, Top, Depth, Uppermost
<1>3. Good(t, Len(s.events)) /\ Page(t) /\ t.events = s.events /\ f.ev \in DOMAIN t.events
  <2>1. Capture \in {Unset, Capture}
    OBVIOUS
  <2>. QED  BY <1>1, <2>1, LeverEnd
<1>. HIDE DEF t
<1>4. Flags(t, u)
  BY <1>3, ImmediateFlags
<1>5. Good(u, Len(u.events))
  BY <1>3, <1>4, FlagsFine
<1>. QED  BY <1>2, <1>5 DEF Fine

(* A handler returns or throws. *)
LEMMA PopFine ==
  ASSUME Fine, s.stack # <<>>, Uppermost(s.stack).at = "user"
  PROVE  Good(Pop(s), Len(Pop(s).events)) /\ Pop(s).events = s.events /\ Page(Pop(s))
<1>. DEFINE f == Uppermost(s.stack)
            u == Pop(s)
<1>1. f \in Frame /\ Page(s) /\ ~s.triggered
  BY Ready
<1>2. Page(u) /\ OnlyStack(s, u)
  BY <1>1, PopIs
<1>3. ~Mine(f) /\ \A n : ~Method(f, n)
  BY DEF Mine, Method
<1>4. Good(u, Len(u.events))
  <2>1. u.inClick = s.inClick \ {n \in {f.n} : Method(f, n)}
    BY <1>2, <1>3 DEF OnlyStack
  <2>. QED  BY <1>1, <1>2, <1>3, <2>1, EndKeeps DEF OnlyStack
<1>. QED  BY <1>2, <1>4 DEF OnlyStack

LEMMA ReturnKeeps == Fine /\ Return => Fine'
<1>. SUFFICES ASSUME Fine, Return PROVE Fine'
  OBVIOUS
<1>. DEFINE f == Uppermost(s.stack)
            t == Pop(s)
            v == Prevent(t, f.ev)
            u == StopPropagation(v, f.ev)
<1>1. s.stack # <<>> /\ f.at = "user" /\ f.ev \in DOMAIN s.events
  BY Ready, TopIs DEF Return, HasEvent
<1>2. s' \in {t, u}
  BY Zenon DEF Return, Top, Depth, Uppermost
<1>3. Good(t, Len(t.events)) /\ t.events = s.events /\ Page(t)
  BY <1>1, PopFine
<1>. HIDE DEF t
<1>4. Flags(t, v)
  BY <1>1, <1>3, PreventFlags
<1>5. Page(v) /\ f.ev \in DOMAIN v.events
  BY <1>1, <1>3, <1>4, FlagsDomain
<1>. HIDE DEF v
<1>6. Flags(v, u)
  BY <1>5, StopFlags
<1>7. Flags(t, u)
  BY <1>3, <1>4, <1>6, FlagsTrans
<1>8. Good(u, Len(u.events))
  BY <1>3, <1>7, FlagsFine
<1>. QED  BY <1>2, <1>3, <1>8 DEF Fine

LEMMA ThrowKeeps == Fine /\ Throw => Fine'
<1>. SUFFICES ASSUME Fine, Throw PROVE Fine'
  OBVIOUS
<1>1. Uppermost(s.stack).at = "user" /\ s' = Thrown(s) /\ ~s.triggered
  BY Ready, TopIs DEF Throw
<1>. QED  BY <1>1, ThrownKeeps DEF Fine

(* A handler is called: that of one() is unbound first. *)
LEMMA CalledKeeps ==
  ASSUME NEW t, NEW c, Good(t, c), c = Len(t.events), t.stack # <<>>, ~t.triggered,
         Uppermost(t.stack).at = "dispatch",
         NEW h \in Handlers, NEW b \in BOOLEAN, b <=> h.one /\ t.events[Uppermost(t.stack).ev].delegateTarget # Uppermost(t.stack).n,
         NEW v, v = Unbound(t, h, Uppermost(t.stack).ev), NEW w, w = [v EXCEPT !.rebound = @ \/ b],
         NEW u, u = Push(w, [at |-> "user", ev |-> Uppermost(t.stack).ev, h |-> h])
  PROVE  Good(u, Len(u.events))
<1>. DEFINE d == Uppermost(t.stack)
            f == [at |-> "user", ev |-> d.ev, h |-> h]
<1>1. /\ c \in Nat /\ d.ev \in 1..c /\ d.ev \in DOMAIN t.events
  BY TopFrame DEF HasEvent
<1>2. /\ Good(v, c) /\ SameRest(t, v)
      /\ h.one => ~Holds(v.priv, t.events[d.ev].delegateTarget, h)
  BY <1>1, UnboundKeeps
<1>3. DOMAIN v = Parts /\ Page(v) /\ v.rebound \in BOOLEAN
  BY <1>2 DEF Good, Page
<1>4. /\ DOMAIN w = Parts /\ w.up = v.up /\ w.priv = v.priv /\ w.listening = v.listening
      /\ w.checked = v.checked /\ w.inClick = v.inClick /\ w.events = v.events
      /\ w.triggered = v.triggered /\ w.stack = v.stack /\ w.threw = v.threw
      /\ w.unclaimed = v.unclaimed /\ w.rebound = (v.rebound \/ b)
  BY <1>3 DEF Parts
<1>5. Page(w) /\ ListsInv(w)
  <2>1. w.rebound \in BOOLEAN
    BY <1>4
  <2>. QED  BY <1>2, <1>3, <1>4, <2>1 DEF Page, ListsInv, Good
<1>6. Good(w, c)
  BY <1>2, <1>4, <1>5 DEF Good
<1>7. w.stack = t.stack /\ w.events = t.events /\ ~w.triggered
  BY <1>2, <1>4 DEF SameRest
<1>8. f \in UserFrame /\ f \in Frame /\ f.at = "user" /\ f.ev = d.ev /\ f.h = h
  BY <1>1 DEF UserFrame, Frame
<1>. HIDE DEF f
<1>9. ~Mine(f) /\ HasEvent(f) /\ Reach(f) = d.ev
  BY <1>8 DEF Mine, HasEvent, Reach
<1>10. ~w.rebound /\ h.one => ~Holds(w.priv, d.n, h)
  BY <1>2, <1>4
<1>11. Fits(w, f, c, c)
  BY <1>1, <1>7, <1>8, <1>9, <1>10 DEF Fits
<1>12. Good(Push(w, f), c)
  <2>1. c <= Len(w.events) /\ f.at # "native"
    BY <1>1, <1>7, <1>8
  <2>. QED  BY ONLY <1>6, <1>7, <1>11, <2>1, PushKeeps
<1>13. Push(w, f).events = w.events
  BY ONLY <1>5, <1>8, PushIs DEF OnlyStack
<1>14. u = Push(w, f)
  BY DEF f
<1>. QED  BY <1>7, <1>12, <1>13, <1>14

LEMMA OverKeeps ==
  ASSUME Fine, s.stack # <<>>, Uppermost(s.stack).at = "dispatch",
         NEW u, u = [Pop(s) EXCEPT !.events = IF Uppermost(s.stack).mine THEN Drop(@) ELSE @]
  PROVE  Good(u, Len(u.events))
<1>. DEFINE f == Uppermost(s.stack)
            p == Pop(s)
            e == IF f.mine THEN Drop(s.events) ELSE s.events
<1>1. f \in Frame /\ Page(s) /\ DOMAIN s = Parts /\ ~s.triggered
  BY Ready
<1>2. Page(p) /\ OnlyStack(s, p)
  BY <1>1, PopIs
<1>3. f \in DispatchFrame /\ (Mine(f) <=> f.mine) /\ \A n : ~Method(f, n)
  BY <1>1, Kinds DEF Mine, Method
<1>4. e = (IF Mine(f) THEN Drop(s.events) ELSE s.events) /\ e \in Seq(Event)
  <2>1. CASE Mine(f)
    BY <1>1, <1>3, <2>1, OwnEvent, DropTyped
  <2>2. CASE ~Mine(f)
    BY <1>1, <1>3, <2>2 DEF Page
  <2>. QED  BY <2>1, <2>2
<1>5. u = [p EXCEPT !.events = e]
  BY <1>2 DEF OnlyStack
<1>. HIDE DEF e, p
<1>6. /\ DOMAIN u = Parts /\ u.up = p.up /\ u.priv = p.priv /\ u.listening = p.listening
      /\ u.checked = p.checked /\ u.inClick = p.inClick /\ u.events = e
      /\ u.triggered = p.triggered /\ u.stack = p.stack
      /\ u.threw = p.threw /\ u.unclaimed = p.unclaimed /\ u.rebound = p.rebound
  BY <1>1, <1>2, <1>5 DEF OnlyStack, Parts
<1>7. Page(u)
  BY <1>2, <1>4, <1>6 DEF Page
<1>8. u.inClick = s.inClick \ {n \in {f.n} : Method(f, n)}
  BY <1>2, <1>3, <1>6 DEF OnlyStack
<1>. QED  BY <1>1, <1>2, <1>4, <1>6, <1>7, <1>8, EndKeeps DEF OnlyStack, p

LEMMA DispatchTurnKeeps == Fine /\ DispatchTurn => Fine'
<1>. SUFFICES ASSUME Fine, DispatchTurn PROVE Fine'
  OBVIOUS
<1>. DEFINE f == Uppermost(s.stack)
            c == Len(s.events)
            e == s.events[f.ev]
            over == [Pop(s) EXCEPT !.events = IF f.mine THEN Drop(@) ELSE @]
            q == Head(f.queue)
            h == Head(q.todo)
            less == [f EXCEPT !.queue = Tail(@)]
            g == [f EXCEPT !.queue[1].todo = Tail(@)]
            t == Swap(s, g)
            v == Unbound(t, h, f.ev)
            b == h.one /\ t.events[f.ev].delegateTarget # f.n
            w == [v EXCEPT !.rebound = @ \/ b]
            u == Push(w, [at |-> "user", ev |-> f.ev, h |-> h])
<1>1. /\ s.stack # <<>> /\ f.at = "dispatch" /\ f \in Frame /\ c \in Nat /\ Page(s)
      /\ Good(s, c) /\ ~s.triggered
  BY Ready, TopIs DEF DispatchTurn
<1>2. \/ s' = over
      \/ f.queue # <<>> /\ q.todo = <<>> /\ s' = Swap(s, less)
      \/ f.queue # <<>> /\ q.todo # <<>> /\ s' = t
      \/ f.queue # <<>> /\ q.todo # <<>> /\ h = Lever /\ s' = Leverage(t, q.elem, f.ev)
      \/ f.queue # <<>> /\ q.todo # <<>> /\ h # Lever /\ h # IsTrue /\ s' = u
  BY Zenon DEF DispatchTurn, Top, Depth, Uppermost, Astray
<1>3. CASE s' = over
  BY <1>1, <1>3, OverKeeps DEF Fine
<1>4. CASE f.queue # <<>> /\ s' = Swap(s, less)
  <2>1. less \in Frame /\ Same(f, less)
    BY <1>1, <1>4, QueueLess
  <2>. HIDE DEF less
  <2>2. Good(Swap(s, less), c) /\ OnlyStack(s, Swap(s, less))
    BY <1>1, <2>1, SwapKeeps
  <2>. QED  BY <1>4, <2>2 DEF Fine, OnlyStack
<1>5. ASSUME f.queue # <<>>, q.todo # <<>>
      PROVE  /\ Good(t, c) /\ t.stack # <<>> /\ Uppermost(t.stack).at = "dispatch"
             /\ Uppermost(t.stack).n = f.n /\ Uppermost(t.stack).ev = f.ev /\ h \in Own
             /\ c = Len(t.events) /\ ~t.triggered
             /\ (h = Lever => q.elem = f.n /\ f.n \in Boxes)
  <2>1. /\ g \in Frame /\ Same(f, g) /\ g.at = "dispatch" /\ g.n = f.n /\ g.ev = f.ev
        /\ h \in Own /\ (QueueOK(f) /\ h = Lever => q.elem = f.n /\ f.n \in Boxes)
    BY <1>1, <1>5, TodoLess
  <2>. HIDE DEF g
  <2>2. Good(t, c) /\ OnlyStack(s, t) /\ t.stack # <<>> /\ Uppermost(t.stack) = g
    BY <1>1, <2>1, SwapKeeps
  <2>3. QueueOK(f)
    BY <1>1, Types DEF Good, Wired, Uppermost
  <2>. HIDE DEF t
  <2>. QED  BY <1>1, <2>1, <2>2, <2>3 DEF OnlyStack
<1>. HIDE DEF g, t
<1>6. CASE f.queue # <<>> /\ q.todo # <<>> /\ s' = t
  BY <1>5, <1>6 DEF Fine
<1>7. CASE f.queue # <<>> /\ q.todo # <<>> /\ h = Lever /\ s' = Leverage(t, q.elem, f.ev)
  <2>1. s' = Leverage(t, f.n, f.ev) /\ f.n \in Boxes
    BY <1>5, <1>7
  <2>2. Good(Leverage(t, f.n, f.ev), Len(Leverage(t, f.n, f.ev).events))
    BY <1>5, <1>7, <2>1, LeverageKeeps
  <2>. QED  BY <2>1, <2>2 DEF Fine
<1>8. CASE f.queue # <<>> /\ q.todo # <<>> /\ h # Lever /\ h # IsTrue /\ s' = u
  <2>1. h \in Handlers
    BY <1>5, <1>8 DEF Own
  <2>2. b \in BOOLEAN
    BY <2>1, Specials
  <2>3. b <=> h.one /\ t.events[Uppermost(t.stack).ev].delegateTarget # Uppermost(t.stack).n
    BY <1>5, <1>8
  <2>4. Uppermost(t.stack).ev = f.ev
    BY <1>5, <1>8
  <2>. HIDE DEF h
  <2>5. v = Unbound(t, h, Uppermost(t.stack).ev) /\ u = Push(w, [at |-> "user", ev |-> Uppermost(t.stack).ev, h |-> h])
    BY <2>4
  <2>. HIDE DEF b, v
  <2>6. w = [v EXCEPT !.rebound = @ \/ b]
    OBVIOUS
  <2>. HIDE DEF w, u
  <2>7. Good(u, Len(u.events))
    BY <1>5, <1>8, <2>1, <2>2, <2>3, <2>5, <2>6, CalledKeeps
  <2>. QED  BY <1>8, <2>7 DEF Fine
<1>. QED  BY <1>2, <1>3, <1>4, <1>6, <1>7, <1>8

-----------------------------------------------------------------------------
(* What user code calls. *)
LEMMA InUserCode ==
  ASSUME Fine, Call
  PROVE  /\ Good(s, Len(s.events)) /\ Open(s) /\ ~s.triggered /\ Page(s) /\ DOMAIN s = Parts
         /\ (s.stack # <<>> => Uppermost(s.stack).at = "user" /\ Uppermost(s.stack).ev \in DOMAIN s.events
                               /\ Uppermost(s.stack).ev <= Len(s.events))
<1>1. s.stack # <<>> => Uppermost(s.stack).at = "user"
  BY TopIs DEF Call, UserCode
<1>2. ~s.triggered
  BY <1>1, Ready
<1>3. s.stack # <<>> => HasEvent(Uppermost(s.stack))
  BY <1>1 DEF HasEvent
<1>. QED  BY <1>1, <1>2, <1>3, Ready DEF Open

LEMMA OnKeeps == ASSUME NEW n \in Nodes, NEW h \in Handlers PROVE Fine /\ On(n, h) => Fine'
<1>. SUFFICES ASSUME Fine, On(n, h) PROVE Fine'
  OBVIOUS
<1>. DEFINE c == Len(s.events)
            v == Add(s, n, h)
            b == h.one /\ Running(h)
            u == [v EXCEPT !.rebound = @ \/ b]
<1>1. Good(s, c) /\ Page(s) /\ DOMAIN s = Parts
  BY InUserCode DEF On
<1>2. s' = u
  BY DEF On
<1>3. h \in Own /\ h # Lever /\ h.one \in BOOLEAN
  BY Specials DEF Own
<1>4. /\ Page(v) /\ ListsInv(v) /\ SameRest(s, v) /\ Wired(v.stack, v.priv)
      /\ \A m \in Nodes : \A g \in Handlers : g # h /\ Holds(v.priv, m, g) => Holds(s.priv, m, g)
  BY <1>1, <1>3, AddedKeeps
<1>. HIDE DEF v
<1>5. b \in BOOLEAN
  BY <1>3 DEF Running
<1>6. \A i \in DOMAIN s.stack : s.stack[i].at = "user" /\ s.stack[i].h.one /\ s.stack[i].h = h => b
  BY DEF Running
<1>. HIDE DEF b
<1>7. /\ DOMAIN u = Parts /\ u.up = v.up /\ u.priv = v.priv /\ u.listening = v.listening
      /\ u.checked = v.checked /\ u.inClick = v.inClick /\ u.events = v.events
      /\ u.triggered = v.triggered /\ u.stack = v.stack /\ u.threw = v.threw
      /\ u.unclaimed = v.unclaimed /\ u.rebound = (v.rebound \/ b)
  BY <1>1, <1>4 DEF Parts, SameRest
<1>. HIDE DEF u
<1>8. Page(u) /\ ListsInv(u) /\ Wired(u.stack, u.priv)
  <2>1. v.rebound \in BOOLEAN
    BY <1>4 DEF Page
  <2>2. u.rebound \in BOOLEAN
    BY <1>5, <1>7, <2>1
  <2>. QED  BY <1>4, <1>7, <2>2 DEF Page, ListsInv
<1>9. ~u.rebound => ~s.rebound /\ ~b
  BY <1>4, <1>7 DEF SameRest
<1>10. ~u.rebound => Loses(s, u)
  <2>. SUFFICES ASSUME ~b, NEW i \in DOMAIN s.stack, s.stack[i].at = "user", s.stack[i].h.one,
                       Holds(u.priv, s.stack[i - 1].n, s.stack[i].h)
                PROVE  Holds(s.priv, s.stack[i - 1].n, s.stack[i].h)
    BY <1>9 DEF Loses
  <2>1. s.stack[i].h # h
    BY <1>6
  <2>2. s.stack[i].h \in Handlers /\ s.stack[i - 1].n \in Nodes
    BY <1>1, UserHandler
  <2>. QED  BY <1>4, <1>7, <2>1, <2>2
<1>11. /\ u.stack = s.stack /\ u.events = s.events /\ u.inClick = s.inClick
       /\ u.triggered = s.triggered
  BY <1>4, <1>7 DEF SameRest
<1>12. Good(u, c)
  BY <1>1, <1>8, <1>9, <1>10, <1>11, DataKeeps
<1>. QED  BY <1>2, <1>11, <1>12 DEF Fine

LEMMA OffKeeps ==
  ASSUME NEW n \in Nodes, NEW id \in {"any"} \cup {h.id : h \in Handlers}
  PROVE  Fine /\ Off(n, id) => Fine'
<1>. SUFFICES ASSUME Fine, Off(n, id) PROVE Fine'
  OBVIOUS
<1>1. Good(s, Len(s.events))
  BY InUserCode DEF Off
<1>2. Names(id, "")
  BY Specials DEF Names
<1>3. s' = Remove(s, n, id, "")
  BY DEF Off
<1>4. Good(s', Len(s.events)) /\ SameRest(s, s')
  BY <1>1, <1>2, <1>3, RemovedKeeps
<1>. QED  BY <1>4 DEF Fine, SameRest

LEMMA ClickKeeps == ASSUME NEW n \in Nodes PROVE Fine /\ Click(n) => Fine'
<1>. SUFFICES ASSUME Fine, Click(n) PROVE Fine'
  OBVIOUS
<1>. DEFINE method == s.stack # <<>>
            c == Len(s.events)
            u == Native(s, n, method)
<1>1. Good(s, c) /\ ~s.triggered /\ (s.stack # <<>> => Uppermost(s.stack).at = "user")
  BY InUserCode DEF Click
<1>2. s' = u
  BY DEF Click
<1>3. method \in BOOLEAN
  OBVIOUS
<1>. HIDE DEF method
<1>4. Good(u, c) /\ u.events = s.events
  BY <1>1, <1>3, NativeKeeps
<1>. QED  BY <1>2, <1>4 DEF Fine

LEMMA TriggerCallKeeps ==
  ASSUME NEW n \in Nodes, NEW ns \in {""} \cup {h.ns : h \in Handlers}, NEW only \in BOOLEAN
  PROVE  Fine /\ TriggerCall(n, ns, only) => Fine'
<1>. SUFFICES ASSUME Fine, TriggerCall(n, ns, only) PROVE Fine'
  OBVIOUS
<1>1. Good(s, Len(s.events)) /\ Open(s) /\ ns \in Spaces
  BY InUserCode DEF TriggerCall, Spaces
<1>2. s' = TriggerNew(s, n, ns, only)
  BY DEF TriggerCall
<1>. QED  BY <1>1, <1>2, TriggerNewKeeps DEF Fine

LEMMA RetriggerKeeps == ASSUME NEW n \in Nodes PROVE Fine /\ Retrigger(n) => Fine'
<1>. SUFFICES ASSUME Fine, Retrigger(n) PROVE Fine'
  OBVIOUS
<1>. DEFINE ev == Uppermost(s.stack).ev
            c == Len(s.events)
            v == [s EXCEPT !.events[ev].reused = TRUE]
            u == Trigger(v, ev, n, FALSE, FALSE)
<1>1. s.stack # <<>> /\ Good(s, c) /\ Page(s) /\ Open(s) /\ ev \in DOMAIN s.events /\ ev <= c
  BY InUserCode DEF Retrigger
<1>2. s' = u
  BY Zenon DEF Retrigger, Top, Depth, Uppermost
<1>3. Only(s, v)
  BY <1>1, EventFlags
<1>. HIDE DEF v
<1>4. Good(v, c) /\ Len(v.events) = c /\ ev \in DOMAIN v.events /\ Open(v)
  BY <1>1, <1>3, FlagsKeep DEF Only, Flags, OnlyEvents, Open
<1>5. Owes(FALSE, ev, c, c) /\ FALSE \in BOOLEAN
  BY <1>1 DEF Owes
<1>. HIDE DEF ev, c
<1>6. Good(u, c) /\ Len(u.events) = Len(v.events)
  BY ONLY n \in Nodes, <1>4, <1>5, TriggerKeeps, Zenon
<1>. QED  BY <1>2, <1>4, <1>6 DEF Fine

LEMMA StopCallKeeps == Fine /\ StopCall => Fine'
<1>. SUFFICES ASSUME Fine, StopCall PROVE Fine'
  OBVIOUS
<1>. DEFINE ev == Uppermost(s.stack).ev
<1>1. s.stack # <<>> /\ Good(s, Len(s.events)) /\ Page(s) /\ ev \in DOMAIN s.events
  BY InUserCode DEF StopCall
<1>2. s' \in {StopImmediate(s, ev), StopPropagation(s, ev), Prevent(s, ev)}
  BY Zenon DEF StopCall, Top, Depth, Uppermost
<1>3. Flags(s, s')
  BY <1>1, <1>2, ImmediateFlags, StopFlags, PreventFlags
<1>. QED  BY <1>1, <1>3, FlagsFine DEF Fine

(* The tree. *)
LEMMA MovedKeeps ==
  ASSUME NEW t, NEW c, Good(t, c), NEW n \in Nodes, NEW m \in {None, Doc} \cup Plain,
         NEW u, u = [t EXCEPT !.up[n] = m]
  PROVE  Good(u, c) /\ u.events = t.events
<1>. DEFINE up == [t.up EXCEPT ![n] = m]
<1>1. up \in [Nodes -> {None, Doc} \cup Plain]
  BY DEF Good, Page
<1>2. u = [t EXCEPT !.up = up]
  OBVIOUS
<1>. HIDE DEF up
<1>. QED  BY <1>1, <1>2, UpKeeps

LEMMA RemoveNodeKeeps ==
  ASSUME NEW n \in Boxes \cup Plain, NEW keep \in BOOLEAN PROVE Fine /\ RemoveNode(n, keep) => Fine'
<1>. SUFFICES ASSUME Fine, RemoveNode(n, keep) PROVE Fine'
  OBVIOUS
<1>. DEFINE c == Len(s.events)
            v == IF keep THEN s ELSE Clean(s, n)
<1>1. Good(s, c) /\ n \in Nodes /\ None \in {None, Doc} \cup Plain
  BY InUserCode DEF RemoveNode, Nodes
<1>2. s' = [v EXCEPT !.up[n] = None]
  BY DEF RemoveNode
<1>3. Good(v, c) /\ v.events = s.events
  <2>1. CASE keep
    BY <1>1, <2>1
  <2>2. CASE ~keep
    BY <1>1, <2>2, CleanedKeeps DEF SameRest
  <2>. QED  BY <2>1, <2>2
<1>. HIDE DEF v
<1>4. Good(s', c) /\ s'.events = v.events
  BY <1>1, <1>2, <1>3, MovedKeeps
<1>. QED  BY <1>3, <1>4 DEF Fine

LEMMA AppendKeeps ==
  ASSUME NEW n \in Boxes \cup Plain, NEW m \in {Doc} \cup Plain PROVE Fine /\ Append_(n, m) => Fine'
<1>. SUFFICES ASSUME Fine, Append_(n, m) PROVE Fine'
  OBVIOUS
<1>1. Good(s, Len(s.events)) /\ n \in Nodes /\ m \in {None, Doc} \cup Plain
  BY InUserCode DEF Append_, Nodes
<1>2. s' = [s EXCEPT !.up[n] = m]
  BY DEF Append_
<1>3. Good(s', Len(s.events)) /\ s'.events = s.events
  BY <1>1, <1>2, MovedKeeps
<1>. QED  BY <1>3 DEF Fine

LEMMA UnusedCopy ==
  ASSUME Fine, Call, NEW n \in Boxes, NEW a \in Boxes, n # a, Unused(a)
  PROVE  Good(CopyEvents(s, n, a), Len(s.events)) /\ CopyEvents(s, n, a).events = s.events
<1>1. Good(s, Len(s.events)) /\ n \in Nodes
  BY InUserCode DEF Nodes
<1>2. s.priv[a] = NoData /\ \A i \in DOMAIN s.stack : s.stack[i].at = "dispatch" => s.stack[i].n # a
  BY DEF Unused
<1>3. Good(CopyEvents(s, n, a), Len(s.events)) /\ SameRest(s, CopyEvents(s, n, a))
  BY <1>1, <1>2, CopiedKeeps
<1>. QED  BY <1>3 DEF SameRest

LEMMA CloneKeeps == ASSUME NEW n \in Boxes, NEW a \in Boxes PROVE Fine /\ Clone(n, a) => Fine'
<1>. SUFFICES ASSUME Fine, Clone(n, a) PROVE Fine'
  OBVIOUS
<1>. QED  BY UnusedCopy DEF Clone, Fine

LEMMA AppendToBothKeeps ==
  ASSUME NEW n \in Boxes, NEW a \in Boxes, NEW first \in {Doc} \cup Plain, NEW last \in {Doc} \cup Plain
  PROVE  Fine /\ AppendToBoth(n, a, first, last) => Fine'
<1>. SUFFICES ASSUME Fine, AppendToBoth(n, a, first, last) PROVE Fine'
  OBVIOUS
<1>. DEFINE v == CopyEvents(s, n, a)
            w == [v EXCEPT !.up[a] = first]
            u == [w EXCEPT !.up[n] = last]
            c == Len(s.events)
<1>1. Good(v, c) /\ v.events = s.events /\ n \in Nodes /\ a \in Nodes
  BY UnusedCopy DEF AppendToBoth, Nodes
<1>2. s' = [v EXCEPT !.up[a] = first, !.up[n] = last]
  BY DEF AppendToBoth
<1>. HIDE DEF v
<1>3. s' = u
  BY <1>2
<1>0. first \in {None, Doc} \cup Plain /\ last \in {None, Doc} \cup Plain
  OBVIOUS
<1>6. w = [v EXCEPT !.up[a] = first] /\ u = [w EXCEPT !.up[n] = last]
  OBVIOUS
<1>8. n \in Nodes /\ last \in {None, Doc} \cup Plain /\ u = [w EXCEPT !.up[n] = last]
  BY <1>0, <1>1, <1>6
<1>. HIDE DEF w, u, c
<1>7. ASSUME NEW t, NEW b \in Nodes, NEW m \in {None, Doc} \cup Plain, NEW x,
             Good(t, c), x = [t EXCEPT !.up[b] = m]
      PROVE  Good(x, c) /\ x.events = t.events
  BY <1>7, MovedKeeps
<1>4. Good(w, c) /\ w.events = v.events
  BY <1>0, <1>1, <1>6, <1>7
<1>5. Good(u, c) /\ u.events = w.events
  <2>1. Good(w, c)
    BY <1>4
  <2>. QED  BY <1>7, <1>8, <2>1
<1>. QED  BY <1>1, <1>3, <1>4, <1>5 DEF Fine, c

-----------------------------------------------------------------------------
LEMMA InitFine == Init => Fine
<1>. SUFFICES ASSUME Init PROVE Good(s, Len(s.events))
  BY DEF Fine
<1>1. /\ DOMAIN s = Parts /\ s.up = [n \in Nodes |-> IF n = Doc THEN None ELSE Doc]
      /\ s.priv = [n \in Nodes |-> NoData] /\ s.listening = {} /\ s.checked = {} /\ s.inClick = {}
      /\ s.events = <<>> /\ s.triggered = FALSE /\ s.stack = <<>>
      /\ s.threw = FALSE /\ s.unclaimed = FALSE /\ s.rebound = FALSE
  BY DEF Init, Parts
<1>2. \A n \in Nodes : s.priv[n] = NoData
  BY <1>1
<1>3. Page(s)
  <2>1. s.up \in [Nodes -> {None, Doc} \cup Plain] /\ DOMAIN s.priv = Nodes
    BY <1>1
  <2>2. <<>> \in Seq(Event) /\ <<>> \in Seq(Frame)
    OBVIOUS
  <2>. QED  BY <1>1, <1>2, <2>1, <2>2, NoDataOK DEF Page
<1>4. ListsInv(s)
  BY <1>1, <1>2, NoDataOK DEF ListsInv, NoData
<1>5. Stacked(s.stack, 0, s.inClick)
  BY <1>1 DEF Stacked, Numbered, Clicking, Follows
<1>6. Wired(s.stack, s.priv)
  <2>1. \A n \in Boxes : ~HasLength(s.priv[n].click)
    BY <1>2 DEF HasLength, NoData, Undefined, Nodes
  <2>. QED  BY <1>1, <2>1 DEF Wired
<1>7. LetGo(s.stack, s.priv)
  BY <1>1 DEF LetGo
<1>. QED  BY <1>1, <1>3, <1>4, <1>5, <1>6, <1>7 DEF Good

LEMMA UserCallKeeps == Fine /\ UserCall => Fine'
<1>. SUFFICES ASSUME Fine, UserCall PROVE Fine'
  OBVIOUS
<1>1. CASE \E n \in Nodes, h \in Handlers : On(n, h)
  BY <1>1, OnKeeps
<1>2. CASE \E n \in Nodes, id \in {"any"} \cup {h.id : h \in Handlers} : Off(n, id)
  BY <1>2, OffKeeps
<1>3. CASE \E n \in Nodes : Click(n) \/ Retrigger(n)
  BY <1>3, ClickKeeps, RetriggerKeeps
<1>4. CASE \E n \in Nodes, ns \in {""} \cup {h.ns : h \in Handlers}, only \in BOOLEAN :
             TriggerCall(n, ns, only)
  BY <1>4, TriggerCallKeeps
<1>5. CASE StopCall
  BY <1>5, StopCallKeeps
<1>6. CASE \E n \in Boxes \cup Plain :
             \/ \E m \in {Doc} \cup Plain : Append_(n, m)
             \/ \E keep \in BOOLEAN : RemoveNode(n, keep)
  BY <1>6, AppendKeeps, RemoveNodeKeeps
<1>7. CASE \E n, c \in Boxes :
             Clone(n, c) \/ \E first, last \in {Doc} \cup Plain : AppendToBoth(n, c, first, last)
  BY <1>7, CloneKeeps, AppendToBothKeeps
<1>. QED  BY <1>1, <1>2, <1>3, <1>4, <1>5, <1>6, <1>7 DEF UserCall

LEMMA NextFine == Fine /\ [Next]_vars => Fine'
<1>. SUFFICES ASSUME Fine, [Next]_vars PROVE Fine'
  OBVIOUS
<1>1. CASE UNCHANGED vars
  BY <1>1 DEF Fine, vars
<1>. QED  BY <1>1, UserCallKeeps, NativeTurnKeeps, NativeEndKeeps, TriggerTurnKeeps,
             TriggerDefaultKeeps, TriggerEndKeeps, InterruptedEndsKeeps, ReinvokedEndsKeeps,
             DispatchTurnKeeps, ReturnKeeps, ThrowKeeps DEF Next

(* The inductive invariant holds in every reachable state. *)
THEOREM StaysFine == Spec => []Fine
BY InitFine, NextFine, PTL DEF Spec

(* When the stack is empty no event is left, since each belongs to a frame. *)
LEMMA FineTypes == Fine => TypeOK
<1>. SUFFICES ASSUME Fine PROVE TypeOK
  OBVIOUS
<1>1. Page(s) /\ Good(s, Len(s.events)) /\ s.events \in Seq(Event) /\ s.stack \in Seq(Frame)
  BY Ready DEF Page
<1>2. /\ s.up \in [Nodes -> {None, Doc} \cup Plain]
      /\ s.listening \subseteq Nodes /\ s.checked \subseteq Boxes
      /\ \A n \in Nodes : s.priv[n].delegates \in 0..Len(s.priv[n].list)
  BY <1>1 DEF Page, IsData
<1>3. ASSUME Quiet PROVE s.events = <<>> /\ ~s.triggered /\ s.inClick = {}
  <2>1. s.stack = <<>> /\ DOMAIN s.stack = {}
    BY <1>3 DEF Quiet
  <2>2. \A e \in 1..Len(s.events) : FALSE
    BY <1>1, <2>1 DEF Good, Stacked, Numbered
  <2>3. s.events = <<>>
    <3>1. Len(s.events) = 0
      BY <1>1, <2>2
    <3>. QED  BY <1>1, <3>1
  <2>4. ~s.triggered
    BY <2>1, Ready
  <2>5. s.inClick = {}
    BY <1>1, <2>1 DEF Good, Stacked, Clicking
  <2>. QED  BY <2>3, <2>4, <2>5
<1>. QED  BY <1>2, <1>3 DEF TypeOK

(* The parts of the page keep their types, and a page at rest has no event,
   no click under way and no trigger that suppresses others. *)
THEOREM EventsTyped == Spec => []TypeOK
BY StaysFine, FineTypes, PTL

LEMMA FineLists == Fine => ListensAsBound
BY FineTypes DEF Fine, Good, ListsInv, ListOK, ListensAsBound

(* A node listens as long as it has handlers, and its count of those with a
   selector is right, whatever is bound and unbound, cloned or removed in the
   middle of events (jQuery.event.add, remove, cleanData, cloneCopyEvent). *)
THEOREM ListensAsBoundHolds == Spec => []ListensAsBound
BY StaysFine, FineLists, PTL

LEMMA FineOnce == Fine => OneIsUnbound
<1>. SUFFICES ASSUME Fine, ~s.rebound, NEW i \in DOMAIN s.stack, NEW j \in DOMAIN s.stack,
                     s.stack[i].at = "user", s.stack[i].h.one, j > i, s.stack[j].at = "dispatch",
                     s.stack[j].n = s.stack[i - 1].n
              PROVE  ~InQueue(s.stack[i].h, s.stack[j])
  BY DEF OneIsUnbound, InQueue
<1>1. Let(s.stack, s.priv, i)
  BY DEF Fine, Good, LetGo
<1>. QED  BY <1>1 DEF Let

(* The function of one() that runs is not reached by an event that begins
   meanwhile, whatever handlers do, unless off(event) looked at another node
   than its own or user code bound the function again (jQuery's on() with one,
   jQuery.event.dispatch). *)
THEOREM OneIsUnboundHolds == Spec => []OneIsUnbound
BY StaysFine, FineOnce, PTL
=============================================================================
