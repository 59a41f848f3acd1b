--------------------------- MODULE EffectsProofs ---------------------------
(***************************************************************************)
(* What holds of jQuery's effects for any elements, kinds of animation,    *)
(* durations and number of calls.                                          *)
(*                                                                         *)
(* Nothing in the code says that an element has one animation: that the    *)
(* head of its queue is the sentinel says so between calls, and in the     *)
(* middle of stop(), finish() and complete callbacks only what is on the   *)
(* stack of calls does.  So the invariant has three parts:                 *)
(*   DataInv   animations, timers, queues and styles,                      *)
(*   StackInv  the loops and callbacks entered, and what they may assume,  *)
(*   Waits     whoever is under way is waited for, and whoever waits in a  *)
(*             queue is followed by something that will dequeue.           *)
(* What jQuery does not guard against breaks some of it for good, so the   *)
(* histories of the model are its premises: Orderly (here Ord, of a given  *)
(* state) of most, derailed or rerun of some.                               *)
(*                                                                         *)
(* The operators of Effects take a state to a state, and so do the lemmas. *)
(* A step is cut into a few moves: a frame is pushed, popped or swapped    *)
(* (PushKeeps, PopKeeps, SwapKeeps), an animation ends (Ends), a tween is  *)
(* run (Passes), a timer is cut out (Cuts), a queue is changed (Requeues)  *)
(* or an animation begun (AddsData).  For each move one lemma says that it *)
(* keeps the invariant; Lessens is what most of them have in common, that  *)
(* nothing new is under way.                                               *)
(***************************************************************************)
EXTENDS Effects, TLAPS, FiniteSetTheorems, SequenceTheorems

-----------------------------------------------------------------------------
(* Types. *)
Job == [kind : Kinds, dur : Durations]
Entry == Job \cup {Sentinel, [kind |-> "delay"]}
Note == [kept : {<<z>> : z \in Sizes}, hidden : {<<>>} \cup {<<b>> : b \in BOOLEAN}]
Element ==
  [shown : BOOLEAN, size : Sizes, fxshow : {<<>>} \cup {<<n>> : n \in Note},
   queue : Seq(Entry), nap : BOOLEAN, finishing : BOOLEAN]
Animation ==
  [e : Elems, kind : Kinds, state : {"pending", "resolved", "rejected"},
   stopped : BOOLEAN, matches : BOOLEAN, dur : Durations, left : Nat,
   noted : BOOLEAN, tweens : BOOLEAN, hidden : BOOLEAN,
   orig : Sizes, from : Sizes, to : Sizes]

TickFrame == [at : {"tick"}, i : Nat \ {0}]
TickedFrame == [at : {"ticked"}, i : Nat \ {0}, timer : Nat]
StopFrame ==
  [at : {"stop", "stopped"}, e : Elems, i : Nat, gotoEnd : BOOLEAN,
   found : BOOLEAN, timer : Nat, jobs : {<<>>} \cup {<<q>> : q \in Seq(Entry)}]
FinishFrame == [at : {"finish"}, e : Elems, jobs : Seq(Entry)]
OtherFrame == [at : {"halt", "complete"}, i : Nat]
Frames == TickFrame \cup TickedFrame \cup StopFrame \cup FinishFrame \cup OtherFrame

State ==
  [el : [Elems -> Element], naps : [Elems -> Nat], anims : Seq(Animation),
   timers : Seq(Nat), inProgress : BOOLEAN, frames : Nat, stack : Seq(Frames),
   leaked : BOOLEAN, rerun : BOOLEAN, miscut : BOOLEAN, derailed : BOOLEAN, hurried : BOOLEAN]

Ord(t) == ~t.leaked /\ ~t.hurried /\ ~t.derailed

-----------------------------------------------------------------------------
(* What is under way for an element, and what frames mean to it. *)
Und(t, x) == {i \in DOMAIN t.anims : t.anims[i].state = "pending" /\ t.anims[i].e = x}

IsStop(f) == f.at \in {"stop", "stopped"}
IsTick(f) == f.at \in {"tick", "ticked"}
Open(f) == f.at = "stop" \/ (f.at = "stopped" /\ ~f.gotoEnd)
Finishes(f, x) == \/ f.at = "finish" /\ f.e = x
                  \/ IsStop(f) /\ f.e = x /\ f.jobs # <<>>
Completes(t, f, x) == f.at = "complete" /\ t.anims[f.i].e = x

(* Frames that let an animation run with no sentinel in the queue, and those
   that will dequeue. *)
Holds(f, x) == Finishes(f, x) \/ (f.at = "stop" /\ f.e = x /\ ~f.found)
Wakes(t, f, x) ==
  \/ Completes(t, f, x)
  \/ IsStop(f) /\ f.e = x /\ f.jobs = <<>> /\ (~f.found \/ ~f.gotoEnd)

-----------------------------------------------------------------------------
(* The invariant: data. *)
AnimInv(t) ==
  \A i \in DOMAIN t.anims :
    /\ t.anims[i].matches <=> t.anims[i].state = "pending"
    /\ t.anims[i].stopped => t.anims[i].state # "pending"

TimerInv(t) ==
  /\ \A p \in DOMAIN t.timers : t.timers[p] \in DOMAIN t.anims
  /\ \A p, q \in DOMAIN t.timers : p < q => t.timers[p] < t.timers[q]

QueueInv(t) ==
  \A x \in Elems : \A j \in 2..Len(t.el[x].queue) : t.el[x].queue[j] # Sentinel

NapInv(t) == \A x \in Elems : t.naps[x] > 0 => t.leaked

Listed(t) == \A x \in Elems : \A i \in Und(t, x) : \E p \in DOMAIN t.timers : t.timers[p] = i

One(t) ==
  \A x \in Elems : /\ \A i, j \in Und(t, x) : i = j
                   /\ t.el[x].nap => Und(t, x) = {}

Quiet(t) == \A x \in Elems : t.el[x].finishing => t.el[x].queue = <<>> /\ ~t.el[x].nap

Sized(x) == IF x.fxshow = <<>> THEN x.size = "full" ELSE x.fxshow[1].kept = <<"full">>
SizeInv(t) ==
  /\ \A x \in Elems : Sized(t.el[x])
  /\ \A i \in DOMAIN t.anims :
       t.anims[i].state = "pending" /\ t.anims[i].tweens =>
         t.el[t.anims[i].e].fxshow # <<>> /\ t.anims[i].orig = "full"

Asked(a, x) ==
  a.state = "pending" /\ ~a.noted =>
    /\ a.kind = "show" => x.shown /\ (a.tweens => a.hidden)
    /\ a.kind = "hide" => IF a.tweens THEN ~a.hidden ELSE ~x.shown
AskInv(t) == \A i \in DOMAIN t.anims : Asked(t.anims[i], t.el[t.anims[i].e])

DataInv(t) ==
  /\ AnimInv(t) /\ TimerInv(t) /\ QueueInv(t) /\ NapInv(t)
  /\ ~t.derailed => Listed(t)
  /\ Ord(t) => One(t) /\ Quiet(t) /\ AskInv(t)
  /\ Ord(t) /\ ~t.rerun => SizeInv(t)

(* The invariant: what runs. *)
FrameFits(t, f) ==
  /\ f.at \in {"ticked", "stopped"} =>
       f.timer \in DOMAIN t.anims /\ t.anims[f.timer].state # "pending"
  /\ f.at \in {"halt", "complete"} => f.i \in DOMAIN t.anims
  /\ f.at = "stopped" => f.found /\ f.i > 0
  /\ IsStop(f) /\ f.jobs # <<>> => f.gotoEnd

FrameInv(t) ==
  \A k \in DOMAIN t.stack :
    /\ FrameFits(t, t.stack[k])
    /\ Open(t.stack[k]) => k = Len(t.stack)
    /\ IsTick(t.stack[k]) =>
         t.inProgress /\ \A m \in DOMAIN t.stack : IsTick(t.stack[m]) => m = k

PlaceInv(t) ==
  \A k \in DOMAIN t.stack : t.stack[k].at = "stop" => t.stack[k].i <= Len(t.timers)

FinInv(t) ==
  \A k \in DOMAIN t.stack : \A x \in Elems : Finishes(t.stack[k], x) =>
    /\ t.el[x].finishing
    /\ \A m \in DOMAIN t.stack : Finishes(t.stack[m], x) => m = k
    /\ t.stack[k].at = "finish" => \A i \in Und(t, x) :
         \E m \in DOMAIN t.stack : m > k /\ t.stack[m].at = "halt" /\ t.stack[m].i = i

StopFits(t, f) ==
  IsStop(f) =>
    /\ ~f.found => \A i \in Und(t, f.e) : \E p \in DOMAIN t.timers : p <= f.i /\ t.timers[p] = i
    /\ f.found /\ (~f.gotoEnd \/ f.jobs # <<>>) => Und(t, f.e) = {}

StopInv(t) ==
  \A k \in DOMAIN t.stack :
    /\ StopFits(t, t.stack[k])
    /\ IsStop(t.stack[k]) /\ t.stack[k].jobs = <<>> =>
         \A m \in DOMAIN t.stack : m < k => ~Completes(t, t.stack[m], t.stack[k].e)

CallInv(t) ==
  \A x \in Elems : \A k \in DOMAIN t.stack : Completes(t, t.stack[k], x) =>
    /\ Und(t, x) # {} => \E m \in DOMAIN t.stack : m > k /\ Finishes(t.stack[m], x)
    /\ \A l \in DOMAIN t.stack : l > k /\ Completes(t, t.stack[l], x) =>
         \E m \in DOMAIN t.stack : k < m /\ m < l /\ Finishes(t.stack[m], x)

StackInv(t) ==
  /\ FrameInv(t)
  /\ ~t.derailed => PlaceInv(t)
  /\ Ord(t) => FinInv(t) /\ StopInv(t) /\ CallInv(t)

(* The invariant: whoever waits is woken. *)
Headed(t, x) == t.el[x].queue # <<>> /\ t.el[x].queue[1] = Sentinel
Waited(t, x) ==
  Und(t, x) # {} => Headed(t, x) \/ \E k \in DOMAIN t.stack : Holds(t.stack[k], x)
Unstuck(t, x) ==
  t.el[x].queue # <<>> =>
    \/ Und(t, x) # {} \/ t.el[x].nap \/ t.naps[x] > 0
    \/ \E k \in DOMAIN t.stack : Wakes(t, t.stack[k], x)
Waits(t, x) == (Ord(t) => Waited(t, x)) /\ (~t.derailed => Unstuck(t, x))

JInv(t) == t \in State /\ DataInv(t) /\ StackInv(t)
Inv(t) == JInv(t) /\ \A x \in Elems : Waits(t, x)

-----------------------------------------------------------------------------
(* Steps that change the stack alone. *)
SameFlags(t, u) ==
  u.leaked = t.leaked /\ u.rerun = t.rerun /\ u.derailed = t.derailed /\ u.hurried = t.hurried
SameData(t, u) ==
  /\ u.el = t.el /\ u.naps = t.naps /\ u.anims = t.anims /\ u.timers = t.timers
  /\ SameFlags(t, u)

SameBelow(t, u, n) == \A k \in 1..n : u.stack[k] = t.stack[k]
Pushed(t, u, f) ==
  /\ Len(u.stack) = Len(t.stack) + 1
  /\ SameBelow(t, u, Len(t.stack))
  /\ u.stack[Len(t.stack) + 1] = f
Popped(t, u) ==
  /\ t.stack # <<>>
  /\ Len(u.stack) = Len(t.stack) - 1
  /\ SameBelow(t, u, Len(t.stack) - 1)
Swapped(t, u, f) ==
  /\ t.stack # <<>>
  /\ Len(u.stack) = Len(t.stack)
  /\ SameBelow(t, u, Len(t.stack) - 1)
  /\ u.stack[Len(t.stack)] = f

LEMMA StackTypes ==
  ASSUME NEW t \in State
  PROVE  /\ Len(t.stack) \in Nat /\ DOMAIN t.stack = 1..Len(t.stack)
         /\ (t.stack # <<>> <=> Len(t.stack) > 0)
         /\ Len(t.timers) \in Nat /\ DOMAIN t.timers = 1..Len(t.timers)
         /\ Len(t.anims) \in Nat /\ DOMAIN t.anims = 1..Len(t.anims)
         /\ \A k \in DOMAIN t.stack : t.stack[k] \in Frames
BY DEF State

LEMMA SameDataKept ==
  ASSUME NEW t \in State, NEW u \in State, SameData(t, u), DataInv(t)
  PROVE  DataInv(u)
<1>1. \A x : Und(u, x) = Und(t, x)
  BY DEF Und, SameData
<1>2. Ord(u) = Ord(t)
  BY DEF Ord, SameData, SameFlags
<1>3. AnimInv(u) /\ TimerInv(u) /\ QueueInv(u) /\ NapInv(u)
  BY DEF DataInv, AnimInv, TimerInv, QueueInv, NapInv, SameData, SameFlags
<1>4. ~u.derailed => Listed(u)
  BY <1>1 DEF DataInv, Listed, SameData, SameFlags
<1>5. Ord(u) => One(u) /\ Quiet(u) /\ AskInv(u)
  BY <1>1, <1>2 DEF DataInv, One, Quiet, AskInv, SameData
<1>6. Ord(u) /\ ~u.rerun => SizeInv(u)
  BY <1>2 DEF DataInv, SizeInv, SameData, SameFlags
<1>. QED  BY <1>3, <1>4, <1>5, <1>6 DEF DataInv

LEMMA SameMeaning ==
  ASSUME NEW t, NEW u, SameData(t, u)
  PROVE  /\ \A x : Und(u, x) = Und(t, x)
         /\ \A f, x : Completes(u, f, x) <=> Completes(t, f, x)
         /\ \A f, x : Wakes(u, f, x) <=> Wakes(t, f, x)
         /\ \A f : StopFits(u, f) <=> StopFits(t, f)
         /\ \A f : FrameFits(u, f) <=> FrameFits(t, f)
         /\ Ord(u) <=> Ord(t)
         /\ u.derailed = t.derailed /\ u.rerun = t.rerun
         /\ u.anims = t.anims /\ u.timers = t.timers /\ u.el = t.el
<1>1. \A x : Und(u, x) = Und(t, x)
  BY DEF Und, SameData
<1>2. \A f, x : Completes(u, f, x) <=> Completes(t, f, x)
  BY DEF SameData, Completes
<1>5. \A f, x : Wakes(u, f, x) <=> Wakes(t, f, x)
  BY <1>2 DEF Wakes
<1>3. \A f : StopFits(u, f) <=> StopFits(t, f)
  BY <1>1 DEF SameData, StopFits
<1>4. \A f : FrameFits(u, f) <=> FrameFits(t, f)
  BY DEF SameData, FrameFits
<1>. QED  BY <1>1, <1>2, <1>3, <1>4, <1>5 DEF Ord, SameData, SameFlags

(* A frame that may be put on the stack, where the one on top has left
   control to it. *)
Enters(t, f) ==
  /\ f \in Frames /\ FrameFits(t, f)
  /\ \A k \in DOMAIN t.stack : ~Open(t.stack[k])
  /\ IsTick(f) => \A k \in DOMAIN t.stack : ~IsTick(t.stack[k])
  /\ ~t.derailed => (f.at = "stop" => f.i <= Len(t.timers))
  /\ Ord(t) =>
       /\ StopFits(t, f)
       /\ \A x \in Elems : Finishes(f, x) =>
            /\ t.el[x].finishing
            /\ \A k \in DOMAIN t.stack : ~Finishes(t.stack[k], x)
            /\ f.at = "finish" => Und(t, x) = {}
       /\ IsStop(f) /\ f.jobs = <<>> =>
            \A k \in DOMAIN t.stack : ~Completes(t, t.stack[k], f.e)
       /\ \A x \in Elems : Completes(t, f, x) =>
            /\ Und(t, x) = {}
            /\ \A k \in DOMAIN t.stack : Completes(t, t.stack[k], x) =>
                 \E m \in DOMAIN t.stack : m > k /\ Finishes(t.stack[m], x)

LEMMA PushKeeps ==
  ASSUME NEW t \in State, NEW u \in State, NEW f, SameData(t, u), Pushed(t, u, f),
         StackInv(t), Enters(t, f),
         t.inProgress \/ IsTick(f) => u.inProgress
  PROVE  StackInv(u)
<1>. DEFINE n == Len(t.stack)
<1>0. /\ n \in Nat /\ DOMAIN t.stack = 1..n /\ DOMAIN u.stack = 1..(n + 1)
      /\ Len(u.stack) = n + 1
      /\ \A k \in 1..n : u.stack[k] = t.stack[k]
      /\ u.stack[n + 1] = f
  BY StackTypes DEF Pushed, SameBelow
<1>m. /\ \A x : Und(u, x) = Und(t, x)
      /\ \A g, x : Completes(u, g, x) <=> Completes(t, g, x)
      /\ \A g : StopFits(u, g) <=> StopFits(t, g)
      /\ \A g : FrameFits(u, g) <=> FrameFits(t, g)
      /\ Ord(u) <=> Ord(t)
      /\ u.derailed = t.derailed /\ u.rerun = t.rerun
      /\ u.anims = t.anims /\ u.timers = t.timers /\ u.el = t.el
  BY SameMeaning
<1>. HIDE DEF n
<1>1. FrameInv(u)
  <2>. SUFFICES ASSUME NEW k \in 1..(n + 1)
       PROVE  /\ FrameFits(u, u.stack[k])
              /\ Open(u.stack[k]) => k = n + 1
              /\ IsTick(u.stack[k]) =>
                   u.inProgress /\ \A m \in 1..(n + 1) : IsTick(u.stack[m]) => m = k
    BY <1>0 DEF FrameInv
  <2>1. FrameInv(t) /\ \A g \in 1..n : ~Open(t.stack[g])
    BY <1>0 DEF StackInv, Enters
  <2>2. FrameFits(u, u.stack[k]) /\ (Open(u.stack[k]) => k = n + 1)
    BY <1>0, <1>m, <2>1 DEF FrameInv, Enters
  <2>3. ASSUME IsTick(u.stack[k])
        PROVE  u.inProgress /\ \A m \in 1..(n + 1) : IsTick(u.stack[m]) => m = k
    <3>1. CASE k = n + 1
      BY <1>0, <2>3, <3>1 DEF Enters
    <3>2. CASE k \in 1..n
      BY <1>0, <2>1, <2>3, <3>2, SMTT(30), ZenonT(60) DEF FrameInv, Enters
    <3>. QED  BY <1>0, <3>1, <3>2
  <2>. QED  BY <2>2, <2>3
<1>2. ~u.derailed => PlaceInv(u)
  BY <1>0, <1>m DEF StackInv, PlaceInv, Enters
<1>3. Ord(u) => FinInv(u)
  <2>. SUFFICES ASSUME Ord(t), NEW k \in 1..(n + 1), NEW x \in Elems, Finishes(u.stack[k], x)
       PROVE  /\ u.el[x].finishing
              /\ \A m \in 1..(n + 1) : Finishes(u.stack[m], x) => m = k
              /\ u.stack[k].at = "finish" => \A i \in Und(u, x) :
                   \E m \in 1..(n + 1) : m > k /\ u.stack[m].at = "halt" /\ u.stack[m].i = i
    BY <1>0, <1>m DEF FinInv
  <2>1. FinInv(t)
    BY DEF StackInv
  <2>2. CASE k = n + 1
    BY <1>0, <1>m, <2>2 DEF Enters
  <2>3. CASE k \in 1..n
    BY <1>0, <1>m, <2>1, <2>3, SMTT(60) DEF FinInv, Enters
  <2>. QED  BY <1>0, <2>2, <2>3
<1>4. Ord(u) => StopInv(u)
  <2>. SUFFICES ASSUME Ord(t), NEW k \in 1..(n + 1)
       PROVE  /\ StopFits(t, u.stack[k])
              /\ IsStop(u.stack[k]) /\ u.stack[k].jobs = <<>> =>
                   \A m \in 1..(n + 1) : m < k => ~Completes(t, u.stack[m], u.stack[k].e)
    BY <1>0, <1>m DEF StopInv
  <2>1. StopInv(t)
    BY DEF StackInv
  <2>2. CASE k = n + 1
    BY <1>0, <2>2 DEF Enters
  <2>3. CASE k \in 1..n
    <3>1. u.stack[k] = t.stack[k] /\ k \in DOMAIN t.stack
      BY <1>0, <2>3
    <3>2. StopFits(t, t.stack[k])
      BY <2>1, <3>1 DEF StopInv
    <3>3. ASSUME IsStop(t.stack[k]), t.stack[k].jobs = <<>>, NEW m \in 1..(n + 1), m < k
          PROVE  ~Completes(t, u.stack[m], t.stack[k].e)
      <4>1. m \in DOMAIN t.stack /\ u.stack[m] = t.stack[m]
        BY <1>0, <2>3, <3>3
      <4>2. ~Completes(t, t.stack[m], t.stack[k].e)
        BY <2>1, <3>1, <3>3, <4>1 DEF StopInv
      <4>. QED  BY <4>1, <4>2
    <3>. QED  BY <3>1, <3>2, <3>3
  <2>. QED  BY <1>0, <2>2, <2>3
<1>5. Ord(u) => CallInv(u)
  <2>. SUFFICES ASSUME Ord(t), NEW x \in Elems, NEW k \in 1..(n + 1), Completes(t, u.stack[k], x)
       PROVE  /\ Und(t, x) # {} => \E m \in 1..(n + 1) : m > k /\ Finishes(u.stack[m], x)
              /\ \A l \in 1..(n + 1) : l > k /\ Completes(t, u.stack[l], x) =>
                   \E m \in 1..(n + 1) : k < m /\ m < l /\ Finishes(u.stack[m], x)
    BY <1>0, <1>m DEF CallInv
  <2>1. CallInv(t)
    BY DEF StackInv
  <2>2. CASE k = n + 1
    BY <1>0, <2>2 DEF Enters
  <2>3. CASE k \in 1..n
    <3>1. Und(t, x) # {} => \E m \in 1..(n + 1) : m > k /\ Finishes(u.stack[m], x)
      BY <1>0, <2>1, <2>3, SMTT(60) DEF CallInv
    <3>2. ASSUME NEW l \in 1..(n + 1), l > k, Completes(t, u.stack[l], x)
          PROVE  \E m \in 1..(n + 1) : k < m /\ m < l /\ Finishes(u.stack[m], x)
      <4>1. CASE l = n + 1
        <5>1. u.stack[k] = t.stack[k] /\ k \in DOMAIN t.stack /\ u.stack[l] = f
          BY <1>0, <2>3, <4>1
        <5>2. Completes(t, t.stack[k], x) /\ Completes(t, f, x)
          BY <3>2, <5>1
        <5>3. PICK m \in DOMAIN t.stack : m > k /\ Finishes(t.stack[m], x)
          BY <5>1, <5>2 DEF Enters
        <5>. QED  BY <1>0, <2>3, <4>1, <5>3
      <4>2. CASE l \in 1..n
        BY <1>0, <2>1, <2>3, <3>2, <4>2, SMTT(30), ZenonT(60) DEF CallInv
      <4>. QED  BY <1>0, <4>1, <4>2
    <3>. QED  BY <3>1, <3>2
  <2>. QED  BY <1>0, <2>2, <2>3
<1>. QED  BY <1>1, <1>2, <1>3, <1>4, <1>5 DEF StackInv

LEMMA PushWaits ==
  ASSUME NEW t \in State, NEW u \in State, NEW f, SameData(t, u), Pushed(t, u, f),
         NEW x, Waits(t, x)
  PROVE  Waits(u, x)
<1>. DEFINE n == Len(t.stack)
<1>1. /\ n \in Nat /\ DOMAIN t.stack = 1..n /\ DOMAIN u.stack = 1..(n + 1)
      /\ \A k \in 1..n : u.stack[k] = t.stack[k]
  BY StackTypes DEF Pushed, SameBelow
<1>. HIDE DEF n
<1>2. \A k \in DOMAIN t.stack : k \in DOMAIN u.stack /\ u.stack[k] = t.stack[k]
  BY <1>1
<1>3. Waited(t, x) => Waited(u, x)
  BY <1>2, SameMeaning DEF Waited, Headed
<1>4. Unstuck(t, x) => Unstuck(u, x)
  BY <1>2, SameMeaning DEF Unstuck, SameData
<1>. QED  BY <1>3, <1>4, SameMeaning DEF Waits

(* The frame on top may go when nothing counts on it any more. *)
LEMMA PopKeeps ==
  ASSUME NEW t \in State, NEW u \in State, NEW f, SameData(t, u), Popped(t, u),
         f = t.stack[Len(t.stack)], StackInv(t),
         t.inProgress /\ ~IsTick(f) => u.inProgress,
         Ord(t) => \A x \in Elems : Finishes(f, x) => Und(t, x) = {},
         Ord(t) /\ f.at = "halt" => t.anims[f.i].state # "pending"
  PROVE  StackInv(u) /\ \A k \in DOMAIN u.stack : ~Open(u.stack[k])
<1>. DEFINE n == Len(t.stack)
<1>0. /\ n \in Nat /\ n > 0 /\ DOMAIN t.stack = 1..n /\ DOMAIN u.stack = 1..(n - 1)
      /\ Len(u.stack) = n - 1
      /\ \A k \in 1..(n - 1) : u.stack[k] = t.stack[k]
      /\ t.stack[n] = f
  BY StackTypes DEF Popped, SameBelow
<1>m. /\ \A x : Und(u, x) = Und(t, x)
      /\ \A g, x : Completes(u, g, x) <=> Completes(t, g, x)
      /\ \A g : StopFits(u, g) <=> StopFits(t, g)
      /\ \A g : FrameFits(u, g) <=> FrameFits(t, g)
      /\ Ord(u) <=> Ord(t)
      /\ u.derailed = t.derailed /\ u.rerun = t.rerun
      /\ u.anims = t.anims /\ u.timers = t.timers /\ u.el = t.el
  BY SameMeaning
<1>. HIDE DEF n
<1>s. \A k \in 1..(n - 1) : k \in DOMAIN t.stack /\ u.stack[k] = t.stack[k] /\ k # n
  BY <1>0
<1>t. \A k \in DOMAIN t.stack : k \in 1..(n - 1) \/ (k = n /\ t.stack[k] = f)
  BY <1>0
<1>1. FrameInv(u) /\ \A k \in 1..(n - 1) : ~Open(u.stack[k])
  <2>. SUFFICES ASSUME NEW k \in 1..(n - 1)
       PROVE  /\ FrameFits(u, u.stack[k])
              /\ ~Open(u.stack[k])
              /\ IsTick(u.stack[k]) =>
                   u.inProgress /\ \A m \in 1..(n - 1) : IsTick(u.stack[m]) => m = k
    BY <1>0 DEF FrameInv
  <2>1. FrameInv(t)
    BY DEF StackInv
  <2>2. FrameFits(u, u.stack[k]) /\ ~Open(u.stack[k])
    BY <1>0, <1>s, <1>m, <2>1 DEF FrameInv
  <2>3. ASSUME IsTick(u.stack[k])
        PROVE  u.inProgress /\ \A m \in 1..(n - 1) : IsTick(u.stack[m]) => m = k
    BY <1>0, <1>s, <2>1, <2>3 DEF FrameInv
  <2>. QED  BY <2>2, <2>3
<1>2. ~u.derailed => PlaceInv(u)
  BY <1>0, <1>s, <1>m DEF StackInv, PlaceInv
<1>3. Ord(u) => FinInv(u)
  <2>. SUFFICES ASSUME Ord(t), NEW k \in 1..(n - 1), NEW x \in Elems, Finishes(t.stack[k], x)
       PROVE  /\ u.el[x].finishing
              /\ \A m \in 1..(n - 1) : Finishes(u.stack[m], x) => m = k
              /\ t.stack[k].at = "finish" => \A i \in Und(u, x) :
                   \E m \in 1..(n - 1) : m > k /\ u.stack[m].at = "halt" /\ u.stack[m].i = i
    BY <1>0, <1>s, <1>m DEF FinInv
  <2>1. FinInv(t)
    BY DEF StackInv
  <2>2. u.el[x].finishing /\ \A m \in 1..(n - 1) : Finishes(u.stack[m], x) => m = k
    <3>1. k \in DOMAIN t.stack /\ \A m \in 1..(n - 1) : m \in DOMAIN t.stack /\ u.stack[m] = t.stack[m]
      BY <1>s
    <3>2. t.el[x].finishing /\ \A m \in DOMAIN t.stack : Finishes(t.stack[m], x) => m = k
      BY <2>1, <3>1 DEF FinInv
    <3>. QED  BY <1>m, <3>1, <3>2
  <2>3. ASSUME t.stack[k].at = "finish", NEW i \in Und(t, x)
        PROVE  \E m \in 1..(n - 1) : m > k /\ u.stack[m].at = "halt" /\ u.stack[m].i = i
    <3>1. PICK m \in DOMAIN t.stack : m > k /\ t.stack[m].at = "halt" /\ t.stack[m].i = i
      BY <1>s, <2>1, <2>3 DEF FinInv
    <3>2. t.anims[i].state = "pending"
      BY <2>3 DEF Und
    <3>3. m # n
      BY <1>0, <3>1, <3>2
    <3>. QED  BY <1>t, <1>s, <3>1, <3>3
  <2>. QED  BY <1>m, <2>2, <2>3
<1>4. Ord(u) => StopInv(u)
  <2>. SUFFICES ASSUME Ord(t), NEW k \in 1..(n - 1)
       PROVE  /\ StopFits(t, u.stack[k])
              /\ IsStop(u.stack[k]) /\ u.stack[k].jobs = <<>> =>
                   \A m \in 1..(n - 1) : m < k => ~Completes(t, u.stack[m], u.stack[k].e)
    BY <1>0, <1>m DEF StopInv
  <2>1. StopInv(t)
    BY DEF StackInv
  <2>2. k \in DOMAIN t.stack /\ u.stack[k] = t.stack[k]
    BY <1>s
  <2>3. ASSUME IsStop(t.stack[k]), t.stack[k].jobs = <<>>, NEW m \in 1..(n - 1), m < k
        PROVE  ~Completes(t, t.stack[m], t.stack[k].e)
    BY <1>s, <2>1, <2>2, <2>3 DEF StopInv
  <2>4. StopFits(t, t.stack[k])
    BY <2>1, <2>2 DEF StopInv
  <2>. QED  BY <1>s, <2>2, <2>3, <2>4
<1>5. Ord(u) => CallInv(u)
  <2>. SUFFICES ASSUME Ord(t), NEW x \in Elems, NEW k \in 1..(n - 1), Completes(t, t.stack[k], x)
       PROVE  /\ Und(t, x) # {} => \E m \in 1..(n - 1) : m > k /\ Finishes(t.stack[m], x)
              /\ \A l \in 1..(n - 1) : l > k /\ Completes(t, t.stack[l], x) =>
                   \E m \in 1..(n - 1) : k < m /\ m < l /\ Finishes(t.stack[m], x)
    BY <1>0, <1>s, <1>m DEF CallInv
  <2>1. CallInv(t)
    BY DEF StackInv
  <2>2. ASSUME Und(t, x) # {}
        PROVE  \E m \in 1..(n - 1) : m > k /\ Finishes(t.stack[m], x)
    <3>1. PICK m \in DOMAIN t.stack : m > k /\ Finishes(t.stack[m], x)
      BY <1>s, <2>1, <2>2 DEF CallInv
    <3>. QED  BY <1>t, <2>2, <3>1
  <2>3. ASSUME NEW l \in 1..(n - 1), l > k, Completes(t, t.stack[l], x)
        PROVE  \E m \in 1..(n - 1) : k < m /\ m < l /\ Finishes(t.stack[m], x)
    <3>1. PICK m \in DOMAIN t.stack : k < m /\ m < l /\ Finishes(t.stack[m], x)
      BY <1>s, <2>1, <2>3 DEF CallInv
    <3>. QED  BY <1>0, <1>t, <3>1
  <2>. QED  BY <2>2, <2>3
<1>. QED  BY <1>0, <1>1, <1>2, <1>3, <1>4, <1>5 DEF StackInv

LEMMA PopWaits ==
  ASSUME NEW t \in State, NEW u \in State, NEW f, SameData(t, u), Popped(t, u),
         f = t.stack[Len(t.stack)],
         NEW x, Waits(t, x), ~Wakes(t, f, x),
         Ord(t) /\ Holds(f, x) => Und(t, x) = {}
  PROVE  Waits(u, x)
<1>. DEFINE n == Len(t.stack)
<1>0. /\ n \in Nat /\ n > 0 /\ DOMAIN t.stack = 1..n /\ DOMAIN u.stack = 1..(n - 1)
      /\ \A k \in 1..(n - 1) : u.stack[k] = t.stack[k]
      /\ t.stack[n] = f
  BY StackTypes DEF Popped, SameBelow
<1>. HIDE DEF n
<1>1. \A k \in DOMAIN t.stack : \/ k \in DOMAIN u.stack /\ u.stack[k] = t.stack[k]
                                \/ t.stack[k] = f
  BY <1>0
<1>3. Ord(t) /\ Waited(t, x) => Waited(u, x)
  BY <1>1, SameMeaning DEF Waited, Headed
<1>4. Unstuck(t, x) => Unstuck(u, x)
  BY <1>1, SameMeaning DEF Unstuck, SameData
<1>. QED  BY <1>3, <1>4, SameMeaning DEF Waits

(* The frame on top may become another of the same call. *)
Follows(t, f, g) ==
  /\ g \in Frames /\ FrameFits(t, g)
  /\ IsTick(g) <=> IsTick(f)
  /\ f.at \notin {"complete", "halt"} /\ g.at \notin {"complete", "halt"}
  /\ ~t.derailed => (g.at = "stop" => g.i <= Len(t.timers))
  /\ Ord(t) =>
       /\ StopFits(t, g)
       /\ \A x \in Elems : Finishes(g, x) <=> Finishes(f, x)
       /\ g.at = "finish" => \A x \in Elems : Finishes(g, x) => Und(t, x) = {}
       /\ IsStop(g) /\ g.jobs = <<>> => IsStop(f) /\ f.jobs = <<>> /\ f.e = g.e

LEMMA SwapKeeps ==
  ASSUME NEW t \in State, NEW u \in State, NEW f, NEW g, SameData(t, u), Swapped(t, u, g),
         f = t.stack[Len(t.stack)], StackInv(t), Follows(t, f, g),
         u.inProgress = t.inProgress
  PROVE  StackInv(u)
<1>. DEFINE n == Len(t.stack)
<1>0. /\ n \in Nat /\ n > 0 /\ DOMAIN t.stack = 1..n /\ DOMAIN u.stack = 1..n
      /\ Len(u.stack) = n
      /\ \A k \in 1..(n - 1) : u.stack[k] = t.stack[k]
      /\ t.stack[n] = f /\ u.stack[n] = g
  BY StackTypes DEF Swapped, SameBelow
<1>m. /\ \A x : Und(u, x) = Und(t, x)
      /\ \A h, x : Completes(u, h, x) <=> Completes(t, h, x)
      /\ \A h : StopFits(u, h) <=> StopFits(t, h)
      /\ \A h : FrameFits(u, h) <=> FrameFits(t, h)
      /\ Ord(u) <=> Ord(t)
      /\ u.derailed = t.derailed /\ u.rerun = t.rerun
      /\ u.anims = t.anims /\ u.timers = t.timers /\ u.el = t.el
  BY SameMeaning
<1>. HIDE DEF n
<1>t. /\ DOMAIN u.stack = DOMAIN t.stack
      /\ \A k \in DOMAIN t.stack : \/ k < n /\ u.stack[k] = t.stack[k]
                                   \/ k = n /\ t.stack[k] = f /\ u.stack[k] = g
  BY <1>0
<1>i. \A k \in DOMAIN t.stack : IsTick(u.stack[k]) <=> IsTick(t.stack[k])
  BY <1>t DEF Follows
<1>f. Ord(t) => \A k \in DOMAIN t.stack : \A x \in Elems : Finishes(u.stack[k], x) <=> Finishes(t.stack[k], x)
  BY <1>t DEF Follows
<1>c. \A k \in DOMAIN t.stack : \A x : Completes(u, u.stack[k], x) <=> Completes(t, t.stack[k], x)
  <2>. SUFFICES ASSUME NEW k \in DOMAIN t.stack, NEW x
       PROVE  Completes(t, u.stack[k], x) <=> Completes(t, t.stack[k], x)
    BY <1>m
  <2>1. CASE u.stack[k] = t.stack[k]
    BY <2>1
  <2>2. CASE t.stack[k] = f /\ u.stack[k] = g
    BY <2>2 DEF Completes, Follows
  <2>. QED  BY <1>t, <2>1, <2>2
<1>1. FrameInv(u)
  <2>1. FrameInv(t)
    BY DEF StackInv
  <2>. SUFFICES ASSUME NEW k \in DOMAIN t.stack
       PROVE  /\ FrameFits(u, u.stack[k])
              /\ Open(u.stack[k]) => k = n
              /\ IsTick(u.stack[k]) =>
                   u.inProgress /\ \A m \in DOMAIN t.stack : IsTick(u.stack[m]) => m = k
    BY <1>0, <1>t DEF FrameInv
  <2>2. FrameFits(u, u.stack[k])
    BY <1>t, <1>m, <2>1 DEF FrameInv, Follows
  <2>3. Open(u.stack[k]) => k = n
    <3>1. Open(t.stack[k]) => k = n
      BY <2>1 DEF FrameInv, n
    <3>. QED  BY <1>t, <3>1
  <2>4. IsTick(u.stack[k]) =>
          u.inProgress /\ \A m \in DOMAIN t.stack : IsTick(u.stack[m]) => m = k
    BY <1>i, <2>1 DEF FrameInv
  <2>. QED  BY <2>2, <2>3, <2>4
<1>2. ~u.derailed => PlaceInv(u)
  <2>. SUFFICES ASSUME ~t.derailed, NEW k \in DOMAIN t.stack, u.stack[k].at = "stop"
       PROVE  u.stack[k].i <= Len(u.timers)
    BY <1>t, <1>m DEF PlaceInv
  <2>1. PlaceInv(t)
    BY DEF StackInv
  <2>2. CASE u.stack[k] = t.stack[k]
    BY <1>m, <2>1, <2>2 DEF PlaceInv
  <2>3. CASE u.stack[k] = g
    BY <1>m, <2>3 DEF Follows
  <2>. QED  BY <1>t, <2>2, <2>3
<1>3. Ord(u) => FinInv(u)
  <2>. SUFFICES ASSUME Ord(t), NEW k \in DOMAIN t.stack, NEW x \in Elems, Finishes(u.stack[k], x)
       PROVE  /\ t.el[x].finishing
              /\ \A m \in DOMAIN t.stack : Finishes(u.stack[m], x) => m = k
              /\ u.stack[k].at = "finish" => \A i \in Und(t, x) :
                   \E m \in DOMAIN t.stack : m > k /\ u.stack[m].at = "halt" /\ u.stack[m].i = i
    BY <1>t, <1>m DEF FinInv
  <2>1. FinInv(t)
    BY DEF StackInv
  <2>2. Finishes(t.stack[k], x)
    BY <1>f
  <2>3. t.el[x].finishing /\ \A m \in DOMAIN t.stack : Finishes(t.stack[m], x) => m = k
    BY <2>1, <2>2 DEF FinInv
  <2>4. \A m \in DOMAIN t.stack : Finishes(u.stack[m], x) => m = k
    BY <1>f, <2>3
  <2>5. ASSUME u.stack[k].at = "finish", NEW i \in Und(t, x)
        PROVE  \E m \in DOMAIN t.stack : m > k /\ u.stack[m].at = "halt" /\ u.stack[m].i = i
    <3>1. CASE k = n
      BY <1>t, <2>5, <3>1 DEF Follows
    <3>2. CASE k # n
      <4>1. t.stack[k].at = "finish"
        BY <1>t, <2>5, <3>2
      <4>2. PICK m \in DOMAIN t.stack : m > k /\ t.stack[m].at = "halt" /\ t.stack[m].i = i
        BY <2>1, <2>2, <2>5, <4>1 DEF FinInv
      <4>3. u.stack[m] = t.stack[m]
        BY <1>t, <4>2 DEF Follows
      <4>. QED  BY <4>2, <4>3
    <3>. QED  BY <3>1, <3>2
  <2>. QED  BY <2>3, <2>4, <2>5
<1>4. Ord(u) => StopInv(u)
  <2>. SUFFICES ASSUME Ord(t), NEW k \in DOMAIN t.stack
       PROVE  /\ StopFits(u, u.stack[k])
              /\ IsStop(u.stack[k]) /\ u.stack[k].jobs = <<>> =>
                   \A m \in DOMAIN t.stack : m < k => ~Completes(u, u.stack[m], u.stack[k].e)
    BY <1>t, <1>m DEF StopInv
  <2>1. StopInv(t)
    BY DEF StackInv
  <2>2. StopFits(u, u.stack[k])
    BY <1>t, <1>m, <2>1 DEF StopInv, Follows
  <2>3. ASSUME IsStop(u.stack[k]), u.stack[k].jobs = <<>>, NEW m \in DOMAIN t.stack, m < k
        PROVE  ~Completes(u, u.stack[m], u.stack[k].e)
    <3>1. IsStop(t.stack[k]) /\ t.stack[k].jobs = <<>> /\ t.stack[k].e = u.stack[k].e
      BY <1>t, <2>3 DEF Follows
    <3>2. ~Completes(t, t.stack[m], t.stack[k].e)
      BY <2>1, <2>3, <3>1 DEF StopInv
    <3>. QED  BY <1>c, <3>1, <3>2
  <2>. QED  BY <2>2, <2>3
<1>5. Ord(u) => CallInv(u)
  <2>. SUFFICES ASSUME Ord(t), NEW x \in Elems, NEW k \in DOMAIN t.stack, Completes(t, t.stack[k], x)
       PROVE  /\ Und(t, x) # {} => \E m \in DOMAIN t.stack : m > k /\ Finishes(t.stack[m], x)
              /\ \A l \in DOMAIN t.stack : l > k /\ Completes(t, t.stack[l], x) =>
                   \E m \in DOMAIN t.stack : k < m /\ m < l /\ Finishes(t.stack[m], x)
    BY <1>t, <1>m, <1>c, <1>f, ZenonT(60) DEF CallInv
  <2>. QED  BY DEF StackInv, CallInv
<1>. QED  BY <1>1, <1>2, <1>3, <1>4, <1>5 DEF StackInv

LEMMA SwapWaits ==
  ASSUME NEW t \in State, NEW u \in State, NEW f, NEW g, SameData(t, u), Swapped(t, u, g),
         f = t.stack[Len(t.stack)], NEW x, Waits(t, x),
         Holds(f, x) => Holds(g, x), Wakes(t, f, x) => Wakes(t, g, x)
  PROVE  Waits(u, x)
<1>1. /\ DOMAIN u.stack = DOMAIN t.stack
      /\ \A k \in DOMAIN t.stack : \/ u.stack[k] = t.stack[k]
                                   \/ t.stack[k] = f /\ u.stack[k] = g
  BY StackTypes DEF Swapped, SameBelow
<1>2. \A k \in DOMAIN t.stack : /\ Holds(t.stack[k], x) => Holds(u.stack[k], x)
                                /\ Wakes(t, t.stack[k], x) => Wakes(t, u.stack[k], x)
  BY <1>1
<1>3. Waited(t, x) => Waited(u, x)
  BY <1>1, <1>2, SameMeaning DEF Waited, Headed
<1>4. Unstuck(t, x) => Unstuck(u, x)
  <2>1. \A k \in DOMAIN u.stack : Wakes(t, u.stack[k], x) => Wakes(u, u.stack[k], x)
    BY SameMeaning
  <2>. QED  BY <1>1, <1>2, <2>1, SameMeaning DEF Unstuck, SameData
<1>. QED  BY <1>3, <1>4, SameMeaning DEF Waits

-----------------------------------------------------------------------------
(* Steps that leave the stack alone. *)

(* No animation is added, those that have ended do not come back, and timers
   are only taken away when no loop is at one. *)
Lessens(t, u) ==
  /\ u.stack = t.stack /\ u.inProgress = t.inProgress
  /\ DOMAIN u.anims = DOMAIN t.anims
  /\ \A i \in DOMAIN t.anims : u.anims[i].e = t.anims[i].e
  /\ \A i \in DOMAIN t.anims : u.anims[i].state = "pending" => t.anims[i].state = "pending"
  /\ u.timers = t.timers \/ \A k \in DOMAIN t.stack : t.stack[k].at # "stop"
  /\ Ord(u) => Ord(t)
  /\ ~u.derailed => ~t.derailed
  /\ Ord(u) => \A x \in Elems : t.el[x].finishing =>
       u.el[x].finishing \/ \A k \in DOMAIN t.stack : ~Finishes(t.stack[k], x)

LEMMA LessensMeaning ==
  ASSUME NEW t, NEW u, Lessens(t, u)
  PROVE  /\ \A x : Und(u, x) \subseteq Und(t, x)
         /\ \A f, x : FrameFits(t, f) => (Completes(u, f, x) <=> Completes(t, f, x))
         /\ \A f, x : FrameFits(t, f) => (Wakes(u, f, x) <=> Wakes(t, f, x))
         /\ \A f : FrameFits(t, f) => FrameFits(u, f)
<1>1. \A x : Und(u, x) \subseteq Und(t, x)
  BY DEF Und, Lessens
<1>2. \A f, x : FrameFits(t, f) => (Completes(u, f, x) <=> Completes(t, f, x))
  BY DEF Lessens, Completes, FrameFits
<1>3. \A f, x : FrameFits(t, f) => (Wakes(u, f, x) <=> Wakes(t, f, x))
  BY <1>2 DEF Wakes
<1>4. \A f : FrameFits(t, f) => FrameFits(u, f)
  BY DEF Lessens, FrameFits
<1>. QED  BY <1>1, <1>2, <1>3, <1>4

LEMMA LessensKeeps ==
  ASSUME NEW t \in State, NEW u \in State, StackInv(t), Lessens(t, u)
  PROVE  StackInv(u)
<1>1. \A k \in DOMAIN t.stack : u.stack[k] = t.stack[k] /\ FrameFits(t, t.stack[k])
  BY DEF StackInv, FrameInv, Lessens
<1>2. DOMAIN u.stack = DOMAIN t.stack /\ Len(u.stack) = Len(t.stack)
  BY DEF Lessens
<1>c. \A k \in DOMAIN t.stack : \A x : Completes(u, u.stack[k], x) <=> Completes(t, t.stack[k], x)
  BY <1>1, LessensMeaning
<1>u. \A x : Und(u, x) \subseteq Und(t, x)
  BY LessensMeaning
<1>3. FrameInv(u)
  <2>1. FrameInv(t)
    BY DEF StackInv
  <2>2. \A k \in DOMAIN t.stack : FrameFits(u, u.stack[k])
    BY <1>1, LessensMeaning
  <2>. QED  BY <1>1, <1>2, <2>1, <2>2 DEF FrameInv, Lessens
<1>4. ~u.derailed => PlaceInv(u)
  BY <1>1, <1>2 DEF PlaceInv, StackInv, Lessens
<1>5. Ord(u) => FinInv(u)
  <2>. SUFFICES ASSUME Ord(u), NEW k \in DOMAIN t.stack, NEW x \in Elems, Finishes(t.stack[k], x)
       PROVE  /\ u.el[x].finishing
              /\ \A m \in DOMAIN t.stack : Finishes(u.stack[m], x) => m = k
              /\ t.stack[k].at = "finish" => \A i \in Und(u, x) :
                   \E m \in DOMAIN t.stack : m > k /\ u.stack[m].at = "halt" /\ u.stack[m].i = i
    BY <1>1, <1>2 DEF FinInv
  <2>1. FinInv(t)
    BY DEF StackInv, Lessens
  <2>2. u.el[x].finishing
    BY <2>1 DEF FinInv, Lessens
  <2>3. \A m \in DOMAIN t.stack : Finishes(u.stack[m], x) => m = k
    BY <1>1, <2>1 DEF FinInv
  <2>4. ASSUME t.stack[k].at = "finish", NEW i \in Und(u, x)
        PROVE  \E m \in DOMAIN t.stack : m > k /\ u.stack[m].at = "halt" /\ u.stack[m].i = i
    <3>1. i \in Und(t, x)
      BY <1>u, <2>4
    <3>2. PICK m \in DOMAIN t.stack : m > k /\ t.stack[m].at = "halt" /\ t.stack[m].i = i
      BY <2>1, <2>4, <3>1 DEF FinInv
    <3>. QED  BY <1>1, <3>2
  <2>. QED  BY <2>2, <2>3, <2>4
<1>6. Ord(u) => StopInv(u)
  <2>. SUFFICES ASSUME Ord(u), NEW k \in DOMAIN t.stack
       PROVE  /\ StopFits(u, t.stack[k])
              /\ IsStop(t.stack[k]) /\ t.stack[k].jobs = <<>> =>
                   \A m \in DOMAIN t.stack : m < k => ~Completes(u, u.stack[m], t.stack[k].e)
    BY <1>1, <1>2 DEF StopInv
  <2>1. StopInv(t) /\ FrameInv(t)
    BY DEF StackInv, Lessens
  <2>2. StopFits(t, t.stack[k])
    BY <2>1 DEF StopInv
  <2>3. StopFits(u, t.stack[k])
    <3>1. CASE u.timers = t.timers
      BY <1>u, <2>2, <3>1 DEF StopFits
    <3>2. CASE t.stack[k].at # "stop"
      BY <1>u, <1>1, <2>2, <3>2 DEF StopFits, FrameFits, IsStop
    <3>. QED  BY <3>1, <3>2 DEF Lessens
  <2>4. ASSUME IsStop(t.stack[k]), t.stack[k].jobs = <<>>, NEW m \in DOMAIN t.stack, m < k
        PROVE  ~Completes(u, u.stack[m], t.stack[k].e)
    BY <1>c, <2>1, <2>4 DEF StopInv
  <2>. QED  BY <2>3, <2>4
<1>7. Ord(u) => CallInv(u)
  <2>. SUFFICES ASSUME Ord(u), NEW x \in Elems, NEW k \in DOMAIN t.stack, Completes(t, t.stack[k], x)
       PROVE  /\ Und(t, x) # {} => \E m \in DOMAIN t.stack : m > k /\ Finishes(t.stack[m], x)
              /\ \A l \in DOMAIN t.stack : l > k /\ Completes(t, t.stack[l], x) =>
                   \E m \in DOMAIN t.stack : k < m /\ m < l /\ Finishes(t.stack[m], x)
    BY <1>1, <1>2, <1>c, <1>u DEF CallInv
  <2>. QED  BY DEF StackInv, CallInv, Lessens
<1>. QED  BY <1>3, <1>4, <1>5, <1>6, <1>7 DEF StackInv

(* Of an element whose queue, delays and animations are left alone. *)
SameQueue(t, u, x) ==
  /\ u.el[x].queue = t.el[x].queue /\ u.el[x].nap = t.el[x].nap
  /\ t.naps[x] > 0 => u.naps[x] > 0

LEMMA LessensWaits ==
  ASSUME NEW t \in State, NEW u \in State, StackInv(t), Lessens(t, u),
         NEW x, Waits(t, x), SameQueue(t, u, x), Und(u, x) = Und(t, x)
  PROVE  Waits(u, x)
<1>1. \A k \in DOMAIN t.stack : u.stack[k] = t.stack[k] /\ FrameFits(t, t.stack[k])
  BY DEF StackInv, FrameInv, Lessens
<1>2. DOMAIN u.stack = DOMAIN t.stack
  BY DEF Lessens
<1>3. Waited(t, x) => Waited(u, x)
  BY <1>1, <1>2 DEF Waited, Headed, SameQueue
<1>4. Unstuck(t, x) => Unstuck(u, x)
  <2>1. \A k \in DOMAIN t.stack : Wakes(t, t.stack[k], x) => Wakes(u, u.stack[k], x)
    BY <1>1, LessensMeaning
  <2>. QED  BY <1>2, <2>1 DEF Unstuck, SameQueue
<1>. QED  BY <1>3, <1>4 DEF Waits, Lessens

(* An element whose animation has ended is not waited for. *)
LEMMA LessensWaited ==
  ASSUME NEW t, NEW u, Lessens(t, u), NEW x, Ord(t) => Waited(t, x),
         u.el[x].queue = t.el[x].queue
  PROVE  Ord(u) => Waited(u, x)
<1>1. Und(u, x) \subseteq Und(t, x)
  BY LessensMeaning
<1>2. u.stack = t.stack /\ (Ord(u) => Ord(t))
  BY DEF Lessens
<1>. QED  BY <1>1, <1>2 DEF Waited, Headed

(* Animation i ends. *)
Ends(t, u, i) ==
  /\ Lessens(t, u) /\ SameFlags(t, u) /\ u.timers = t.timers /\ u.naps = t.naps
  /\ i \in DOMAIN t.anims /\ t.anims[i].state = "pending" /\ t.anims[i].e \in Elems
  /\ u.anims[i].state # "pending" /\ ~u.anims[i].matches
  /\ \A j \in DOMAIN t.anims : j # i => u.anims[j] = t.anims[j]
  /\ \A x \in Elems : /\ u.el[x].queue = t.el[x].queue
                      /\ u.el[x].nap = t.el[x].nap
                      /\ u.el[x].finishing = t.el[x].finishing
                      /\ x # t.anims[i].e => u.el[x] = t.el[x]
  /\ \/ u.el[t.anims[i].e] = t.el[t.anims[i].e]
     \/ /\ t.anims[i].tweens
        /\ u.el[t.anims[i].e].fxshow = <<>>
        /\ u.el[t.anims[i].e].size = t.anims[i].orig

LEMMA EndKeeps ==
  ASSUME NEW t \in State, NEW u \in State, NEW i, Ends(t, u, i), DataInv(t)
  PROVE  DataInv(u)
<1>. DEFINE e == t.anims[i].e
<1>1. /\ \A x : Und(u, x) \subseteq Und(t, x)
      /\ DOMAIN u.anims = DOMAIN t.anims
      /\ u.timers = t.timers /\ e \in Elems
  BY LessensMeaning DEF Ends, Lessens
<1>2. (Ord(u) <=> Ord(t)) /\ u.derailed = t.derailed /\ u.rerun = t.rerun /\ u.leaked = t.leaked
  BY DEF Ord, Ends, SameFlags
<1>3. Ord(t) => \A j \in DOMAIN t.anims : u.anims[j].state = "pending" =>
        /\ u.anims[j] = t.anims[j] /\ j # i
        /\ t.anims[j].e \in Elems /\ t.anims[j].e # e
  <2>. SUFFICES ASSUME Ord(t), NEW j \in DOMAIN t.anims, u.anims[j].state = "pending"
       PROVE  u.anims[j] = t.anims[j] /\ j # i /\ t.anims[j].e \in Elems /\ t.anims[j].e # e
    OBVIOUS
  <2>1. u.anims[j] = t.anims[j] /\ j # i
    BY DEF Ends
  <2>2. t.anims[j] \in Animation
    BY DEF State
  <2>3. t.anims[j].e # e
    BY <2>1 DEF DataInv, One, Und, Ends
  <2>. QED  BY <2>1, <2>2, <2>3 DEF Animation
<1>4. AnimInv(u)
  BY <1>1 DEF AnimInv, DataInv, Ends
<1>5. TimerInv(u) /\ QueueInv(u) /\ NapInv(u)
  BY <1>1, <1>2 DEF TimerInv, QueueInv, NapInv, DataInv, Ends
<1>6. ~u.derailed => Listed(u)
  BY <1>1, <1>2 DEF Listed, DataInv
<1>7. Ord(u) => One(u) /\ Quiet(u)
  BY <1>1, <1>2 DEF One, Quiet, DataInv, Ends
<1>8. Ord(u) => AskInv(u)
  <2>. SUFFICES ASSUME Ord(t), NEW j \in DOMAIN t.anims, u.anims[j].state = "pending"
       PROVE  Asked(u.anims[j], u.el[u.anims[j].e])
    BY <1>1, <1>2 DEF AskInv, Asked
  <2>1. u.anims[j] = t.anims[j] /\ u.el[u.anims[j].e] = t.el[t.anims[j].e]
    BY <1>3 DEF Ends
  <2>. QED  BY <2>1 DEF DataInv, AskInv
<1>9. Ord(u) /\ ~u.rerun => SizeInv(u)
  <2>. SUFFICES ASSUME Ord(t), ~t.rerun PROVE SizeInv(u)
    BY <1>2
  <2>1. SizeInv(t)
    BY DEF DataInv
  <2>2. ASSUME NEW x \in Elems PROVE Sized(u.el[x])
    <3>1. CASE u.el[x] = t.el[x]
      BY <2>1, <3>1 DEF SizeInv
    <3>2. CASE x = e /\ t.anims[i].tweens /\ u.el[e].fxshow = <<>> /\ u.el[e].size = t.anims[i].orig
      <4>1. t.anims[i].orig = "full"
        BY <2>1, <3>2 DEF SizeInv, Ends
      <4>. QED  BY <3>2, <4>1 DEF Sized
    <3>. QED  BY <3>1, <3>2 DEF Ends
  <2>3. ASSUME NEW j \in DOMAIN t.anims, u.anims[j].state = "pending", u.anims[j].tweens
        PROVE  u.el[u.anims[j].e].fxshow # <<>> /\ u.anims[j].orig = "full"
    <3>1. u.anims[j] = t.anims[j] /\ u.el[u.anims[j].e] = t.el[t.anims[j].e]
      BY <1>3, <2>3 DEF Ends
    <3>. QED  BY <2>1, <2>3, <3>1 DEF SizeInv
  <2>. QED  BY <1>1, <2>2, <2>3 DEF SizeInv
<1>. QED  BY <1>4, <1>5, <1>6, <1>7, <1>8, <1>9 DEF DataInv

(* What is left of an animation gets less, an ended one is stopped, a size
   changes on the way. *)
Passes(t, u) ==
  /\ Lessens(t, u) /\ u.timers = t.timers /\ u.naps = t.naps
  /\ u.leaked = t.leaked /\ u.derailed = t.derailed /\ u.hurried = t.hurried
  /\ t.rerun => u.rerun
  /\ \A j \in DOMAIN t.anims :
       /\ u.anims[j].state = t.anims[j].state /\ u.anims[j].matches = t.anims[j].matches
       /\ u.anims[j].kind = t.anims[j].kind /\ u.anims[j].noted = t.anims[j].noted
       /\ u.anims[j].tweens = t.anims[j].tweens /\ u.anims[j].hidden = t.anims[j].hidden
       /\ u.anims[j].orig = t.anims[j].orig
       /\ u.anims[j].stopped => t.anims[j].stopped \/ t.anims[j].state # "pending"
  /\ \A x \in Elems : /\ u.el[x].queue = t.el[x].queue
                      /\ u.el[x].nap = t.el[x].nap
                      /\ u.el[x].finishing = t.el[x].finishing
                      /\ u.el[x].shown = t.el[x].shown
                      /\ u.el[x].fxshow = t.el[x].fxshow
                      /\ Ord(u) /\ ~u.rerun => u.el[x].size = t.el[x].size \/ u.el[x].fxshow # <<>>

LEMMA PassKeeps ==
  ASSUME NEW t \in State, NEW u \in State, Passes(t, u), DataInv(t)
  PROVE  DataInv(u)
<1>1. /\ \A x : Und(u, x) = Und(t, x)
      /\ DOMAIN u.anims = DOMAIN t.anims
      /\ \A j \in DOMAIN t.anims : u.anims[j].e = t.anims[j].e
      /\ \A j \in DOMAIN t.anims : t.anims[j].e \in Elems
      /\ u.timers = t.timers
  <2>1. \A j \in DOMAIN t.anims : t.anims[j] \in Animation
    BY DEF State
  <2>. QED  BY <2>1 DEF Passes, Lessens, Und, Animation
<1>2. /\ Ord(u) <=> Ord(t)
      /\ u.derailed = t.derailed /\ (~u.rerun => ~t.rerun) /\ u.leaked = t.leaked
  BY DEF Ord, Passes
<1>4. AnimInv(u)
  BY <1>1 DEF AnimInv, DataInv, Passes
<1>5. TimerInv(u) /\ QueueInv(u) /\ NapInv(u)
  BY <1>1, <1>2 DEF TimerInv, QueueInv, NapInv, DataInv, Passes
<1>6. ~u.derailed => Listed(u)
  BY <1>1, <1>2 DEF Listed, DataInv
<1>7. Ord(u) => One(u) /\ Quiet(u)
  BY <1>1, <1>2 DEF One, Quiet, DataInv, Passes
<1>8. Ord(u) => AskInv(u)
  BY <1>1, <1>2 DEF AskInv, Asked, DataInv, Passes
<1>9. Ord(u) /\ ~u.rerun => SizeInv(u)
  BY <1>1, <1>2 DEF SizeInv, Sized, DataInv, Passes
<1>. QED  BY <1>4, <1>5, <1>6, <1>7, <1>8, <1>9 DEF DataInv

(* Timer p is cut out: one of an ended animation, or by mistake. *)
Cuts(t, u, p) ==
  /\ Lessens(t, u) /\ u.el = t.el /\ u.anims = t.anims /\ u.naps = t.naps
  /\ p \in DOMAIN t.timers
  /\ Len(u.timers) = Len(t.timers) - 1
  /\ \A q \in 1..(Len(t.timers) - 1) :
       u.timers[q] = IF q < p THEN t.timers[q] ELSE t.timers[q + 1]
  /\ u.leaked = t.leaked /\ u.rerun = t.rerun /\ u.hurried = t.hurried
  /\ u.derailed \/ (u.derailed = t.derailed /\ t.anims[t.timers[p]].state # "pending")

LEMMA CutKeeps ==
  ASSUME NEW t \in State, NEW u \in State, NEW p, Cuts(t, u, p), DataInv(t)
  PROVE  DataInv(u)
<1>. DEFINE n == Len(t.timers)
<1>0. /\ n \in Nat /\ DOMAIN t.timers = 1..n /\ p \in 1..n /\ DOMAIN u.timers = 1..(n - 1)
      /\ \A q \in 1..(n - 1) : u.timers[q] = IF q < p THEN t.timers[q] ELSE t.timers[q + 1]
  BY StackTypes DEF Cuts
<1>1. \A x : Und(u, x) = Und(t, x)
  BY DEF Und, Cuts
<1>2. Ord(u) => Ord(t)
  BY DEF Cuts, Lessens
<1>. HIDE DEF n
<1>4. AnimInv(u) /\ QueueInv(u) /\ NapInv(u)
  BY DEF AnimInv, QueueInv, NapInv, DataInv, Cuts
<1>5. TimerInv(u)
  <2>1. TimerInv(t)
    BY DEF DataInv
  <2>2. \A q \in DOMAIN t.timers : t.timers[q] \in Nat
    BY DEF State
  <2>5. \A q \in 1..(n - 1) : \E m \in DOMAIN t.timers :
          u.timers[q] = t.timers[m] /\ m = IF q < p THEN q ELSE q + 1
    <3>. SUFFICES ASSUME NEW q \in 1..(n - 1)
         PROVE \E m \in 1..n : u.timers[q] = t.timers[m] /\ m = IF q < p THEN q ELSE q + 1
      BY <1>0
    <3>1. CASE q < p
      BY <1>0, <3>1
    <3>2. CASE ~(q < p)
      BY <1>0, <3>2
    <3>. QED  BY <3>1, <3>2
  <2>3. \A q \in 1..(n - 1) : u.timers[q] \in DOMAIN u.anims
    BY <2>1, <2>5 DEF TimerInv, Cuts
  <2>4. ASSUME NEW q \in 1..(n - 1), NEW r \in 1..(n - 1), q < r
        PROVE  u.timers[q] < u.timers[r]
    <3>1. PICK k \in DOMAIN t.timers : u.timers[q] = t.timers[k] /\ k = IF q < p THEN q ELSE q + 1
      BY <2>5
    <3>2. PICK m \in DOMAIN t.timers : u.timers[r] = t.timers[m] /\ m = IF r < p THEN r ELSE r + 1
      BY <2>5
    <3>3. k < m
      BY <1>0, <2>4, <3>1, <3>2
    <3>. QED  BY <2>1, <3>1, <3>2, <3>3 DEF TimerInv
  <2>. QED  BY <1>0, <2>3, <2>4 DEF TimerInv
<1>6. ~u.derailed => Listed(u)
  <2>. SUFFICES ASSUME ~u.derailed, NEW x \in Elems, NEW i \in Und(t, x)
       PROVE  \E q \in 1..(n - 1) : u.timers[q] = i
    BY <1>0, <1>1 DEF Listed
  <2>1. PICK q \in 1..n : t.timers[q] = i
    BY <1>0 DEF DataInv, Listed, Cuts
  <2>2. q # p
    BY <2>1 DEF Cuts, Und
  <2>3. CASE q < p
    <3>1. q \in 1..(n - 1)
      BY <1>0, <2>3
    <3>. QED  BY <1>0, <2>1, <2>3, <3>1
  <2>4. CASE q > p
    <3>1. q - 1 \in 1..(n - 1) /\ ~(q - 1 < p) /\ (q - 1) + 1 = q
      BY <1>0, <2>4
    <3>2. u.timers[q - 1] = t.timers[(q - 1) + 1]
      BY <1>0, <3>1
    <3>. QED  BY <2>1, <3>1, <3>2
  <2>. QED  BY <1>0, <2>2, <2>3, <2>4
<1>7. Ord(u) => One(u) /\ Quiet(u) /\ AskInv(u)
  BY <1>1, <1>2 DEF One, Quiet, AskInv, DataInv, Cuts
<1>8. Ord(u) /\ ~u.rerun => SizeInv(u)
  BY <1>1, <1>2 DEF SizeInv, DataInv, Cuts
<1>. QED  BY <1>4, <1>5, <1>6, <1>7, <1>8 DEF DataInv

(* The queue of e, its delays and whether it is being finished are changed. *)
Requeues(t, u, e) ==
  /\ Lessens(t, u) /\ u.timers = t.timers /\ u.anims = t.anims
  /\ u.derailed = t.derailed /\ u.rerun = t.rerun /\ (t.leaked => u.leaked)
  /\ \A x \in Elems : x # e => u.el[x] = t.el[x] /\ u.naps[x] = t.naps[x]
  /\ u.naps[e] > 0 => u.leaked
  /\ u.el[e].shown = t.el[e].shown /\ u.el[e].size = t.el[e].size
  /\ u.el[e].fxshow = t.el[e].fxshow
  /\ \A j \in 2..Len(u.el[e].queue) : u.el[e].queue[j] # Sentinel
  /\ Ord(u) => /\ u.el[e].nap => Und(t, e) = {}
               /\ u.el[e].finishing => u.el[e].queue = <<>> /\ ~u.el[e].nap

LEMMA RequeueKeeps ==
  ASSUME NEW t \in State, NEW u \in State, NEW e \in Elems, Requeues(t, u, e), DataInv(t)
  PROVE  DataInv(u)
<1>1. \A x : Und(u, x) = Und(t, x)
  BY DEF Und, Requeues
<1>2. (Ord(u) => Ord(t)) /\ u.anims = t.anims /\ u.timers = t.timers
  BY DEF Requeues, Lessens
<1>3. \A x \in Elems : /\ u.el[x].shown = t.el[x].shown /\ u.el[x].size = t.el[x].size
                       /\ u.el[x].fxshow = t.el[x].fxshow
  BY DEF Requeues
<1>t. \A j \in DOMAIN t.anims : t.anims[j].e \in Elems
  <2>1. \A j \in DOMAIN t.anims : t.anims[j] \in Animation
    BY DEF State
  <2>. QED  BY <2>1 DEF Animation
<1>4. AnimInv(u) /\ TimerInv(u)
  BY <1>2 DEF AnimInv, TimerInv, DataInv
<1>5. QueueInv(u)
  BY DEF QueueInv, DataInv, Requeues
<1>6. NapInv(u)
  BY DEF NapInv, DataInv, Requeues
<1>7. ~u.derailed => Listed(u)
  BY <1>1, <1>2 DEF Listed, DataInv, Requeues
<1>8. Ord(u) => One(u)
  BY <1>1, <1>2 DEF One, DataInv, Requeues
<1>9. Ord(u) => Quiet(u)
  BY <1>2 DEF Quiet, DataInv, Requeues
<1>10. Ord(u) => AskInv(u)
  BY <1>2, <1>3, <1>t DEF AskInv, Asked, DataInv
<1>11. Ord(u) /\ ~u.rerun => SizeInv(u)
  <2>1. Ord(u) /\ ~u.rerun => SizeInv(t)
    BY <1>2 DEF DataInv, Requeues
  <2>2. \A x \in Elems : Sized(u.el[x]) <=> Sized(t.el[x])
    BY <1>3 DEF Sized
  <2>. QED  BY <1>2, <1>3, <1>t, <2>1, <2>2 DEF SizeInv
<1>. QED  BY <1>4, <1>5, <1>6, <1>7, <1>8, <1>9, <1>10, <1>11 DEF DataInv

-----------------------------------------------------------------------------
(* An animation of e is begun, and its timer set; a finish() under way will
   halt it. *)
Halting(t) == [at |-> "halt", i |-> Len(t.anims) + 1]
AddsData(t, u, e) ==
  LET i == Len(t.anims) + 1
  IN /\ Len(u.anims) = i /\ \A j \in 1..Len(t.anims) : u.anims[j] = t.anims[j]
     /\ u.anims[i].e = e /\ u.anims[i].state = "pending"
     /\ u.anims[i].matches /\ ~u.anims[i].stopped
     /\ Len(u.timers) = Len(t.timers) + 1
     /\ \A p \in 1..Len(t.timers) : u.timers[p] = t.timers[p]
     /\ u.timers[Len(t.timers) + 1] = i
     /\ SameFlags(t, u) /\ u.naps = t.naps
     /\ \A x \in Elems : x # e => u.el[x] = t.el[x]
     /\ u.el[e].queue = t.el[e].queue /\ u.el[e].nap = t.el[e].nap
     /\ u.el[e].finishing = t.el[e].finishing
     /\ Sized(t.el[e]) => /\ Sized(u.el[e])
                          /\ u.anims[i].tweens => u.el[e].fxshow # <<>> /\ u.anims[i].orig = "full"
     /\ Asked(u.anims[i], u.el[e])

AddsFrame(t, u) ==
  /\ u.inProgress = t.inProgress
  /\ SameBelow(t, u, Len(t.stack))
  /\ \/ Len(u.stack) = Len(t.stack)
     \/ Len(u.stack) = Len(t.stack) + 1 /\ u.stack[Len(t.stack) + 1] = Halting(t)

(* When an animation may be begun. *)
MayBegin(t, u, e) ==
  /\ \A k \in DOMAIN t.stack : ~Open(t.stack[k])
  /\ Ord(t) =>
       /\ Und(t, e) = {} /\ ~t.el[e].nap
       /\ \A k \in DOMAIN t.stack : Completes(t, t.stack[k], e) =>
            \E m \in DOMAIN t.stack : m > k /\ Finishes(t.stack[m], e)
       /\ \A k \in DOMAIN t.stack : Finishes(t.stack[k], e) =>
            t.stack[k].at = "finish" /\ Len(u.stack) = Len(t.stack) + 1

LEMMA AddMeaning ==
  ASSUME NEW t \in State, NEW u \in State, NEW e \in Elems, AddsData(t, u, e)
  PROVE  /\ DOMAIN u.anims = DOMAIN t.anims \cup {Len(t.anims) + 1}
         /\ Len(t.anims) + 1 \notin DOMAIN t.anims
         /\ \A j \in DOMAIN t.anims : u.anims[j] = t.anims[j] /\ t.anims[j].e \in Elems
         /\ DOMAIN u.timers = DOMAIN t.timers \cup {Len(t.timers) + 1}
         /\ \A p \in DOMAIN t.timers : u.timers[p] = t.timers[p]
         /\ Und(u, e) = Und(t, e) \cup {Len(t.anims) + 1}
         /\ \A x : x # e => Und(u, x) = Und(t, x)
         /\ (Ord(u) <=> Ord(t)) /\ u.derailed = t.derailed /\ u.rerun = t.rerun
         /\ u.leaked = t.leaked
         /\ \A f, x : FrameFits(t, f) => (Completes(u, f, x) <=> Completes(t, f, x))
         /\ \A f, x : FrameFits(t, f) => (Wakes(u, f, x) <=> Wakes(t, f, x))
         /\ \A f : FrameFits(t, f) => FrameFits(u, f)
<1>. DEFINE i == Len(t.anims) + 1
<1>0. /\ Len(t.anims) \in Nat /\ DOMAIN t.anims = 1..Len(t.anims)
      /\ DOMAIN u.anims = 1..i
      /\ Len(t.timers) \in Nat /\ DOMAIN t.timers = 1..Len(t.timers)
      /\ DOMAIN u.timers = 1..(Len(t.timers) + 1)
  <2>1. Len(u.anims) = i /\ Len(u.timers) = Len(t.timers) + 1
    BY DEF AddsData
  <2>. QED  BY <2>1, StackTypes
<1>1. DOMAIN u.anims = DOMAIN t.anims \cup {i} /\ i \notin DOMAIN t.anims
  BY <1>0
<1>2. DOMAIN u.timers = DOMAIN t.timers \cup {Len(t.timers) + 1}
  BY <1>0
<1>3. \A j \in DOMAIN t.anims : u.anims[j] = t.anims[j] /\ t.anims[j].e \in Elems
  <2>1. \A j \in DOMAIN t.anims : t.anims[j] \in Animation
    BY DEF State
  <2>. QED  BY <1>0, <2>1 DEF AddsData, Animation
<1>4. \A p \in DOMAIN t.timers : u.timers[p] = t.timers[p]
  BY <1>0 DEF AddsData
<1>5. u.anims[i].e = e /\ u.anims[i].state = "pending"
  BY DEF AddsData
<1>6. Und(u, e) = Und(t, e) \cup {i} /\ \A x : x # e => Und(u, x) = Und(t, x)
  BY <1>1, <1>3, <1>5 DEF Und
<1>7. (Ord(u) <=> Ord(t)) /\ u.derailed = t.derailed /\ u.rerun = t.rerun /\ u.leaked = t.leaked
  BY DEF AddsData, SameFlags, Ord
<1>. HIDE DEF i
<1>8. \A f, x : FrameFits(t, f) => (Completes(u, f, x) <=> Completes(t, f, x))
  BY <1>3 DEF Completes, FrameFits
<1>9. \A f, x : FrameFits(t, f) => (Wakes(u, f, x) <=> Wakes(t, f, x))
  BY <1>8 DEF Wakes
<1>10. \A f : FrameFits(t, f) => FrameFits(u, f)
  BY <1>1, <1>3 DEF FrameFits
<1>. QED  BY <1>1, <1>2, <1>3, <1>4, <1>6, <1>7, <1>8, <1>9, <1>10 DEF i

LEMMA AddData ==
  ASSUME NEW t \in State, NEW u \in State, NEW e \in Elems, AddsData(t, u, e), DataInv(t),
         Ord(t) => Und(t, e) = {} /\ ~t.el[e].nap
  PROVE  DataInv(u)
<1>. DEFINE i == Len(t.anims) + 1  n == Len(t.timers)
<1>0. /\ DOMAIN u.anims = DOMAIN t.anims \cup {i}
      /\ \A j \in DOMAIN t.anims : u.anims[j] = t.anims[j] /\ t.anims[j].e \in Elems
      /\ DOMAIN u.timers = DOMAIN t.timers \cup {n + 1}
      /\ \A p \in DOMAIN t.timers : u.timers[p] = t.timers[p]
      /\ Und(u, e) = Und(t, e) \cup {i}
      /\ \A x : x # e => Und(u, x) = Und(t, x)
      /\ (Ord(u) <=> Ord(t)) /\ u.derailed = t.derailed /\ u.rerun = t.rerun
      /\ u.leaked = t.leaked
  BY AddMeaning
<1>1. /\ u.anims[i].e = e /\ u.anims[i].state = "pending"
      /\ u.anims[i].matches /\ ~u.anims[i].stopped
      /\ u.timers[n + 1] = i
      /\ \A x \in Elems : x # e => u.el[x] = t.el[x]
      /\ u.el[e].queue = t.el[e].queue /\ u.el[e].nap = t.el[e].nap
      /\ u.el[e].finishing = t.el[e].finishing
      /\ Asked(u.anims[i], u.el[e]) /\ u.naps = t.naps
  BY DEF AddsData
<1>2. Sized(t.el[e]) => /\ Sized(u.el[e])
                        /\ u.anims[i].tweens => u.el[e].fxshow # <<>> /\ u.anims[i].orig = "full"
  BY DEF AddsData
<1>3. /\ n \in Nat /\ DOMAIN t.timers = 1..n
      /\ Len(t.anims) \in Nat /\ DOMAIN t.anims = 1..Len(t.anims)
  BY StackTypes
<1>i. i = Len(t.anims) + 1
  OBVIOUS
<1>o. Ord(t) => \A j \in DOMAIN t.anims : t.anims[j].state = "pending" =>
        u.el[t.anims[j].e] = t.el[t.anims[j].e]
  BY <1>0, <1>1 DEF Und
<1>. HIDE DEF i, n
<1>4. AnimInv(u)
  BY <1>0, <1>1 DEF AnimInv, DataInv
<1>5. TimerInv(u)
  <2>1. \A p \in DOMAIN u.timers : u.timers[p] \in DOMAIN u.anims
    BY <1>0, <1>1 DEF TimerInv, DataInv
  <2>2. ASSUME NEW p \in DOMAIN u.timers, NEW q \in DOMAIN u.timers, p < q
        PROVE  u.timers[p] < u.timers[q]
    <3>1. p \in DOMAIN t.timers
      BY <1>0, <1>3, <2>2
    <3>2. CASE q \in DOMAIN t.timers
      BY <1>0, <2>2, <3>1, <3>2 DEF TimerInv, DataInv
    <3>3. CASE q = n + 1
      <4>1. t.timers[p] \in DOMAIN t.anims
        BY <3>1 DEF TimerInv, DataInv
      <4>. QED  BY <1>0, <1>1, <1>3, <1>i, <3>1, <3>3, <4>1
    <3>. QED  BY <1>0, <3>2, <3>3
  <2>. QED  BY <2>1, <2>2 DEF TimerInv
<1>6. QueueInv(u) /\ NapInv(u)
  BY <1>0, <1>1 DEF QueueInv, NapInv, DataInv
<1>7. ~u.derailed => Listed(u)
  BY <1>0, <1>1 DEF Listed, DataInv
<1>8. Ord(u) => One(u)
  BY <1>0, <1>1 DEF One, DataInv
<1>9. Ord(u) => Quiet(u)
  BY <1>0, <1>1 DEF Quiet, DataInv
<1>10. Ord(u) => AskInv(u)
  <2>. SUFFICES ASSUME Ord(t), NEW j \in DOMAIN t.anims, t.anims[j].state = "pending"
       PROVE  Asked(t.anims[j], u.el[t.anims[j].e])
    BY <1>0, <1>1 DEF AskInv, Asked
  <2>. QED  BY <1>o DEF AskInv, DataInv
<1>11. Ord(u) /\ ~u.rerun => SizeInv(u)
  <2>. SUFFICES ASSUME Ord(t), ~t.rerun PROVE SizeInv(u)
    BY <1>0
  <2>1. SizeInv(t)
    BY DEF DataInv
  <2>2. \A x \in Elems : Sized(u.el[x])
    BY <1>1, <1>2, <2>1 DEF SizeInv
  <2>3. ASSUME NEW j \in DOMAIN t.anims, t.anims[j].state = "pending", t.anims[j].tweens
        PROVE  u.el[t.anims[j].e].fxshow # <<>> /\ t.anims[j].orig = "full"
    BY <1>o, <2>1, <2>3 DEF SizeInv
  <2>4. Sized(t.el[e])
    BY <2>1 DEF SizeInv
  <2>. QED  BY <1>0, <1>1, <1>2, <2>2, <2>3, <2>4 DEF SizeInv
<1>. QED  BY <1>4, <1>5, <1>6, <1>7, <1>8, <1>9, <1>10, <1>11 DEF DataInv

LEMMA AddStack ==
  ASSUME NEW t \in State, NEW u \in State, NEW e \in Elems, AddsData(t, u, e),
         AddsFrame(t, u), MayBegin(t, u, e), StackInv(t)
  PROVE  StackInv(u)
<1>. DEFINE i == Len(t.anims) + 1  n == Len(t.stack)
<1>0. /\ DOMAIN u.anims = DOMAIN t.anims \cup {i}
      /\ Und(u, e) = Und(t, e) \cup {i}
      /\ \A x : x # e => Und(u, x) = Und(t, x)
      /\ (Ord(u) <=> Ord(t)) /\ u.derailed = t.derailed
      /\ \A f, x : FrameFits(t, f) => (Completes(u, f, x) <=> Completes(t, f, x))
      /\ \A f : FrameFits(t, f) => FrameFits(u, f)
  BY AddMeaning
<1>h. Halting(t) = [at |-> "halt", i |-> i]
  BY DEF Halting
<1>n. n \in Nat /\ DOMAIN t.stack = 1..n
  BY StackTypes
<1>l. Len(t.timers) \in Nat /\ Len(u.timers) = Len(t.timers) + 1
  BY StackTypes DEF AddsData
<1>. HIDE DEF i
<1>1. \A k \in DOMAIN t.stack : /\ k \in DOMAIN u.stack /\ u.stack[k] = t.stack[k]
                                /\ FrameFits(t, t.stack[k])
  <2>1. FrameInv(t)
    BY DEF StackInv
  <2>2. \A k \in 1..n : u.stack[k] = t.stack[k]
    BY DEF AddsFrame, SameBelow
  <2>3. DOMAIN u.stack = 1..Len(u.stack)
    BY StackTypes
  <2>4. \A k \in 1..n : k \in 1..Len(u.stack)
    BY <1>n DEF AddsFrame
  <2>. QED  BY <1>n, <2>1, <2>2, <2>3, <2>4 DEF FrameInv
<1>2. \A k \in DOMAIN u.stack : \/ k \in DOMAIN t.stack
                                \/ k = n + 1 /\ Len(u.stack) = n + 1 /\ u.stack[k] = Halting(t)
  <2>1. DOMAIN u.stack = 1..Len(u.stack)
    BY StackTypes
  <2>. QED  BY <1>n, <2>1 DEF AddsFrame
<1>3. \A k \in DOMAIN u.stack : \/ /\ k \in DOMAIN t.stack /\ u.stack[k] = t.stack[k]
                                   /\ FrameFits(t, t.stack[k]) /\ ~Open(t.stack[k])
                                \/ k \notin DOMAIN t.stack /\ u.stack[k].at = "halt" /\ u.stack[k].i = i
  <2>. SUFFICES ASSUME NEW k \in DOMAIN u.stack
       PROVE  \/ /\ k \in DOMAIN t.stack /\ u.stack[k] = t.stack[k]
                 /\ FrameFits(t, t.stack[k]) /\ ~Open(t.stack[k])
              \/ k \notin DOMAIN t.stack /\ u.stack[k].at = "halt" /\ u.stack[k].i = i
    OBVIOUS
  <2>1. CASE k \in DOMAIN t.stack
    BY <1>1, <2>1 DEF MayBegin
  <2>2. CASE k \notin DOMAIN t.stack
    BY <1>2, <1>h, <2>2
  <2>. QED  BY <2>1, <2>2
<1>c. \A k \in DOMAIN u.stack : \A x : Completes(u, u.stack[k], x) =>
        k \in DOMAIN t.stack /\ Completes(t, t.stack[k], x)
  <2>1. \A k \in DOMAIN u.stack : \A x : Completes(u, u.stack[k], x) => u.stack[k].at # "halt"
    BY DEF Completes
  <2>. QED  BY <1>0, <1>3, <2>1
<1>f. \A k \in DOMAIN u.stack : \A x : Finishes(u.stack[k], x) =>
        k \in DOMAIN t.stack /\ Finishes(t.stack[k], x)
  BY <1>3 DEF Finishes, IsStop
<1>o. \A k \in DOMAIN u.stack : ~Open(u.stack[k])
  BY <1>3 DEF Open
<1>4. FrameInv(u)
  <2>1. FrameInv(t)
    BY DEF StackInv
  <2>2. ASSUME NEW k \in DOMAIN u.stack PROVE FrameFits(u, u.stack[k])
    <3>1. CASE k \in DOMAIN t.stack
      BY <1>0, <1>3, <3>1
    <3>2. CASE k \notin DOMAIN t.stack
      BY <1>0, <1>3, <3>2 DEF FrameFits, IsStop
    <3>. QED  BY <3>1, <3>2
  <2>3. \A k \in DOMAIN u.stack : IsTick(u.stack[k]) => k \in DOMAIN t.stack /\ IsTick(t.stack[k])
    BY <1>3 DEF IsTick
  <2>4. u.inProgress = t.inProgress
    BY DEF AddsFrame
  <2>5. ASSUME NEW k \in DOMAIN u.stack, IsTick(u.stack[k])
        PROVE  u.inProgress /\ \A m \in DOMAIN u.stack : IsTick(u.stack[m]) => m = k
    BY <2>1, <2>3, <2>4, <2>5 DEF FrameInv
  <2>. QED  BY <1>o, <2>2, <2>5 DEF FrameInv
<1>5. ~u.derailed => PlaceInv(u)
  BY <1>o DEF PlaceInv, Open
<1>6. Ord(u) => FinInv(u)
  <2>. SUFFICES ASSUME Ord(t), NEW k \in DOMAIN u.stack, NEW x \in Elems, Finishes(u.stack[k], x)
       PROVE  /\ u.el[x].finishing
              /\ \A m \in DOMAIN u.stack : Finishes(u.stack[m], x) => m = k
              /\ u.stack[k].at = "finish" => \A j \in Und(u, x) :
                   \E m \in DOMAIN u.stack : m > k /\ u.stack[m].at = "halt" /\ u.stack[m].i = j
    BY <1>0 DEF FinInv
  <2>1. FinInv(t)
    BY DEF StackInv
  <2>2. k \in DOMAIN t.stack /\ Finishes(t.stack[k], x)
    BY <1>f
  <2>3. t.el[x].finishing /\ \A m \in DOMAIN t.stack : Finishes(t.stack[m], x) => m = k
    BY <2>1, <2>2 DEF FinInv
  <2>4. u.el[x].finishing
    BY <2>3 DEF AddsData
  <2>5. \A m \in DOMAIN u.stack : Finishes(u.stack[m], x) => m = k
    BY <1>f, <2>3
  <2>6. ASSUME u.stack[k].at = "finish", NEW j \in Und(u, x)
        PROVE  \E m \in DOMAIN u.stack : m > k /\ u.stack[m].at = "halt" /\ u.stack[m].i = j
    <3>1. CASE j \in Und(t, x)
      <4>1. PICK m \in DOMAIN t.stack : m > k /\ t.stack[m].at = "halt" /\ t.stack[m].i = j
        BY <1>1, <2>1, <2>2, <2>6, <3>1 DEF FinInv
      <4>. QED  BY <1>1, <4>1
    <3>2. CASE j \notin Und(t, x)
      <4>1. x = e /\ j = i
        BY <1>0, <2>6, <3>2
      <4>2. Len(u.stack) = n + 1
        BY <2>2, <4>1 DEF MayBegin
      <4>3. n + 1 \in DOMAIN u.stack /\ u.stack[n + 1].at = "halt" /\ u.stack[n + 1].i = i
        <5>1. n + 1 \in DOMAIN u.stack
          BY <1>n, <4>2, StackTypes
        <5>. QED  BY <1>n, <1>3, <5>1
      <4>4. n + 1 > k
        BY <1>n, <2>2
      <4>. QED  BY <4>1, <4>3, <4>4
    <3>. QED  BY <3>1, <3>2
  <2>. QED  BY <2>4, <2>5, <2>6
<1>7. Ord(u) => StopInv(u)
  <2>. SUFFICES ASSUME Ord(t), NEW k \in DOMAIN u.stack
       PROVE  /\ StopFits(u, u.stack[k])
              /\ IsStop(u.stack[k]) /\ u.stack[k].jobs = <<>> =>
                   \A m \in DOMAIN u.stack : m < k => ~Completes(u, u.stack[m], u.stack[k].e)
    BY <1>0 DEF StopInv
  <2>1. StopInv(t)
    BY DEF StackInv
  <2>2. CASE k \notin DOMAIN t.stack
    BY <1>3, <2>2 DEF StopFits, IsStop
  <2>3. CASE k \in DOMAIN t.stack
    <3>1. u.stack[k] = t.stack[k] /\ FrameFits(t, t.stack[k]) /\ ~Open(t.stack[k])
      BY <1>1, <2>3 DEF MayBegin
    <3>2. StopFits(u, t.stack[k])
      <4>. SUFFICES ASSUME IsStop(t.stack[k]) PROVE StopFits(u, t.stack[k])
        BY DEF StopFits
      <4>1. t.stack[k].found /\ t.stack[k].gotoEnd
        BY <3>1 DEF FrameFits, Open, IsStop
      <4>2. ASSUME t.stack[k].jobs # <<>> PROVE Und(u, t.stack[k].e) = {}
        <5>1. Und(t, t.stack[k].e) = {}
          BY <2>1, <2>3, <4>1, <4>2 DEF StopInv, StopFits
        <5>2. t.stack[k].e # e
          <6>1. t.stack[k].at # "finish" /\ Finishes(t.stack[k], t.stack[k].e)
            BY <4>2 DEF IsStop, Finishes
          <6>. QED  BY <2>3, <6>1 DEF MayBegin
        <5>. QED  BY <1>0, <5>1, <5>2
      <4>. QED  BY <4>1, <4>2 DEF StopFits
    <3>3. ASSUME IsStop(t.stack[k]), t.stack[k].jobs = <<>>, NEW m \in DOMAIN u.stack, m < k
          PROVE  ~Completes(u, u.stack[m], t.stack[k].e)
      BY <1>c, <2>1, <2>3, <3>3 DEF StopInv
    <3>. QED  BY <3>1, <3>2, <3>3
  <2>. QED  BY <2>2, <2>3
<1>8. Ord(u) => CallInv(u)
  <2>. SUFFICES ASSUME Ord(t), NEW x \in Elems, NEW k \in DOMAIN u.stack, Completes(u, u.stack[k], x)
       PROVE  /\ Und(u, x) # {} => \E m \in DOMAIN u.stack : m > k /\ Finishes(u.stack[m], x)
              /\ \A l \in DOMAIN u.stack : l > k /\ Completes(u, u.stack[l], x) =>
                   \E m \in DOMAIN u.stack : k < m /\ m < l /\ Finishes(u.stack[m], x)
    BY <1>0 DEF CallInv
  <2>1. CallInv(t)
    BY DEF StackInv
  <2>2. k \in DOMAIN t.stack /\ Completes(t, t.stack[k], x)
    BY <1>c
  <2>3. ASSUME Und(u, x) # {}
        PROVE  \E m \in DOMAIN u.stack : m > k /\ Finishes(u.stack[m], x)
    <3>1. PICK m \in DOMAIN t.stack : m > k /\ Finishes(t.stack[m], x)
      <4>1. CASE x = e
        BY <2>2, <4>1 DEF MayBegin
      <4>2. CASE x # e
        BY <1>0, <2>1, <2>2, <2>3, <4>2 DEF CallInv
      <4>. QED  BY <4>1, <4>2
    <3>. QED  BY <1>1, <3>1
  <2>4. ASSUME NEW l \in DOMAIN u.stack, l > k, Completes(u, u.stack[l], x)
        PROVE  \E m \in DOMAIN u.stack : k < m /\ m < l /\ Finishes(u.stack[m], x)
    <3>1. l \in DOMAIN t.stack /\ Completes(t, t.stack[l], x)
      BY <1>c, <2>4
    <3>2. PICK m \in DOMAIN t.stack : k < m /\ m < l /\ Finishes(t.stack[m], x)
      BY <2>1, <2>2, <2>4, <3>1 DEF CallInv
    <3>. QED  BY <1>1, <3>2
  <2>. QED  BY <2>3, <2>4
<1>. QED  BY <1>4, <1>5, <1>6, <1>7, <1>8 DEF StackInv

LEMMA AddWaits ==
  ASSUME NEW t \in State, NEW u \in State, NEW e \in Elems, AddsData(t, u, e),
         AddsFrame(t, u), StackInv(t), NEW x \in Elems, x # e, Waits(t, x)
  PROVE  Waits(u, x)
<1>1. \A k \in DOMAIN t.stack : /\ k \in DOMAIN u.stack /\ u.stack[k] = t.stack[k]
                                /\ FrameFits(t, t.stack[k])
  <2>1. FrameInv(t)
    BY DEF StackInv
  <2>2. \A k \in 1..Len(t.stack) : u.stack[k] = t.stack[k]
    BY DEF AddsFrame, SameBelow
  <2>3. DOMAIN u.stack = 1..Len(u.stack) /\ DOMAIN t.stack = 1..Len(t.stack) /\ Len(t.stack) \in Nat
    BY StackTypes
  <2>4. \A k \in 1..Len(t.stack) : k \in 1..Len(u.stack)
    BY <2>3 DEF AddsFrame
  <2>. QED  BY <2>1, <2>2, <2>3, <2>4 DEF FrameInv
<1>2. /\ Und(u, x) = Und(t, x) /\ u.el[x] = t.el[x] /\ u.naps[x] = t.naps[x]
      /\ (Ord(u) <=> Ord(t)) /\ u.derailed = t.derailed
  <2>1. Und(u, x) = Und(t, x) /\ (Ord(u) <=> Ord(t)) /\ u.derailed = t.derailed
    BY AddMeaning
  <2>2. u.el[x] = t.el[x] /\ u.naps = t.naps
    BY DEF AddsData
  <2>. QED  BY <2>1, <2>2
<1>3. Waited(t, x) => Waited(u, x)
  BY <1>1, <1>2 DEF Waited, Headed
<1>4. Unstuck(t, x) => Unstuck(u, x)
  <2>1. \A k \in DOMAIN t.stack : Wakes(t, t.stack[k], x) => Wakes(u, u.stack[k], x)
    BY <1>1, AddMeaning
  <2>. QED  BY <1>1, <1>2, <2>1 DEF Unstuck
<1>. QED  BY <1>2, <1>3, <1>4 DEF Waits

-----------------------------------------------------------------------------
(* What the operators of the model do to a state. *)

LEMMA Restacked ==
  ASSUME NEW t \in State, NEW q \in Seq(Frames), NEW u, u = [t EXCEPT !.stack = q]
  PROVE  /\ u \in State /\ SameData(t, u) /\ u.stack = q
         /\ u.inProgress = t.inProgress /\ u.frames = t.frames
BY DEF State, SameData, SameFlags

LEMMA PushIs ==
  ASSUME NEW t \in State, NEW f \in Frames
  PROVE  /\ Push(t, f) \in State /\ SameData(t, Push(t, f)) /\ Pushed(t, Push(t, f), f)
         /\ Push(t, f).inProgress = t.inProgress
<1>. DEFINE n == Len(t.stack)  q == Append(t.stack, f)
<1>1. t.stack \in Seq(Frames) /\ n \in Nat
  BY StackTypes DEF State
<1>2. q \in Seq(Frames) /\ Len(q) = n + 1 /\ q[n + 1] = f /\ \A k \in 1..n : q[k] = t.stack[k]
  BY <1>1
<1>3. Push(t, f) = [t EXCEPT !.stack = q]
  BY DEF Push
<1>. HIDE DEF q
<1>4. Push(t, f) \in State /\ SameData(t, Push(t, f)) /\ Push(t, f).stack = q
      /\ Push(t, f).inProgress = t.inProgress
  BY <1>2, <1>3, Restacked
<1>5. Pushed(t, Push(t, f), f)
  BY <1>2, <1>4 DEF Pushed, SameBelow
<1>. QED  BY <1>4, <1>5

LEMMA PopIs ==
  ASSUME NEW t \in State, t.stack # <<>>
  PROVE  /\ Pop(t) \in State /\ SameData(t, Pop(t)) /\ Popped(t, Pop(t))
         /\ Pop(t).inProgress = t.inProgress
<1>. DEFINE n == Len(t.stack)  q == SubSeq(t.stack, 1, n - 1)
<1>1. t.stack \in Seq(Frames) /\ n \in Nat /\ n > 0
  BY StackTypes DEF State
<1>2. q \in Seq(Frames) /\ Len(q) = n - 1 /\ \A k \in 1..(n - 1) : q[k] = t.stack[k]
  BY <1>1
<1>3. Pop(t) = [t EXCEPT !.stack = q]
  BY DEF Pop
<1>. HIDE DEF q
<1>4. Pop(t) \in State /\ SameData(t, Pop(t)) /\ Pop(t).stack = q
      /\ Pop(t).inProgress = t.inProgress
  BY <1>2, <1>3, Restacked
<1>5. Popped(t, Pop(t))
  BY <1>2, <1>4 DEF Popped, SameBelow
<1>. QED  BY <1>4, <1>5

LEMMA SwapIs ==
  ASSUME NEW t \in State, t.stack # <<>>, NEW f \in Frames
  PROVE  /\ Swap(t, f) \in State /\ SameData(t, Swap(t, f)) /\ Swapped(t, Swap(t, f), f)
         /\ Swap(t, f).inProgress = t.inProgress
<1>1. /\ Pop(t) \in State /\ SameData(t, Pop(t)) /\ Popped(t, Pop(t))
      /\ Pop(t).inProgress = t.inProgress
  BY PopIs
<1>2. Swap(t, f) = Push(Pop(t), f)
  BY DEF Swap
<1>3. /\ Swap(t, f) \in State /\ SameData(Pop(t), Swap(t, f)) /\ Pushed(Pop(t), Swap(t, f), f)
      /\ Swap(t, f).inProgress = Pop(t).inProgress
  BY <1>1, <1>2, PushIs
<1>4. SameData(t, Swap(t, f))
  BY <1>1, <1>3 DEF SameData, SameFlags
<1>5. Len(t.stack) \in Nat
  BY StackTypes
<1>6. Swapped(t, Swap(t, f), f)
  BY <1>1, <1>3, <1>5 DEF Popped, Pushed, Swapped, SameBelow
<1>. QED  BY <1>1, <1>3, <1>4, <1>6

(* defaultPrefilter keeps a note of the size that the element has of its own,
   and does what it was asked. *)
PrefilterOK(x, kind, p) ==
  /\ p.x \in Element /\ p.tweens \in BOOLEAN /\ p.hidden \in BOOLEAN
  /\ p.orig \in Sizes /\ p.from \in Sizes /\ p.to \in Sizes
  /\ p.x.queue = x.queue /\ p.x.nap = x.nap /\ p.x.finishing = x.finishing
  /\ Sized(x) => Sized(p.x) /\ (p.tweens => p.x.fxshow # <<>> /\ p.orig = "full")
  /\ ~(x.fxshow # <<>> /\ x.fxshow[1].hidden # <<>>) =>
       /\ kind = "show" => p.x.shown /\ (p.tweens => p.hidden)
       /\ kind = "hide" => IF p.tweens THEN ~p.hidden ELSE ~p.x.shown

LEMMA PrefilterIs ==
  ASSUME NEW x \in Element, NEW kind
  PROVE  PrefilterOK(x, kind, Prefilter(x, kind))
<1>. DEFINE isHidden == ~x.shown
            pretend == kind = "show" /\ x.shown /\ Kept(x) # <<>>
            noop    == kind = (IF isHidden THEN "hide" ELSE "show") /\ ~pretend
            before  == x.fxshow # <<>>
            hidden  == IF before /\ x.fxshow[1].hidden # <<>>
                       THEN x.fxshow[1].hidden[1] ELSE isHidden \/ pretend
            stored  == IF kind = "toggle" THEN <<~hidden>>
                       ELSE IF before THEN x.fxshow[1].hidden ELSE <<>>
            resumed == Kept(x) # <<>>
            kept    == IF resumed THEN Kept(x)[1] ELSE x.size
            y       == [x EXCEPT !.fxshow = <<[kept |-> <<kept>>, hidden |-> stored]>>,
                                 !.shown = @ \/ hidden]
<1>1. /\ x.shown \in BOOLEAN /\ x.size \in Sizes /\ x.fxshow \in {<<>>} \cup {<<n>> : n \in Note}
      /\ x.queue \in Seq(Entry) /\ x.nap \in BOOLEAN /\ x.finishing \in BOOLEAN
  BY DEF Element
<1>2. before => /\ x.fxshow[1].kept \in {<<z>> : z \in Sizes}
                /\ x.fxshow[1].hidden \in {<<>>} \cup {<<b>> : b \in BOOLEAN}
  <2>. SUFFICES ASSUME before
       PROVE  /\ x.fxshow[1].kept \in {<<z>> : z \in Sizes}
              /\ x.fxshow[1].hidden \in {<<>>} \cup {<<b>> : b \in BOOLEAN}
    OBVIOUS
  <2>1. PICK n \in Note : x.fxshow = <<n>>
    BY <1>1
  <2>2. x.fxshow[1] = n
    BY <2>1
  <2>. QED  BY <2>2 DEF Note
<1>3. resumed <=> before
  BY <1>2 DEF Kept
<1>4. kept \in Sizes
  BY <1>1, <1>2 DEF Kept
<1>5. hidden \in BOOLEAN
  <2>1. CASE before /\ x.fxshow[1].hidden # <<>>
    <3>1. PICK b \in BOOLEAN : x.fxshow[1].hidden = <<b>>
      BY <1>2, <2>1
    <3>. QED  BY <2>1, <3>1
  <2>2. CASE ~(before /\ x.fxshow[1].hidden # <<>>)
    BY <1>1, <2>2
  <2>. QED  BY <2>1, <2>2
<1>6. stored \in {<<>>} \cup {<<b>> : b \in BOOLEAN}
  BY <1>2, <1>5
<1>7. "zero" \in Sizes
  BY DEF Sizes
<1>n. ~(before /\ x.fxshow[1].hidden # <<>>) => hidden = (isHidden \/ pretend)
  BY <1>1
<1>c. Sized(x) => kept = "full" /\ (~resumed => x.size = "full")
  BY <1>2, <1>3 DEF Sized, Kept
<1>. HIDE DEF kept, hidden, stored, resumed
<1>8. CASE noop
  <2>1. Prefilter(x, kind) = [x |-> x, tweens |-> FALSE, hidden |-> hidden, orig |-> x.size,
                              from |-> x.size, to |-> x.size]
    BY <1>8 DEF Prefilter, hidden
  <2>2. kind = "show" => x.shown
    BY <1>1, <1>8
  <2>3. kind = "hide" => ~x.shown
    BY <1>1, <1>8
  <2>4. \A p : p = Prefilter(x, kind) =>
          /\ p.x = x /\ p.tweens = FALSE /\ p.hidden = hidden /\ p.orig = x.size
          /\ p.from = x.size /\ p.to = x.size
    BY <2>1
  <2>. QED  BY <1>1, <1>5, <2>2, <2>3, <2>4 DEF PrefilterOK
<1>9. CASE ~noop
  <2>1. Prefilter(x, kind) =
          [x |-> y, tweens |-> TRUE, hidden |-> hidden,
           orig |-> IF resumed /\ kept # "zero" THEN kept ELSE x.size,
           from |-> IF hidden /\ ~resumed THEN "zero" ELSE x.size,
           to   |-> IF hidden THEN kept ELSE "zero"]
    BY <1>9 DEF Prefilter, hidden, stored, kept, resumed
  <2>2. [kept |-> <<kept>>, hidden |-> stored] \in Note
    BY <1>4, <1>6 DEF Note
  <2>3. /\ y.queue = x.queue /\ y.nap = x.nap /\ y.finishing = x.finishing /\ y.size = x.size
        /\ y.shown = (x.shown \/ hidden)
        /\ y.fxshow = <<[kept |-> <<kept>>, hidden |-> stored]>>
        /\ y \in Element
    BY <1>5, <2>2 DEF Element
  <2>4. y.fxshow # <<>> /\ y.fxshow[1].kept = <<kept>>
    BY <2>3
  <2>5. Sized(x) => Sized(y) /\ (IF resumed /\ kept # "zero" THEN kept ELSE x.size) = "full"
    BY <1>c, <2>4 DEF Sized
  <2>6. ~(before /\ x.fxshow[1].hidden # <<>>) =>
          /\ kind = "show" => y.shown /\ hidden
          /\ kind = "hide" => ~hidden
    BY <1>1, <1>n, <1>9, <2>3
  <2>. HIDE DEF y
  <2>7. \A p : p = Prefilter(x, kind) =>
          /\ p.x = y /\ p.tweens = TRUE /\ p.hidden = hidden
          /\ p.orig = (IF resumed /\ kept # "zero" THEN kept ELSE x.size)
          /\ p.from \in Sizes /\ p.to \in Sizes
    BY <1>1, <1>4, <1>7, <2>1
  <2>. QED  BY <1>1, <1>4, <1>5, <2>3, <2>4, <2>5, <2>6, <2>7 DEF PrefilterOK
<1>. QED  BY <1>8, <1>9

(* Begin: an animation is added, and the first timer starts a tick. *)
Tick == [at |-> "tick", i |-> 1]
Ticks(t, u) ==
  IF t.inProgress THEN u = t
  ELSE SameData(t, u) /\ Pushed(t, u, Tick) /\ u.inProgress

LEMMA TimerIs ==
  ASSUME NEW t \in State, NEW i \in Nat, NEW v, v = [t EXCEPT !.timers = Append(@, i)]
  PROVE  v \in State /\ Timer(t, i) \in State /\ Ticks(v, Timer(t, i))
<1>1. Append(t.timers, i) \in Seq(Nat)
  BY DEF State
<1>2. v \in State /\ v.inProgress = t.inProgress
  BY <1>1 DEF State
<1>3. CASE t.inProgress
  <2>1. Timer(t, i) = v
    BY <1>3 DEF Timer
  <2>. QED  BY <1>2, <1>3, <2>1 DEF Ticks
<1>4. CASE ~t.inProgress
  <2>. DEFINE w == [v EXCEPT !.inProgress = TRUE, !.frames = @ + 1]
  <2>1. Timer(t, i) = Push(w, Tick)
    BY <1>4 DEF Timer, Tick
  <2>2. v.frames + 1 \in Nat
    BY <1>2 DEF State
  <2>3. w = [v EXCEPT !.inProgress = TRUE, !.frames = v.frames + 1]
    BY <1>2 DEF State
  <2>4. w \in State /\ w.stack = v.stack /\ w.inProgress = TRUE
    BY <1>2, <2>2, <2>3 DEF State
  <2>5. SameData(v, w)
    BY <1>2, <2>3 DEF State, SameData, SameFlags
  <2>6. Tick \in Frames
    BY DEF Tick, Frames, TickFrame
  <2>. HIDE DEF w
  <2>7. /\ Push(w, Tick) \in State /\ SameData(w, Push(w, Tick)) /\ Pushed(w, Push(w, Tick), Tick)
        /\ Push(w, Tick).inProgress = w.inProgress
    BY <2>4, <2>6, PushIs
  <2>8. SameData(v, Push(w, Tick))
    BY <2>5, <2>7 DEF SameData, SameFlags
  <2>9. Pushed(v, Push(w, Tick), Tick)
    BY <2>4, <2>7 DEF Pushed, SameBelow
  <2>. QED  BY <1>2, <1>4, <2>1, <2>4, <2>7, <2>8, <2>9 DEF Ticks
<1>. QED  BY <1>3, <1>4

LEMMA BeginIs ==
  ASSUME NEW t \in State, NEW e \in Elems, NEW job \in Job
  PROVE  \E v \in State :
           /\ AddsData(t, v, e) /\ AddsFrame(t, v)
           /\ t.el[e].finishing => Len(v.stack) = Len(t.stack) + 1
           /\ ~t.el[e].finishing => v.stack = t.stack
           /\ Begin(t, e, job) \in State /\ Ticks(v, Begin(t, e, job))
<1>. DEFINE p == Prefilter(t.el[e], job.kind)
            i == Len(t.anims) + 1
            nt == t.el[e].fxshow # <<>> /\ t.el[e].fxshow[1].hidden # <<>>
            a == [e |-> e, kind |-> job.kind, state |-> "pending", stopped |-> FALSE,
                  matches |-> TRUE, dur |-> job.dur, left |-> job.dur,
                  noted |-> nt,
                  tweens |-> p.tweens, hidden |-> p.hidden, orig |-> p.orig,
                  from |-> p.from, to |-> p.to]
            made == [t EXCEPT !.el[e] = p.x, !.anims = Append(@, a)]
            m == IF t.el[e].finishing THEN Push(made, Halting(t)) ELSE made
            v == [m EXCEPT !.timers = Append(@, i)]
<1>t. /\ t.el \in [Elems -> Element] /\ t.el[e] \in Element /\ t.anims \in Seq(Animation)
      /\ t.timers \in Seq(Nat) /\ i \in Nat /\ Len(t.timers) \in Nat /\ Len(t.anims) \in Nat
      /\ t.stack \in Seq(Frames) /\ Len(t.stack) \in Nat
  BY DEF State
<1>j. job.kind \in Kinds /\ job.dur \in Durations /\ job.dur \in Nat
  BY EffectsAssumption DEF Job
<1>1. PrefilterOK(t.el[e], job.kind, p)
  BY <1>t, PrefilterIs
<1>n. PICK b \in BOOLEAN : b = nt
  OBVIOUS
<1>b. Begin(t, e, job) = Timer(m, i)
  BY DEF Begin, Halting
<1>. HIDE DEF p
<1>2. a \in Animation /\ a.e = e /\ a.state = "pending" /\ a.matches /\ ~a.stopped
      /\ a.kind = job.kind /\ (a.noted <=> nt) /\ a.tweens = p.tweens /\ a.hidden = p.hidden
      /\ a.orig = p.orig
  BY <1>1, <1>j, <1>n DEF PrefilterOK, Animation
<1>p. Asked(a, p.x)
  BY <1>1, <1>2 DEF PrefilterOK, Asked
<1>s. Sized(t.el[e]) => Sized(p.x) /\ (a.tweens => p.x.fxshow # <<>> /\ a.orig = "full")
  BY <1>1, <1>2 DEF PrefilterOK
<1>q. p.x \in Element /\ p.x.queue = t.el[e].queue /\ p.x.nap = t.el[e].nap
      /\ p.x.finishing = t.el[e].finishing
  BY <1>1 DEF PrefilterOK
<1>. HIDE DEF a, nt
<1>3. Append(t.anims, a) \in Seq(Animation) /\ Len(Append(t.anims, a)) = i
      /\ Append(t.anims, a)[i] = a
      /\ \A j \in 1..Len(t.anims) : Append(t.anims, a)[j] = t.anims[j]
  BY <1>t, <1>2
<1>4. [t.el EXCEPT ![e] = p.x] \in [Elems -> Element]
  BY <1>t, <1>q
<1>5. made = [t EXCEPT !.el = [t.el EXCEPT ![e] = p.x], !.anims = Append(t.anims, a)]
  BY <1>t DEF State
<1>6. /\ made \in State
      /\ made.el = [t.el EXCEPT ![e] = p.x] /\ made.anims = Append(t.anims, a)
      /\ made.timers = t.timers /\ SameFlags(t, made) /\ made.naps = t.naps
      /\ made.inProgress = t.inProgress /\ made.stack = t.stack
  BY <1>3, <1>4, <1>5 DEF State, SameFlags
<1>. HIDE DEF made
<1>h. Halting(t) \in Frames
  BY <1>t DEF Halting, Frames, OtherFrame
<1>7. /\ m \in State /\ SameData(made, m) /\ m.inProgress = t.inProgress
      /\ t.el[e].finishing => Pushed(t, m, Halting(t))
      /\ ~t.el[e].finishing => m.stack = t.stack
  <2>1. CASE t.el[e].finishing
    <3>1. /\ m \in State /\ SameData(made, m) /\ Pushed(made, m, Halting(t))
          /\ m.inProgress = made.inProgress
      BY <1>6, <1>h, <2>1, PushIs
    <3>2. Pushed(t, m, Halting(t))
      BY <1>6, <3>1 DEF Pushed, SameBelow
    <3>. QED  BY <1>6, <2>1, <3>1, <3>2
  <2>2. CASE ~t.el[e].finishing
    <3>1. m = made
      BY <2>2
    <3>. QED  BY <1>6, <2>2, <3>1 DEF SameData, SameFlags
  <2>. QED  BY <2>1, <2>2
<1>. HIDE DEF m
<1>8. v \in State /\ Timer(m, i) \in State /\ Ticks(v, Timer(m, i))
  BY <1>t, <1>7, TimerIs
<1>9. /\ v.el = made.el /\ v.anims = made.anims /\ SameFlags(t, v) /\ v.naps = t.naps
      /\ v.inProgress = t.inProgress /\ v.stack = m.stack /\ v.timers = Append(t.timers, i)
  BY <1>6, <1>7 DEF State, SameData, SameFlags
<1>. HIDE DEF v
<1>10. AddsData(t, v, e)
  <2>1. /\ v.anims[i] = a /\ Len(v.anims) = i
        /\ \A j \in 1..Len(t.anims) : v.anims[j] = t.anims[j]
    BY <1>3, <1>6, <1>9
  <2>2. /\ Len(v.timers) = Len(t.timers) + 1 /\ v.timers[Len(t.timers) + 1] = i
        /\ \A j \in 1..Len(t.timers) : v.timers[j] = t.timers[j]
    BY <1>t, <1>9
  <2>3. v.el[e] = p.x /\ \A x \in Elems : x # e => v.el[x] = t.el[x]
    BY <1>t, <1>6, <1>9
  <2>. HIDE DEF i
  <2>4. i = Len(t.anims) + 1
    BY DEF i
  <2>. QED  BY <1>2, <1>9, <1>p, <1>s, <1>q, <2>1, <2>2, <2>3, <2>4 DEF AddsData
<1>11. /\ AddsFrame(t, v)
       /\ t.el[e].finishing => Len(v.stack) = Len(t.stack) + 1
       /\ ~t.el[e].finishing => v.stack = t.stack
  <2>1. CASE t.el[e].finishing
    BY <1>7, <1>9, <2>1 DEF AddsFrame, Pushed, SameBelow
  <2>2. CASE ~t.el[e].finishing
    BY <1>7, <1>9, <2>2 DEF AddsFrame, SameBelow
  <2>. QED  BY <2>1, <2>2
<1>. QED  BY <1>8, <1>10, <1>11, <1>b

LEMMA TickEnters ==
  ASSUME NEW t, \A k \in DOMAIN t.stack : ~Open(t.stack[k]) /\ ~IsTick(t.stack[k])
  PROVE  Enters(t, Tick) /\ IsTick(Tick)
<1>1. Tick \in Frames
  BY DEF Tick, Frames, TickFrame
<1>2. Tick.at = "tick"
  BY DEF Tick
<1>3. ~IsStop(Tick) /\ (\A x : ~Finishes(Tick, x)) /\ (\A x : ~Completes(t, Tick, x)) /\ IsTick(Tick)
  BY <1>2 DEF IsStop, Finishes, Completes, IsTick
<1>4. FrameFits(t, Tick) /\ StopFits(t, Tick)
  BY <1>2, <1>3 DEF FrameFits, StopFits
<1>. QED  BY <1>1, <1>2, <1>3, <1>4 DEF Enters

(* No animation ends in a step. *)
NoneEnds(t, u) ==
  \A i \in DOMAIN t.anims : i \in DOMAIN u.anims /\ u.anims[i].state = t.anims[i].state

Ready(t, e) ==
  /\ \A k \in DOMAIN t.stack : ~Open(t.stack[k])
  /\ Ord(t) =>
       /\ Und(t, e) = {} /\ ~t.el[e].nap
       /\ \A k \in DOMAIN t.stack : Completes(t, t.stack[k], e) =>
            \E m \in DOMAIN t.stack : m > k /\ Finishes(t.stack[m], e)
       /\ \A k \in DOMAIN t.stack : Finishes(t.stack[k], e) => t.stack[k].at = "finish"
       /\ Headed(t, e) \/ \E k \in DOMAIN t.stack : Holds(t.stack[k], e)

OthersWait(t, e) == \A x \in Elems : x # e => Waits(t, x)
AllWait(t) == \A x \in Elems : Waits(t, x)

LEMMA BeginKeeps ==
  ASSUME NEW t \in State, NEW e \in Elems, NEW job \in Job,
         DataInv(t), StackInv(t), Ready(t, e), OthersWait(t, e)
  PROVE  LET u == Begin(t, e, job)
         IN u \in State /\ DataInv(u) /\ StackInv(u) /\ AllWait(u) /\ NoneEnds(t, u)
<1>. DEFINE u == Begin(t, e, job)  n == Len(t.stack)
<1>1. PICK v \in State : /\ AddsData(t, v, e) /\ AddsFrame(t, v)
                         /\ t.el[e].finishing => Len(v.stack) = Len(t.stack) + 1
                         /\ ~t.el[e].finishing => v.stack = t.stack
                         /\ u \in State /\ Ticks(v, u)
  BY BeginIs
<1>. HIDE DEF u
<1>0. n \in Nat /\ DOMAIN t.stack = 1..n /\ DOMAIN v.stack = 1..Len(v.stack)
  BY StackTypes
<1>2. MayBegin(t, v, e)
  <2>1. ASSUME Ord(t), NEW k \in DOMAIN t.stack, Finishes(t.stack[k], e)
        PROVE  t.el[e].finishing
    BY <2>1 DEF StackInv, FinInv
  <2>. QED  BY <1>1, <2>1 DEF Ready, MayBegin
<1>3. DataInv(v)
  BY <1>1, AddData DEF Ready
<1>4. StackInv(v)
  BY <1>1, <1>2, AddStack
<1>5. OthersWait(v, e)
  BY <1>1, AddWaits DEF OthersWait
<1>6. \A k \in DOMAIN t.stack : k \in DOMAIN v.stack /\ v.stack[k] = t.stack[k]
  BY <1>0, <1>1 DEF AddsFrame, SameBelow
<1>7. Waits(v, e)
  <2>1. /\ Und(v, e) = Und(t, e) \cup {Len(t.anims) + 1}
        /\ Ord(v) <=> Ord(t)
    BY <1>1, AddMeaning
  <2>2. v.el[e].queue = t.el[e].queue
    BY <1>1 DEF AddsData
  <2>3. Ord(v) => Waited(v, e)
    BY <1>6, <2>1, <2>2 DEF Waited, Headed, Ready
  <2>4. Unstuck(v, e)
    BY <2>1 DEF Unstuck
  <2>. QED  BY <2>3, <2>4 DEF Waits
<1>8. AllWait(v)
  BY <1>5, <1>7 DEF AllWait, OthersWait
<1>9. NoneEnds(t, v)
  BY <1>1, AddMeaning DEF NoneEnds
<1>10. CASE v.inProgress
  <2>1. u = v
    BY <1>1, <1>10 DEF Ticks
  <2>. QED  BY <1>3, <1>4, <1>8, <1>9, <2>1 DEF u
<1>11. CASE ~v.inProgress
  <2>1. SameData(v, u) /\ Pushed(v, u, Tick) /\ u.inProgress
    BY <1>1, <1>11 DEF Ticks
  <2>2. \A k \in DOMAIN v.stack : ~IsTick(v.stack[k])
    BY <1>4, <1>11 DEF StackInv, FrameInv
  <2>3. \A k \in DOMAIN v.stack : ~Open(v.stack[k])
    <3>1. ASSUME NEW k \in DOMAIN v.stack PROVE ~Open(v.stack[k])
      <4>1. CASE k \in DOMAIN t.stack
        BY <1>6, <4>1 DEF Ready
      <4>2. CASE k \notin DOMAIN t.stack
        <5>1. k = n + 1 /\ v.stack[k] = Halting(t)
          BY <1>0, <1>1, <4>2 DEF AddsFrame
        <5>. QED  BY <5>1 DEF Halting, Open
      <4>. QED  BY <4>1, <4>2
    <3>. QED  BY <3>1
  <2>4. Enters(v, Tick) /\ IsTick(Tick)
    BY <2>2, <2>3, TickEnters
  <2>5. StackInv(u)
    BY <1>1, <1>4, <2>1, <2>4, PushKeeps
  <2>6. DataInv(u)
    BY <1>1, <1>3, <2>1, SameDataKept
  <2>7. AllWait(u)
    BY <1>1, <1>8, <2>1, PushWaits DEF AllWait
  <2>8. NoneEnds(t, u)
    BY <1>9, <2>1 DEF NoneEnds, SameData
  <2>. QED  BY <1>1, <2>5, <2>6, <2>7, <2>8 DEF u
<1>. QED  BY <1>10, <1>11

(* dequeue. *)
Rest(q) == IF q # <<>> /\ q[1] = Sentinel THEN Tail(q) ELSE q
DelayJob == [kind |-> "delay"]
Tailed(q) == \A j \in 2..Len(q) : q[j] # Sentinel

LEMMA RestIs ==
  ASSUME NEW q \in Seq(Entry), Tailed(q), Rest(q) # <<>>
  PROVE  LET r == Rest(q)  h == <<Sentinel>> \o Tail(r)
         IN /\ q # <<>>
            /\ r[1] \in Job \/ r[1] = DelayJob
            /\ h \in Seq(Entry) /\ Tailed(h) /\ h # <<>> /\ h[1] = Sentinel
<1>. DEFINE r == Rest(q)  h == <<Sentinel>> \o Tail(r)
<1>3. /\ q # <<>> /\ r \in Seq(Entry) /\ Len(r) \in Nat /\ Len(r) > 0
      /\ \A j \in 1..Len(r) : r[j] # Sentinel
      /\ 1 \in 1..Len(r) /\ r[1] \in Entry
  <2>1. CASE q # <<>> /\ q[1] = Sentinel
    <3>1. r = Tail(q)
      BY <2>1 DEF Rest
    <3>2. r \in Seq(Entry) /\ Len(r) = Len(q) - 1 /\ Len(q) \in Nat /\ Len(r) > 0
      BY <2>1, <3>1
    <3>3. \A j \in 1..Len(r) : r[j] = q[j + 1] /\ j + 1 \in 2..Len(q)
      BY <2>1, <3>1, <3>2
    <3>4. \A j \in 1..Len(r) : r[j] # Sentinel
      BY <3>3 DEF Tailed
    <3>. QED  BY <2>1, <3>2, <3>4
  <2>2. CASE ~(q # <<>> /\ q[1] = Sentinel)
    <3>1. r = q /\ q # <<>> /\ q[1] # Sentinel
      BY <2>2 DEF Rest
    <3>2. Len(r) \in Nat /\ Len(r) > 0
      BY <3>1
    <3>. QED  BY <3>1, <3>2 DEF Tailed
  <2>. QED  BY <2>1, <2>2
<1>. HIDE DEF r
<1>4. r[1] \in Job \/ r[1] = DelayJob
  BY <1>3 DEF Entry, DelayJob
<1>5. Sentinel \in Entry
  BY DEF Entry
<1>6. /\ h \in Seq(Entry) /\ Len(h) = Len(r) /\ h[1] = Sentinel
      /\ \A j \in 2..Len(h) : h[j] = r[j]
  BY <1>3, <1>5
<1>. HIDE DEF h
<1>7. h # <<>> /\ Tailed(h)
  BY <1>3, <1>6 DEF Tailed
<1>. QED  BY <1>3, <1>4, <1>6, <1>7 DEF r, h

(* The queue is q, a delay under way no more, or one that is. *)
Requeued(t, u, e, q, nap) ==
  /\ \A x \in Elems : x # e => u.el[x] = t.el[x] /\ u.naps[x] = t.naps[x]
  /\ u.el[e] = [t.el[e] EXCEPT !.queue = q, !.nap = nap]
  /\ u.naps[e] > 0 <=> t.naps[e] > 0 \/ t.el[e].nap
  /\ u.leaked <=> t.leaked \/ t.el[e].nap
  /\ u.anims = t.anims /\ u.timers = t.timers /\ u.stack = t.stack
  /\ u.inProgress = t.inProgress
  /\ u.rerun = t.rerun /\ u.derailed = t.derailed /\ u.hurried = t.hurried

LEMMA DropIs ==
  ASSUME NEW t \in State, NEW e \in Elems, NEW q \in Seq(Entry), NEW u,
         u = [DropHooks(t, e) EXCEPT !.el[e].queue = q]
  PROVE  u \in State /\ Requeued(t, u, e, q, FALSE)
<1>1. /\ t.el \in [Elems -> Element] /\ t.el[e] \in Element /\ t.naps \in [Elems -> Nat]
      /\ t.naps[e] \in Nat /\ t.leaked \in BOOLEAN /\ t.el[e].nap \in BOOLEAN
  BY DEF State, Element
<1>2. [t.el[e] EXCEPT !.queue = q, !.nap = FALSE] \in Element
  BY <1>1 DEF Element
<1>3. CASE ~t.el[e].nap
  <2>1. u = [t EXCEPT !.el[e].queue = q]
    BY <1>3 DEF DropHooks
  <2>2. [t.el[e] EXCEPT !.queue = q] = [t.el[e] EXCEPT !.queue = q, !.nap = FALSE]
    BY <1>1, <1>3 DEF Element
  <2>3. u = [t EXCEPT !.el = [t.el EXCEPT ![e] = [t.el[e] EXCEPT !.queue = q, !.nap = FALSE]]]
    BY <1>1, <2>1, <2>2 DEF State
  <2>4. [t.el EXCEPT ![e] = [t.el[e] EXCEPT !.queue = q, !.nap = FALSE]] \in [Elems -> Element]
    BY <1>1, <1>2
  <2>5. u \in State
    BY <2>3, <2>4 DEF State
  <2>. QED  BY <1>1, <1>3, <2>3, <2>5 DEF Requeued, State
<1>4. CASE t.el[e].nap
  <2>1. u = [t EXCEPT !.el = [t.el EXCEPT ![e] = [t.el[e] EXCEPT !.queue = q, !.nap = FALSE]],
                      !.naps = [t.naps EXCEPT ![e] = t.naps[e] + 1], !.leaked = TRUE]
    BY <1>1, <1>4, ZenonT(60) DEF DropHooks, State, Element
  <2>2. [t.el EXCEPT ![e] = [t.el[e] EXCEPT !.queue = q, !.nap = FALSE]] \in [Elems -> Element]
    BY <1>1, <1>2
  <2>3. [t.naps EXCEPT ![e] = t.naps[e] + 1] \in [Elems -> Nat]
    BY <1>1
  <2>4. u \in State
    BY <2>1, <2>2, <2>3 DEF State
  <2>5. /\ u.el = [t.el EXCEPT ![e] = [t.el[e] EXCEPT !.queue = q, !.nap = FALSE]]
        /\ u.naps = [t.naps EXCEPT ![e] = t.naps[e] + 1] /\ u.leaked = TRUE
        /\ u.anims = t.anims /\ u.timers = t.timers /\ u.stack = t.stack
        /\ u.inProgress = t.inProgress
        /\ u.rerun = t.rerun /\ u.derailed = t.derailed /\ u.hurried = t.hurried
    BY <2>1 DEF State
  <2>6. u.el[e] = [t.el[e] EXCEPT !.queue = q, !.nap = FALSE] /\ u.naps[e] = t.naps[e] + 1
    BY <1>1, <2>5
  <2>7. \A x \in Elems : x # e => u.el[x] = t.el[x] /\ u.naps[x] = t.naps[x]
    BY <1>1, <2>5
  <2>8. u.naps[e] > 0
    BY <1>1, <2>6
  <2>. QED  BY <1>4, <2>4, <2>5, <2>6, <2>7, <2>8 DEF Requeued
<1>. QED  BY <1>1, <1>3, <1>4

LEMMA RequeuedIs ==
  ASSUME NEW t \in State, NEW u \in State, NEW e \in Elems, NEW q \in Seq(Entry),
         NEW nap \in BOOLEAN, Requeued(t, u, e, q, nap), Tailed(q), DataInv(t),
         Ord(u) => /\ nap => Und(t, e) = {}
                   /\ t.el[e].finishing => q = <<>> /\ ~nap
  PROVE  /\ Lessens(t, u) /\ Requeues(t, u, e)
         /\ u.el[e].queue = q /\ u.el[e].nap = nap /\ u.el[e].finishing = t.el[e].finishing
         /\ \A x : Und(u, x) = Und(t, x)
         /\ \A x \in Elems : x # e => SameQueue(t, u, x)
<1>1. t.el[e] \in Element
  BY DEF State
<1>2. /\ u.el[e].queue = q /\ u.el[e].nap = nap /\ u.el[e].finishing = t.el[e].finishing
      /\ u.el[e].shown = t.el[e].shown /\ u.el[e].size = t.el[e].size
      /\ u.el[e].fxshow = t.el[e].fxshow
  BY <1>1 DEF Requeued, Element
<1>3. (Ord(u) => Ord(t)) /\ (t.leaked => u.leaked) /\ u.derailed = t.derailed
  BY DEF Ord, Requeued
<1>4. \A x \in Elems : u.el[x].finishing = t.el[x].finishing
  BY <1>2 DEF Requeued
<1>5. Lessens(t, u)
  BY <1>3, <1>4 DEF Lessens, Requeued
<1>6. u.naps[e] > 0 => u.leaked
  BY DEF DataInv, NapInv, Requeued
<1>7. Requeues(t, u, e)
  BY <1>2, <1>3, <1>5, <1>6 DEF Requeues, Requeued, Tailed
<1>8. \A x : Und(u, x) = Und(t, x)
  BY DEF Und, Requeued
<1>9. \A x \in Elems : x # e => SameQueue(t, u, x)
  BY DEF SameQueue, Requeued
<1>. QED  BY <1>2, <1>5, <1>7, <1>8, <1>9

(* When the next job of a queue may be begun. *)
NoOpen(t) == \A k \in DOMAIN t.stack : ~Open(t.stack[k])
NextMay(t, e) ==
  Ord(t) =>
    /\ Und(t, e) = {}
    /\ Rest(t.el[e].queue) # <<>> =>
         ~t.el[e].finishing /\ \A k \in DOMAIN t.stack : ~Completes(t, t.stack[k], e)

LEMMA DequeueKeeps ==
  ASSUME NEW t \in State, NEW e \in Elems, NEW u, u = Dequeue(t, e),
         DataInv(t), StackInv(t), NoOpen(t), NextMay(t, e), OthersWait(t, e)
  PROVE  u \in State /\ DataInv(u) /\ StackInv(u) /\ AllWait(u) /\ NoneEnds(t, u)
<1>. DEFINE q == t.el[e].queue  r == Rest(q)  h == <<Sentinel>> \o Tail(r)
            v == [DropHooks(t, e) EXCEPT !.el[e].queue = h]
<1>1. q \in Seq(Entry)
  BY DEF State, Element
<1>2. Tailed(q)
  BY DEF DataInv, QueueInv, Tailed
<1>d. u = IF r = <<>> THEN [DropHooks(t, e) EXCEPT !.el[e].queue = <<>>] ELSE Run(v, e, r[1])
  BY DEF Dequeue, Rest
<1>o. ASSUME NEW w \in State, NEW p \in Seq(Entry), NEW nap \in BOOLEAN, Requeued(t, w, e, p, nap),
             Tailed(p), Ord(w) => /\ nap => Und(t, e) = {}
                                  /\ t.el[e].finishing => p = <<>> /\ ~nap
      PROVE  /\ DataInv(w) /\ StackInv(w) /\ OthersWait(w, e) /\ NoneEnds(t, w)
             /\ w.el[e].queue = p /\ w.el[e].nap = nap /\ w.el[e].finishing = t.el[e].finishing
             /\ \A x : Und(w, x) = Und(t, x)
             /\ w.stack = t.stack /\ (Ord(w) => Ord(t))
  <2>1. /\ Lessens(t, w) /\ Requeues(t, w, e)
        /\ w.el[e].queue = p /\ w.el[e].nap = nap /\ w.el[e].finishing = t.el[e].finishing
        /\ \A x : Und(w, x) = Und(t, x)
        /\ \A x \in Elems : x # e => SameQueue(t, w, x)
    BY <1>o, RequeuedIs
  <2>2. DataInv(w)
    BY <2>1, RequeueKeeps
  <2>3. StackInv(w)
    BY <2>1, LessensKeeps
  <2>4. OthersWait(w, e)
    BY <2>1, LessensWaits DEF OthersWait
  <2>5. NoneEnds(t, w) /\ w.stack = t.stack
    BY <1>o DEF NoneEnds, Requeued
  <2>. QED  BY <2>1, <2>2, <2>3, <2>4, <2>5 DEF Lessens
<1>3. CASE r = <<>>
  <2>1. u = [DropHooks(t, e) EXCEPT !.el[e].queue = <<>>]
    BY <1>d, <1>3
  <2>3. Tailed(<<>>) /\ <<>> \in Seq(Entry)
    BY DEF Tailed
  <2>2. u \in State /\ Requeued(t, u, e, <<>>, FALSE)
    BY <2>1, <2>3, DropIs
  <2>4. /\ DataInv(u) /\ StackInv(u) /\ OthersWait(u, e) /\ NoneEnds(t, u)
        /\ u.el[e].queue = <<>> /\ (\A x : Und(u, x) = Und(t, x)) /\ (Ord(u) => Ord(t))
    BY <1>o, <2>2, <2>3
  <2>5. Waits(u, e)
    BY <2>4 DEF Waits, Waited, Unstuck, NextMay
  <2>. QED  BY <2>2, <2>4, <2>5 DEF AllWait, OthersWait
<1>4. CASE r # <<>>
  <2>1. /\ r[1] \in Job \/ r[1] = DelayJob
        /\ h \in Seq(Entry) /\ Tailed(h) /\ h # <<>> /\ h[1] = Sentinel
    BY <1>1, <1>2, <1>4, RestIs
  <2>2. v \in State /\ Requeued(t, v, e, h, FALSE)
    BY <2>1, DropIs
  <2>f. Ord(t) => ~t.el[e].finishing
    BY <1>4 DEF NextMay
  <2>n. (Ord(v) => Ord(t)) /\ v.el[e] = [t.el[e] EXCEPT !.queue = h, !.nap = FALSE]
    BY <2>2 DEF Ord, Requeued
  <2>. HIDE DEF h, v, r
  <2>3. CASE r[1] = DelayJob
    <3>1. u = [v EXCEPT !.el[e].nap = TRUE]
      BY <1>d, <1>4, <2>3 DEF Run, DelayJob
    <3>2. v.el \in [Elems -> Element] /\ v.el[e] \in Element
      BY <2>2 DEF State
    <3>3. [v.el[e] EXCEPT !.nap = TRUE] \in Element
      BY <3>2 DEF Element
    <3>4. u = [v EXCEPT !.el = [v.el EXCEPT ![e] = [v.el[e] EXCEPT !.nap = TRUE]]]
      BY <2>2, <3>1, <3>2 DEF State
    <3>5. [v.el EXCEPT ![e] = [v.el[e] EXCEPT !.nap = TRUE]] \in [Elems -> Element]
      BY <3>2, <3>3
    <3>6. /\ u \in State
          /\ u.el = [v.el EXCEPT ![e] = [v.el[e] EXCEPT !.nap = TRUE]]
          /\ u.naps = v.naps /\ u.leaked = v.leaked
          /\ u.anims = v.anims /\ u.timers = v.timers /\ u.stack = v.stack
          /\ u.inProgress = v.inProgress
          /\ u.rerun = v.rerun /\ u.derailed = v.derailed /\ u.hurried = v.hurried
      BY <2>2, <3>4, <3>5 DEF State
    <3>7. t.el[e] \in Element
      BY DEF State
    <3>8. u.el[e] = [t.el[e] EXCEPT !.queue = h, !.nap = TRUE]
      BY <2>n, <3>2, <3>6, <3>7, ZenonT(60) DEF Element
    <3>9. \A x \in Elems : x # e => u.el[x] = v.el[x]
      BY <3>2, <3>6
    <3>10. Requeued(t, u, e, h, TRUE)
      BY <2>2, <3>6, <3>8, <3>9 DEF Requeued
    <3>11. Ord(u) => Ord(t)
      BY <3>10 DEF Ord, Requeued
    <3>12. /\ DataInv(u) /\ StackInv(u) /\ OthersWait(u, e) /\ NoneEnds(t, u)
           /\ u.el[e].nap = TRUE /\ (\A x : Und(u, x) = Und(t, x))
      BY <1>o, <2>1, <2>f, <3>6, <3>10, <3>11 DEF NextMay
    <3>13. Waits(u, e)
      BY <3>11, <3>12 DEF Waits, Waited, Unstuck, NextMay
    <3>. QED  BY <3>6, <3>12, <3>13 DEF AllWait, OthersWait
  <2>4. CASE r[1] \in Job
    <3>1. r[1].kind # "delay"
      BY <2>4, EffectsAssumption DEF Job
    <3>2. u = Begin(v, e, r[1])
      BY <1>d, <1>4, <3>1 DEF Run
    <3>3. /\ DataInv(v) /\ StackInv(v) /\ OthersWait(v, e) /\ NoneEnds(t, v)
          /\ v.el[e].queue = h /\ v.el[e].nap = FALSE /\ v.el[e].finishing = t.el[e].finishing
          /\ \A x : Und(v, x) = Und(t, x)
          /\ v.stack = t.stack
      BY <1>o, <2>1, <2>2, <2>n, <2>f
    <3>4. \A k \in DOMAIN v.stack : Completes(v, v.stack[k], e) => Completes(t, t.stack[k], e)
      BY <2>2, <3>3 DEF Completes, Requeued
    <3>5. Ord(t) => \A k \in DOMAIN t.stack : ~Finishes(t.stack[k], e)
      BY <2>f DEF StackInv, FinInv
    <3>6. Ready(v, e)
      <4>1. \A k \in DOMAIN v.stack : ~Open(v.stack[k])
        BY <3>3 DEF NoOpen
      <4>2. ASSUME Ord(v)
            PROVE  /\ Und(v, e) = {} /\ ~v.el[e].nap
                   /\ \A k \in DOMAIN v.stack : ~Completes(v, v.stack[k], e)
                   /\ \A k \in DOMAIN v.stack : ~Finishes(v.stack[k], e)
                   /\ Headed(v, e)
        <5>1. Und(t, e) = {} /\ \A k \in DOMAIN t.stack : ~Completes(t, t.stack[k], e)
          BY <1>4, <2>n, <4>2 DEF NextMay, r, q
        <5>. QED  BY <2>1, <2>n, <3>3, <3>4, <3>5, <4>2, <5>1 DEF Headed
      <4>. QED  BY <4>1, <4>2 DEF Ready
    <3>7. u \in State /\ DataInv(u) /\ StackInv(u) /\ AllWait(u) /\ NoneEnds(v, u)
      BY <2>2, <2>4, <3>2, <3>3, <3>6, BeginKeeps
    <3>8. NoneEnds(t, u)
      BY <3>3, <3>7 DEF NoneEnds
    <3>. QED  BY <3>7, <3>8
  <2>. QED  BY <2>1, <2>3, <2>4
<1>. QED  BY <1>3, <1>4

-----------------------------------------------------------------------------
(* The end of an animation. *)
Complete(i) == [at |-> "complete", i |-> i]

(* t is t0 with another stack, and animation i stopped or not. *)
Nearly(t0, t, i) ==
  /\ t.el = t0.el /\ t.naps = t0.naps /\ t.timers = t0.timers /\ SameFlags(t0, t)
  /\ t.inProgress = t0.inProgress
  /\ DOMAIN t.anims = DOMAIN t0.anims
  /\ \A j \in DOMAIN t0.anims : j # i => t.anims[j] = t0.anims[j]
  /\ \E b \in BOOLEAN : t.anims[i] = [t0.anims[i] EXCEPT !.stopped = b]

(* It ends as it was asked. *)
EndsWell(t, u, i) ==
  LET a == t.anims[i]
  IN /\ u.el[a.e].shown <=> t.el[a.e].shown /\ (a.tweens => a.hidden)
     /\ u.anims[i].kind = a.kind /\ u.anims[i].noted = a.noted

(* What is the same as w but for the stack, which is that of t. *)
Restacks(t, w, u) ==
  SameData(w, u) /\ u.stack = t.stack /\ u.inProgress = w.inProgress

Ended(t, i, state) ==
  LET a == t.anims[i]
      x == t.el[a.e]
  IN [t EXCEPT !.anims = [t.anims EXCEPT ![i] = [a EXCEPT !.state = state, !.matches = FALSE]],
               !.el = IF state = "resolved" /\ a.tweens
                      THEN [t.el EXCEPT ![a.e] = [x EXCEPT !.shown = x.shown /\ a.hidden,
                                                           !.fxshow = <<>>, !.size = a.orig]]
                      ELSE t.el]

LEMMA EndedIs ==
  ASSUME NEW t0 \in State, NEW t \in State, NEW i \in DOMAIN t0.anims, Nearly(t0, t, i),
         t0.anims[i].state = "pending", NEW state \in {"resolved", "rejected"},
         NEW v, v = Ended(t, i, state)
  PROVE  v \in State /\ \E w \in State : /\ Ends(t0, w, i) /\ Restacks(t, w, v)
                                         /\ state = "resolved" => EndsWell(t0, w, i)
                                         /\ w.anims[i].state = state
<1>. DEFINE a == t.anims[i]  e == a.e  x == t.el[e]
            y == [x EXCEPT !.shown = x.shown /\ a.hidden, !.fxshow = <<>>, !.size = a.orig]
            el == IF state = "resolved" /\ a.tweens THEN [t.el EXCEPT ![e] = y] ELSE t.el
            b == [a EXCEPT !.state = state, !.matches = FALSE]
            anims == [t.anims EXCEPT ![i] = b]
            w == [v EXCEPT !.stack = t0.stack]
<1>1. /\ i \in DOMAIN t.anims /\ t.anims \in Seq(Animation) /\ a \in Animation
      /\ t0.anims[i] \in Animation
  BY DEF Nearly, State
<1>2. /\ a.e = t0.anims[i].e /\ a.tweens = t0.anims[i].tweens /\ a.hidden = t0.anims[i].hidden
      /\ a.orig = t0.anims[i].orig /\ a.state = "pending"
  BY <1>1 DEF Nearly, Animation
<1>3. e \in Elems /\ x \in Element /\ a.orig \in Sizes /\ a.hidden \in BOOLEAN /\ a.tweens \in BOOLEAN
      /\ t.el \in [Elems -> Element] /\ x.shown \in BOOLEAN
  BY <1>1 DEF State, Animation, Element
<1>4. /\ b \in Animation /\ b.state = state /\ b.matches = FALSE /\ b.e = e
      /\ b.kind = t0.anims[i].kind /\ b.noted = t0.anims[i].noted
  BY <1>1 DEF Nearly, Animation
<1>5. anims \in Seq(Animation) /\ DOMAIN anims = DOMAIN t.anims /\ anims[i] = b
      /\ \A j \in DOMAIN t.anims : j # i => anims[j] = t.anims[j]
  <2>1. \A j \in 1..Len(t.anims) : anims[j] \in Animation
    BY <1>1, <1>4
  <2>. QED  BY <1>1, <1>4, <2>1
<1>6. y \in Element /\ y.queue = x.queue /\ y.nap = x.nap /\ y.finishing = x.finishing
      /\ y.fxshow = <<>> /\ y.size = a.orig /\ y.shown = (x.shown /\ a.hidden)
  BY <1>3 DEF Element
<1>. HIDE DEF y, b
<1>7. el \in [Elems -> Element] /\ (\A z \in Elems : z # e => el[z] = t.el[z])
      /\ el[e] = IF state = "resolved" /\ a.tweens THEN y ELSE x
  BY <1>3, <1>6
<1>8. v = [t EXCEPT !.anims = anims, !.el = el]
  BY DEF Ended, b, y
<1>. HIDE DEF anims, el
<1>9. /\ v \in State /\ v.anims = anims /\ v.el = el /\ v.stack = t.stack
      /\ v.naps = t.naps /\ v.timers = t.timers /\ SameFlags(t, v) /\ v.inProgress = t.inProgress
  BY <1>5, <1>7, <1>8 DEF State, SameFlags
<1>. HIDE DEF a
<1>10. t0.stack \in Seq(Frames)
  BY DEF State
<1>11. /\ w \in State /\ SameData(v, w) /\ w.stack = t0.stack /\ w.inProgress = v.inProgress
  BY <1>9, <1>10, Restacked
<1>. HIDE DEF w
<1>12. /\ w.anims = anims /\ w.el = el /\ w.naps = t0.naps /\ w.timers = t0.timers
       /\ w.leaked = t0.leaked /\ w.rerun = t0.rerun /\ w.derailed = t0.derailed
       /\ w.hurried = t0.hurried /\ w.inProgress = t0.inProgress
  BY <1>9, <1>11 DEF SameData, SameFlags, Nearly
<1>n. t.el = t0.el /\ DOMAIN t.anims = DOMAIN t0.anims
      /\ \A j \in DOMAIN t0.anims : j # i => t.anims[j] = t0.anims[j]
  BY DEF Nearly
<1>13. Restacks(t, w, v)
  BY <1>9, <1>11 DEF Restacks, SameData, SameFlags
<1>14. SameFlags(t0, w)
  BY <1>12 DEF SameFlags
<1>15. /\ w.anims[i].state = state /\ ~w.anims[i].matches /\ w.anims[i].e = t0.anims[i].e
       /\ \A j \in DOMAIN t0.anims : j # i => w.anims[j] = t0.anims[j]
       /\ DOMAIN w.anims = DOMAIN t0.anims
  BY <1>2, <1>4, <1>5, <1>12, <1>n DEF a
<1>16. \A z \in Elems : /\ w.el[z].queue = t0.el[z].queue /\ w.el[z].nap = t0.el[z].nap
                        /\ w.el[z].finishing = t0.el[z].finishing
                        /\ z # e => w.el[z] = t0.el[z]
  BY <1>6, <1>7, <1>12, <1>n
<1>k. w.anims[i].kind = t0.anims[i].kind /\ w.anims[i].noted = t0.anims[i].noted
  BY <1>4, <1>5, <1>12
<1>17. Lessens(t0, w)
  <2>1. \A j \in DOMAIN t0.anims : w.anims[j].e = t0.anims[j].e
    BY <1>15
  <2>2. \A j \in DOMAIN t0.anims : w.anims[j].state = "pending" => t0.anims[j].state = "pending"
    BY <1>15
  <2>3. Ord(w) => Ord(t0)
    BY <1>12 DEF Ord
  <2>. QED  BY <1>11, <1>12, <1>15, <1>16, <2>1, <2>2, <2>3 DEF Lessens
<1>18. Ends(t0, w, i)
  <2>1. state # "pending"
    OBVIOUS
  <2>2. \/ w.el[t0.anims[i].e] = t0.el[t0.anims[i].e]
        \/ /\ t0.anims[i].tweens
           /\ w.el[t0.anims[i].e].fxshow = <<>>
           /\ w.el[t0.anims[i].e].size = t0.anims[i].orig
    BY <1>2, <1>6, <1>7, <1>12, <1>n DEF a
  <2>3. t0.anims[i].e = e /\ e \in Elems
    BY <1>2, <1>3 DEF a
  <2>. QED  BY <1>12, <1>14, <1>15, <1>16, <1>17, <2>1, <2>2, <2>3 DEF Ends
<1>19. state = "resolved" => EndsWell(t0, w, i)
  <2>. SUFFICES ASSUME state = "resolved"
       PROVE  w.el[e].shown <=> x.shown /\ (a.tweens => a.hidden)
    BY <1>2, <1>k, <1>n DEF EndsWell, a
  <2>1. CASE a.tweens
    BY <1>3, <1>6, <1>7, <1>12, <2>1 DEF a
  <2>2. CASE ~a.tweens
    BY <1>7, <1>12, <2>2
  <2>. QED  BY <2>1, <2>2
<1>. QED  BY <1>9, <1>11, <1>13, <1>15, <1>18, <1>19

LEMMA ResolveIs ==
  ASSUME NEW t \in State, NEW i \in DOMAIN t.anims, t.anims[i].state = "pending"
  PROVE  Resolve(RunTweens(t, i, "end"), i) = Push(Ended(t, i, "resolved"), Complete(i))
<1>. DEFINE a == t.anims[i]  e == a.e  x == t.el[e]
            y == [x EXCEPT !.shown = x.shown /\ a.hidden, !.fxshow = <<>>, !.size = a.orig]
            b == [a EXCEPT !.state = "resolved", !.matches = FALSE]
            anims == [t.anims EXCEPT ![i] = b]
            r == RunTweens(t, i, "end")
<1>1. /\ t.anims \in Seq(Animation) /\ a \in Animation
  BY DEF State
<1>2. e \in Elems /\ x \in Element /\ a.orig \in Sizes /\ a.hidden \in BOOLEAN /\ a.tweens \in BOOLEAN
      /\ t.el \in [Elems -> Element] /\ x.shown \in BOOLEAN /\ a.to \in Sizes
  BY <1>1 DEF State, Animation, Element
<1>3. CASE ~a.tweens
  <2>1. r = t
    BY <1>3 DEF RunTweens
  <2>2. Resolve(r, i) = Push([t EXCEPT !.anims[i].state = "resolved", !.anims[i].matches = FALSE], Complete(i))
    BY <1>3, <2>1 DEF Resolve, Complete
  <2>3. [t EXCEPT !.anims[i].state = "resolved", !.anims[i].matches = FALSE] = [t EXCEPT !.anims = anims]
    BY <1>1 DEF State
  <2>4. Ended(t, i, "resolved") = [t EXCEPT !.anims = anims, !.el = t.el]
    BY <1>3 DEF Ended
  <2>5. [t EXCEPT !.anims = anims, !.el = t.el] = [t EXCEPT !.anims = anims]
    BY DEF State
  <2>. QED  BY <2>2, <2>3, <2>4, <2>5
<1>4. CASE a.tweens
  <2>1. Tweened(a, "end") = a.to
    BY DEF Tweened
  <2>2. r = [t EXCEPT !.el[e].size = a.to, !.rerun = @ \/ a.state # "pending"]
    BY <1>4, <2>1 DEF RunTweens
  <2>3. t.rerun \in BOOLEAN
    BY DEF State
  <2>4. r = [t EXCEPT !.el = [t.el EXCEPT ![e] = [x EXCEPT !.size = a.to]]]
    BY <1>2, <2>2, <2>3 DEF State
  <2>5. /\ r.anims = t.anims /\ r.el = [t.el EXCEPT ![e] = [x EXCEPT !.size = a.to]]
        /\ r.el[e] = [x EXCEPT !.size = a.to]
    BY <1>2, <2>4 DEF State
  <2>. DEFINE z == [x EXCEPT !.size = a.to]
              y2 == [z EXCEPT !.shown = z.shown /\ a.hidden, !.fxshow = <<>>, !.size = a.orig]
  <2>6. Resolve(r, i) = Push([[r EXCEPT !.anims[i].state = "resolved", !.anims[i].matches = FALSE]
                              EXCEPT !.el[e] = y2], Complete(i))
    BY <1>4, <2>5, SMTT(30), ZenonT(60) DEF Resolve, Complete
  <2>7. [r EXCEPT !.anims[i].state = "resolved", !.anims[i].matches = FALSE]
          = [t EXCEPT !.anims = anims, !.el = [t.el EXCEPT ![e] = z]]
    BY <1>1, <2>4, <2>5, ZenonT(60) DEF State
  <2>. DEFINE v == [t EXCEPT !.anims = anims, !.el = [t.el EXCEPT ![e] = z]]
  <2>8. [v EXCEPT !.el[e] = y2] = [t EXCEPT !.anims = anims, !.el = [t.el EXCEPT ![e] = y2]]
    <3>. HIDE DEF y2, z, anims
    <3>1. v.el = [t.el EXCEPT ![e] = z]
      BY DEF State
    <3>2. [v.el EXCEPT ![e] = y2] = [t.el EXCEPT ![e] = y2]
      BY <1>2, <3>1
    <3>3. [v EXCEPT !.el[e] = y2] = [v EXCEPT !.el = [v.el EXCEPT ![e] = y2]]
      OBVIOUS
    <3>. QED  BY <3>2, <3>3 DEF State
  <2>9. y2 = y
    BY <1>2 DEF Element
  <2>10. Ended(t, i, "resolved") = [t EXCEPT !.anims = anims, !.el = [t.el EXCEPT ![e] = y]]
    BY <1>4 DEF Ended
  <2>. QED  BY <2>6, <2>7, <2>8, <2>9, <2>10
<1>. QED  BY <1>3, <1>4

-----------------------------------------------------------------------------
(* Steps that end nothing. *)
Well(t, u) ==
  Ord(u) =>
    \A i \in DOMAIN t.anims :
      t.anims[i].state = "pending" /\ u.anims[i].state = "resolved" /\ ~u.anims[i].noted =>
        /\ u.anims[i].kind = "show" => u.el[u.anims[i].e].shown
        /\ u.anims[i].kind = "hide" => ~u.el[u.anims[i].e].shown

LEMMA NoneEndsWell ==
  ASSUME NEW t, NEW u, NoneEnds(t, u)
  PROVE  Well(t, u)
BY DEF NoneEnds, Well

LEMMA PassInv ==
  ASSUME NEW t \in State, NEW u \in State, Passes(t, u), Inv(t)
  PROVE  Inv(u) /\ NoneEnds(t, u)
<1>1. Lessens(t, u) /\ DataInv(t) /\ StackInv(t)
  BY DEF Passes, Inv, JInv
<1>2. DataInv(u)
  BY <1>1, PassKeeps
<1>3. StackInv(u)
  BY <1>1, LessensKeeps
<1>4. NoneEnds(t, u)
  BY <1>1 DEF Passes, Lessens, NoneEnds
<1>5. \A x : Und(u, x) = Und(t, x)
  BY <1>1 DEF Passes, Lessens, Und
<1>6. ASSUME NEW x \in Elems  PROVE  Waits(u, x)
  <2>1. Waits(t, x)
    BY DEF Inv
  <2>2. SameQueue(t, u, x)
    BY DEF Passes, SameQueue
  <2>. QED  BY <1>1, <1>5, <2>1, <2>2, LessensWaits
<1>. QED  BY <1>2, <1>3, <1>4, <1>6 DEF Inv, JInv

LEMMA CutInv ==
  ASSUME NEW t \in State, NEW u \in State, NEW p, Cuts(t, u, p), Inv(t)
  PROVE  Inv(u) /\ NoneEnds(t, u)
<1>1. Lessens(t, u) /\ DataInv(t) /\ StackInv(t)
  BY DEF Cuts, Inv, JInv
<1>2. DataInv(u)
  BY <1>1, CutKeeps
<1>3. StackInv(u)
  BY <1>1, LessensKeeps
<1>4. NoneEnds(t, u)
  BY DEF Cuts, NoneEnds
<1>5. \A x : Und(u, x) = Und(t, x)
  BY DEF Cuts, Und
<1>6. ASSUME NEW x \in Elems  PROVE  Waits(u, x)
  <2>1. Waits(t, x)
    BY DEF Inv
  <2>2. SameQueue(t, u, x)
    BY DEF Cuts, SameQueue
  <2>. QED  BY <1>1, <1>5, <2>1, <2>2, LessensWaits
<1>. QED  BY <1>2, <1>3, <1>4, <1>6 DEF Inv, JInv

LEMMA PushInv ==
  ASSUME NEW t \in State, NEW f \in Frames, Inv(t), Enters(t, f), IsTick(f) => t.inProgress
  PROVE  Inv(Push(t, f)) /\ NoneEnds(t, Push(t, f))
<1>. DEFINE u == Push(t, f)
<1>1. /\ u \in State /\ SameData(t, u) /\ Pushed(t, u, f) /\ u.inProgress = t.inProgress
      /\ DataInv(t) /\ StackInv(t)
  BY PushIs DEF Inv, JInv
<1>. HIDE DEF u
<1>2. DataInv(u)
  BY <1>1, SameDataKept
<1>3. StackInv(u)
  BY <1>1, PushKeeps
<1>4. NoneEnds(t, u)
  BY <1>1 DEF NoneEnds, SameData
<1>5. ASSUME NEW x \in Elems  PROVE  Waits(u, x)
  <2>1. Waits(t, x)
    BY DEF Inv
  <2>. QED  BY <1>1, <2>1, PushWaits
<1>. QED  BY <1>1, <1>2, <1>3, <1>4, <1>5 DEF Inv, JInv, u

LEMMA SwapInv ==
  ASSUME NEW t \in State, t.stack # <<>>, NEW f, f = t.stack[Len(t.stack)],
         NEW g \in Frames, Inv(t), Follows(t, f, g),
         \A x \in Elems : Holds(f, x) => Holds(g, x),
         \A x \in Elems : Wakes(t, f, x) => Wakes(t, g, x)
  PROVE  Inv(Swap(t, g)) /\ NoneEnds(t, Swap(t, g))
<1>. DEFINE u == Swap(t, g)
<1>1. /\ u \in State /\ SameData(t, u) /\ Swapped(t, u, g) /\ u.inProgress = t.inProgress
      /\ DataInv(t) /\ StackInv(t)
  BY SwapIs DEF Inv, JInv
<1>. HIDE DEF u
<1>2. DataInv(u)
  BY <1>1, SameDataKept
<1>3. StackInv(u)
  BY <1>1, SwapKeeps
<1>4. NoneEnds(t, u)
  BY <1>1 DEF NoneEnds, SameData
<1>5. ASSUME NEW x \in Elems  PROVE  Waits(u, x)
  <2>1. Waits(t, x)
    BY DEF Inv
  <2>. QED  BY <1>1, <2>1, SwapWaits
<1>. QED  BY <1>1, <1>2, <1>3, <1>4, <1>5 DEF Inv, JInv, u

LEMMA TopIs ==
  ASSUME NEW t \in State, t.stack # <<>>, NEW f, f = t.stack[Len(t.stack)]
  PROVE  /\ f \in Frames /\ Len(t.stack) \in DOMAIN t.stack
         /\ f.at = "tick" => f \in TickFrame
         /\ f.at = "ticked" => f \in TickedFrame
         /\ f.at \in {"stop", "stopped"} => f \in StopFrame
         /\ f.at = "finish" => f \in FinishFrame
         /\ f.at \in {"halt", "complete"} => f \in OtherFrame
<1>1. f \in Frames /\ Len(t.stack) \in DOMAIN t.stack
  BY StackTypes
<1>. QED  BY <1>1 DEF Frames, TickFrame, TickedFrame, StopFrame, FinishFrame, OtherFrame

LEMMA SuffixIs ==
  ASSUME NEW t \in Seq(Nat), NEW p \in 1..Len(t)
  PROVE  /\ SubSeq(t, p + 1, Len(t)) \in Seq(Nat)
         /\ Len(SubSeq(t, p + 1, Len(t))) = Len(t) - p
         /\ \A q \in 1..(Len(t) - p) : SubSeq(t, p + 1, Len(t))[q] = t[p + q]
<1>1. p + 1 \in Int /\ Len(t) \in Int /\ \A j \in (p + 1)..Len(t) : t[j] \in Nat
  OBVIOUS
<1>2. PICK m \in Int : m = p + 1
  BY <1>1
<1>. DEFINE n == Len(t)
<1>3. n \in Int /\ \A j \in m..n : t[j] \in Nat
  BY <1>1, <1>2
<1>. HIDE DEF n
<1>4. /\ SubSeq(t, m, n) \in Seq(Nat)
      /\ Len(SubSeq(t, m, n)) = (IF m <= n THEN n - m + 1 ELSE 0)
      /\ \A q \in 1..(n - m + 1) : SubSeq(t, m, n)[q] = t[m+q-1]
  BY <1>3, SubSeqProperties
<1>5. n \in Nat /\ p \in 1..n
  BY DEF n
<1>6. \A q \in 1..(n - p) : SubSeq(t, m, n)[q] = t[p+q]
  BY <1>2, <1>4, <1>5
<1>7. Len(SubSeq(t, m, n)) = n - p
  BY <1>2, <1>4, <1>5
<1>. QED  BY <1>2, <1>4, <1>6, <1>7 DEF n
LEMMA CutIs ==
  ASSUME NEW t \in State, NEW p \in DOMAIN t.timers, NEW u,
         u = [t EXCEPT !.timers = Cut(@, p)]
  PROVE  /\ u \in State /\ u.stack = t.stack /\ u.inProgress = t.inProgress
         /\ u.el = t.el /\ u.anims = t.anims /\ u.naps = t.naps /\ SameFlags(t, u)
         /\ Len(u.timers) = Len(t.timers) - 1
         /\ \A q \in 1..(Len(t.timers) - 1) :
              u.timers[q] = IF q < p THEN t.timers[q] ELSE t.timers[q + 1]
<1>. DEFINE r == t.timers  n == Len(r)  c == Cut(r, p)
            c1 == SubSeq(r, 1, p - 1)  c2 == SubSeq(r, p + 1, n)
<1>1. r \in Seq(Nat) /\ n \in Nat /\ p \in 1..n
  BY DEF State
<1>2. c1 \in Seq(Nat) /\ Len(c1) = p - 1 /\ \A q \in 1..(p - 1) : c1[q] = r[q]
  BY <1>1, SMTT(60)
<1>. HIDE DEF r
<1>3. c2 \in Seq(Nat) /\ Len(c2) = n - p /\ \A q \in 1..(n - p) : c2[q] = r[p + q]
  BY <1>1, SuffixIs
<1>4. c = c1 \o c2 /\ u = [t EXCEPT !.timers = c]
  BY DEF Cut, r
<1>. HIDE DEF c, c1, c2, n
<1>5. /\ c1 \o c2 \in Seq(Nat) /\ Len(c1 \o c2) = Len(c1) + Len(c2)
      /\ \A q \in 1..(Len(c1) + Len(c2)) :
           (c1 \o c2)[q] = IF q <= Len(c1) THEN c1[q] ELSE c2[q - Len(c1)]
  BY <1>2, <1>3, ConcatProperties
<1>6. c \in Seq(Nat) /\ Len(c) = n - 1
  BY <1>1, <1>2, <1>3, <1>4, <1>5
<1>7. ASSUME NEW q \in 1..(n - 1)  PROVE  c[q] = IF q < p THEN r[q] ELSE r[q + 1]
  <2>1. c[q] = IF q <= p - 1 THEN c1[q] ELSE c2[q - (p - 1)]
    BY <1>1, <1>2, <1>3, <1>4, <1>5, SMTT(30), ZenonT(60)
  <2>2. CASE q < p
    BY <1>1, <1>2, <2>1, <2>2
  <2>3. CASE ~(q < p)
    <3>1. q - (p - 1) \in 1..(n - p) /\ ~(q <= p - 1) /\ p + (q - (p - 1)) = q + 1
      BY <1>1, <2>3
    <3>2. c2[q - (p - 1)] = r[p + (q - (p - 1))]
      BY <1>3, <3>1
    <3>. QED  BY <2>1, <2>3, <3>1, <3>2
  <2>. QED  BY <2>2, <2>3
<1>. QED  BY <1>4, <1>6, <1>7 DEF State, SameFlags, r, n

LEMMA RunTweensIs ==
  ASSUME NEW t \in State, DataInv(t), NEW i \in DOMAIN t.anims, NEW part \in {"begin", "on", "end"},
         NEW u, u = RunTweens(t, i, part)
  PROVE  u \in State /\ Passes(t, u) /\ u.anims = t.anims /\ u.stack = t.stack
<1>. DEFINE a == t.anims[i]  e == a.e  x == t.el[e]  z == Tweened(a, part)
            y == [x EXCEPT !.size = z]  el == [t.el EXCEPT ![e] = y]
<1>1. /\ t.anims \in Seq(Animation) /\ a \in Animation
  BY DEF State
<1>2. /\ e \in Elems /\ x \in Element /\ a.tweens \in BOOLEAN /\ t.el \in [Elems -> Element]
      /\ a.to \in Sizes /\ a.from \in Sizes /\ t.rerun \in BOOLEAN
  BY <1>1 DEF State, Animation
<1>3. z \in Sizes
  BY <1>2 DEF Tweened, Sizes
<1>4. CASE ~a.tweens
  <2>1. u = t
    BY <1>4 DEF RunTweens
  <2>. QED  BY <2>1 DEF Passes, Lessens
<1>5. CASE a.tweens
  <2>1. u = [t EXCEPT !.el[e].size = z, !.rerun = @ \/ a.state # "pending"]
    BY <1>5 DEF RunTweens
  <2>2. PICK b \in BOOLEAN : b = (t.rerun \/ a.state # "pending")
    OBVIOUS
  <2>. HIDE DEF z
  <2>3. u = [t EXCEPT !.el = el, !.rerun = b]
    BY <1>2, <2>1, <2>2 DEF State
  <2>4. /\ y \in Element /\ y.size = z /\ y.queue = x.queue /\ y.nap = x.nap
        /\ y.finishing = x.finishing /\ y.shown = x.shown /\ y.fxshow = x.fxshow
    BY <1>2, <1>3 DEF Element
  <2>. HIDE DEF y
  <2>5. el \in [Elems -> Element] /\ el[e] = y /\ \A w \in Elems : w # e => el[w] = t.el[w]
    BY <1>2, <2>4
  <2>. HIDE DEF el
  <2>6. /\ u \in State /\ u.el = el /\ u.rerun = b /\ u.naps = t.naps /\ u.anims = t.anims
        /\ u.timers = t.timers /\ u.inProgress = t.inProgress /\ u.stack = t.stack
        /\ u.leaked = t.leaked /\ u.derailed = t.derailed /\ u.hurried = t.hurried
    BY <2>3, <2>5 DEF State
  <2>7. \A w \in Elems : /\ u.el[w].queue = t.el[w].queue /\ u.el[w].nap = t.el[w].nap
                         /\ u.el[w].finishing = t.el[w].finishing
                         /\ u.el[w].shown = t.el[w].shown /\ u.el[w].fxshow = t.el[w].fxshow
                         /\ w # e => u.el[w] = t.el[w]
    BY <2>4, <2>5, <2>6
  <2>8. Ord(u) <=> Ord(t)
    BY <2>6 DEF Ord
  <2>9. Lessens(t, u)
    BY <2>6, <2>7, <2>8 DEF Lessens
  <2>10. Ord(u) /\ ~u.rerun => u.el[e].fxshow # <<>>
    <3>. SUFFICES ASSUME Ord(u), ~u.rerun  PROVE t.el[e].fxshow # <<>>
      BY <1>2, <2>7
    <3>1. ~t.rerun /\ a.state = "pending"
      BY <2>2, <2>6
    <3>. QED  BY <1>5, <2>8, <3>1 DEF DataInv, SizeInv
  <2>. QED  BY <1>2, <2>2, <2>6, <2>7, <2>9, <2>10 DEF Passes
<1>. QED  BY <1>2, <1>4, <1>5

-----------------------------------------------------------------------------
(* The actions. *)
Keeps == Inv(s') /\ Well(s, s')

LEMMA FrameAction ==
  ASSUME Inv(s), Frame
  PROVE  Keeps
<1>1. s \in State /\ DataInv(s)
  BY DEF Inv, JInv
<1>2. /\ s.stack = <<>> /\ s.frames \in Nat /\ s.frames > 0
      /\ s.anims \in Seq(Animation) /\ Len(s.anims) \in Nat /\ DOMAIN s.anims = 1..Len(s.anims)
  BY <1>1 DEF Frame, State
<1>3. CASE s.inProgress
  <2>. DEFINE q == [i \in DOMAIN s.anims |-> Later(s.anims[i])]
              v == [s EXCEPT !.anims = q]
  <2>1. s' = Push(v, Tick)
    BY <1>3 DEF Frame, Tick
  <2>2. ASSUME NEW i \in DOMAIN s.anims
        PROVE  /\ q[i] \in Animation
               /\ q[i] = [s.anims[i] EXCEPT !.left = q[i].left]
    <3>1. s.anims[i] \in Animation
      BY <1>2
    <3>2. q[i] = Later(s.anims[i])
      OBVIOUS
    <3>. QED  BY <3>1, <3>2, SMTT(30), ZenonT(60) DEF Later, Animation
  <2>3. q \in Seq(Animation) /\ DOMAIN q = DOMAIN s.anims
    <3>1. q \in [1..Len(s.anims) -> Animation]
      BY <1>2, <2>2
    <3>. QED  BY <1>2, <3>1
  <2>4. ASSUME NEW i \in DOMAIN s.anims
        PROVE  /\ q[i].e = s.anims[i].e /\ q[i].state = s.anims[i].state
               /\ q[i].matches = s.anims[i].matches /\ q[i].kind = s.anims[i].kind
               /\ q[i].noted = s.anims[i].noted /\ q[i].tweens = s.anims[i].tweens
               /\ q[i].hidden = s.anims[i].hidden /\ q[i].orig = s.anims[i].orig
               /\ q[i].stopped = s.anims[i].stopped
    <3>1. s.anims[i] \in Animation
      BY <1>2
    <3>2. PICK l : q[i] = [s.anims[i] EXCEPT !.left = l]
      BY <2>2
    <3>. HIDE DEF q
    <3>. QED  BY <3>1, <3>2 DEF Animation
  <2>. HIDE DEF q
  <2>5. /\ v \in State /\ v.anims = q /\ v.el = s.el /\ v.naps = s.naps /\ v.timers = s.timers
        /\ v.stack = <<>> /\ v.inProgress = s.inProgress /\ v.stack = s.stack
        /\ v.leaked = s.leaked /\ v.rerun = s.rerun /\ v.derailed = s.derailed
        /\ v.hurried = s.hurried
    BY <1>1, <1>2, <2>3 DEF State
  <2>. HIDE DEF v
  <2>6. Lessens(s, v)
    BY <2>3, <2>4, <2>5 DEF Lessens, Ord
  <2>7. Passes(s, v)
    BY <2>4, <2>5, <2>6 DEF Passes
  <2>8. Inv(v) /\ NoneEnds(s, v)
    BY <1>1, <2>5, <2>7, PassInv
  <2>9. Enters(v, Tick)
    BY <2>5, TickEnters
  <2>10. Tick \in Frames /\ v.inProgress
    BY <1>3, <2>5 DEF Tick, Frames, TickFrame
  <2>11. Inv(s') /\ NoneEnds(v, s')
    BY <2>1, <2>5, <2>8, <2>9, <2>10, PushInv
  <2>12. NoneEnds(s, s')
    BY <2>3, <2>5, <2>8, <2>11 DEF NoneEnds
  <2>. QED  BY <2>11, <2>12, NoneEndsWell DEF Keeps
<1>4. CASE ~s.inProgress
  <2>1. s' = [s EXCEPT !.frames = s.frames - 1]
    BY <1>4 DEF Frame
  <2>2. s.frames - 1 \in Nat
    BY <1>2
  <2>3. /\ s' \in State /\ s'.anims = s.anims /\ s'.el = s.el /\ s'.naps = s.naps
        /\ s'.timers = s.timers /\ s'.inProgress = s.inProgress /\ s'.stack = s.stack
        /\ s'.leaked = s.leaked /\ s'.rerun = s.rerun /\ s'.derailed = s.derailed
        /\ s'.hurried = s.hurried
    BY <1>1, <2>1, <2>2 DEF State
  <2>4. Passes(s, s')
    BY <2>3 DEF Passes, Lessens, Ord
  <2>. QED  BY <1>1, <2>3, <2>4, PassInv, NoneEndsWell DEF Keeps
<1>. QED  BY <1>3, <1>4

LEMMA TickEndAction ==
  ASSUME Inv(s), TickEnd
  PROVE  Keeps
<1>. DEFINE f == s.stack[Len(s.stack)]  p == Pop(s)
<1>1. s \in State /\ DataInv(s) /\ StackInv(s) /\ s.stack # <<>> /\ f.at = "tick"
  BY DEF Inv, JInv, TickEnd, At, Top
<1>2. p \in State /\ SameData(s, p) /\ Popped(s, p) /\ p.inProgress = s.inProgress
  BY <1>1, PopIs
<1>. HIDE DEF p
<1>3. PICK b \in BOOLEAN : b = (p.inProgress /\ s.timers # <<>>)
  OBVIOUS
<1>4. s' = [p EXCEPT !.inProgress = b]
  BY <1>2, <1>3 DEF TickEnd, p, State
<1>5. s' \in State /\ SameData(s, s') /\ Popped(s, s')
  BY <1>2, <1>4 DEF State, SameData, SameFlags, Popped, SameBelow
<1>6. IsTick(f) /\ \A x : ~Finishes(f, x) /\ ~Wakes(s, f, x) /\ ~Holds(f, x)
  BY <1>1 DEF IsTick, IsStop, Finishes, Wakes, Holds, Completes
<1>7. DataInv(s')
  BY <1>1, <1>5, SameDataKept
<1>8. StackInv(s')
  BY <1>1, <1>5, <1>6, PopKeeps
<1>9. ASSUME NEW x \in Elems  PROVE  Waits(s', x)
  BY <1>1, <1>5, <1>6, PopWaits DEF Inv
<1>10. NoneEnds(s, s')
  BY <1>5 DEF NoneEnds, SameData
<1>. QED  BY <1>5, <1>7, <1>8, <1>9, <1>10, NoneEndsWell DEF Keeps, Inv, JInv

LEMMA TickBackAction ==
  ASSUME Inv(s), TickBack
  PROVE  Keeps
<1>. DEFINE f == s.stack[Len(s.stack)]
            there == f.i \in DOMAIN s.timers /\ s.timers[f.i] = f.timer
            v == Removed(s, f.i, f.timer)
            g == [at |-> "tick", i |-> IF there THEN f.i ELSE f.i + 1]
<1>1. s \in State /\ DataInv(s) /\ StackInv(s) /\ s.stack # <<>> /\ f.at = "ticked"
  BY DEF Inv, JInv, TickBack, At, Top
<1>2. s' = Swap(v, g)
  BY DEF TickBack, Top
<1>3. f \in TickedFrame /\ Len(s.stack) \in DOMAIN s.stack
  BY <1>1, TopIs
<1>4. f.i \in Nat \ {0} /\ f.timer \in Nat
  BY <1>3 DEF TickedFrame
<1>5. f.timer \in DOMAIN s.anims /\ s.anims[f.timer].state # "pending"
  BY <1>1, <1>3 DEF StackInv, FrameInv, FrameFits
<1>6. g \in TickFrame /\ g.at = "tick" /\ g \in Frames
  BY <1>4 DEF TickFrame, Frames
<1>. HIDE DEF g
<1>7. v \in State /\ Inv(v) /\ NoneEnds(s, v) /\ v.stack = s.stack
  <2>1. CASE there
    <3>1. v = [s EXCEPT !.timers = Cut(@, f.i)]
      BY <2>1 DEF Removed
    <3>2. /\ v \in State /\ v.stack = s.stack /\ v.inProgress = s.inProgress
          /\ v.el = s.el /\ v.anims = s.anims /\ v.naps = s.naps /\ SameFlags(s, v)
          /\ Len(v.timers) = Len(s.timers) - 1
          /\ \A q \in 1..(Len(s.timers) - 1) :
               v.timers[q] = IF q < f.i THEN s.timers[q] ELSE s.timers[q + 1]
      <4>1. f.i \in DOMAIN s.timers
        BY <2>1
      <4>2. s \in State
        BY <1>1
      <4>. HIDE DEF v, f
      <4>. QED  BY <3>1, <4>1, <4>2, CutIs, ZenonT(60)
    <3>. HIDE DEF v
    <3>3. \A k \in DOMAIN s.stack : s.stack[k].at # "stop"
      BY <1>1 DEF StackInv, FrameInv, Open
    <3>4. Lessens(s, v)
      BY <3>2, <3>3 DEF Lessens, Ord, SameFlags
    <3>5. Cuts(s, v, f.i)
      BY <1>5, <2>1, <3>2, <3>4 DEF Cuts, SameFlags
    <3>. QED  BY <1>1, <3>2, <3>5, CutInv
  <2>2. CASE ~there
    <3>1. v = s
      BY <2>2 DEF Removed
    <3>. QED  BY <1>1, <3>1 DEF NoneEnds
  <2>. QED  BY <2>1, <2>2
<1>. HIDE DEF v
<1>8. Follows(v, f, g)
  BY <1>1, <1>6 DEF Follows, FrameFits, StopFits, IsTick, IsStop, Finishes
<1>9. \A x \in Elems : ~Holds(f, x) /\ ~Wakes(v, f, x)
  BY <1>1 DEF Holds, Wakes, Finishes, Completes, IsStop
<1>10. Inv(s') /\ NoneEnds(v, s')
  BY <1>1, <1>2, <1>6, <1>7, <1>8, <1>9, SwapInv
<1>11. NoneEnds(s, s')
  BY <1>7, <1>10 DEF NoneEnds
<1>. QED  BY <1>10, <1>11, NoneEndsWell DEF Keeps

(* What is lost when a loop or a callback comes off its rails. *)
Derails(t, u) ==
  /\ u.el = t.el /\ u.naps = t.naps /\ u.anims = t.anims /\ u.timers = t.timers
  /\ u.stack = t.stack /\ u.inProgress = t.inProgress
  /\ u.derailed /\ u.leaked = t.leaked

LEMMA DerailedInv ==
  ASSUME NEW t \in State, Inv(t), NEW u \in State, Derails(t, u)
  PROVE  Inv(u) /\ NoneEnds(t, u)
<1>1. ~Ord(u)
  BY DEF Ord, Derails
<1>2. DataInv(t) /\ StackInv(t)
  BY DEF Inv, JInv
<1>3. DataInv(u)
  BY <1>1, <1>2 DEF DataInv, AnimInv, TimerInv, QueueInv, NapInv, Derails
<1>4. Lessens(t, u)
  BY <1>1 DEF Lessens, Derails
<1>5. StackInv(u)
  BY <1>2, <1>4, LessensKeeps DEF Derails
<1>6. \A x \in Elems : Waits(u, x)
  BY <1>1 DEF Waits, Derails
<1>. QED  BY <1>3, <1>5, <1>6 DEF Inv, JInv, NoneEnds, Derails

LEMMA EmptiedInv ==
  ASSUME NEW t \in State, Inv(t), t.derailed, NEW u, u = [t EXCEPT !.stack = <<>>]
  PROVE  Inv(u) /\ NoneEnds(t, u)
<1>1. DataInv(t) /\ StackInv(t)
  BY DEF Inv, JInv
<1>2. <<>> \in Seq(Frames)
  OBVIOUS
<1>3. u \in State /\ SameData(t, u) /\ u.stack = <<>> /\ u.inProgress = t.inProgress
  BY <1>1, <1>2, Restacked
<1>4. DataInv(u)
  BY <1>1, <1>3, SameDataKept
<1>5. StackInv(u)
  BY <1>3 DEF StackInv, FrameInv, PlaceInv, FinInv, StopInv, CallInv
<1>6. \A x \in Elems : Waits(u, x)
  BY <1>3 DEF Waits, Ord, SameData, SameFlags
<1>7. NoneEnds(t, u)
  BY <1>3 DEF NoneEnds, SameData
<1>. QED  BY <1>3, <1>4, <1>5, <1>6, <1>7 DEF Inv, JInv

LEMMA StopBackAction ==
  ASSUME Inv(s), StopBack
  PROVE  Keeps
<1>. DEFINE f == s.stack[Len(s.stack)]
            there == f.i \in DOMAIN s.timers /\ s.timers[f.i] = f.timer
            cut == IF f.i \in DOMAIN s.timers THEN [s EXCEPT !.timers = Cut(@, f.i)] ELSE s
            v == [cut EXCEPT !.miscut = @ \/ ~there, !.derailed = @ \/ ~there]
            g == [f EXCEPT !.at = "stop", !.i = @ - 1]
<1>1. s \in State /\ DataInv(s) /\ StackInv(s) /\ s.stack # <<>> /\ f.at = "stopped"
  BY DEF Inv, JInv, StopBack, At, Top
<1>2. s' = Swap(v, g)
  BY DEF StopBack, Top
<1>3. f \in StopFrame /\ Len(s.stack) \in DOMAIN s.stack
  BY <1>1, TopIs
<1>4. /\ f.timer \in DOMAIN s.anims /\ s.anims[f.timer].state # "pending"
      /\ f.found /\ f.i > 0
  BY <1>1, <1>3 DEF StackInv, FrameInv, FrameFits
<1>5. /\ g \in StopFrame /\ g.at = "stop" /\ g.i = f.i - 1 /\ g.e = f.e /\ g.gotoEnd = f.gotoEnd
      /\ g.found = f.found /\ g.jobs = f.jobs /\ g \in Frames
  <2>1. f \in StopFrame /\ f.i > 0
    BY <1>3, <1>4
  <2>. HIDE DEF f
  <2>2. f.i \in Nat /\ f.i - 1 \in Nat
    BY <2>1 DEF StopFrame
  <2>. QED  BY <2>1, <2>2 DEF StopFrame, Frames
<1>. HIDE DEF g
<1>6. \A k \in DOMAIN s.stack : s.stack[k].at # "stop"
  BY <1>1 DEF StackInv, FrameInv, Open
<1>7. /\ v \in State /\ Inv(v) /\ NoneEnds(s, v) /\ v.stack = s.stack
      /\ ~v.derailed => g.i <= Len(v.timers)
  <2>1. CASE f.i \in DOMAIN s.timers
    <3>1. cut = [s EXCEPT !.timers = Cut(@, f.i)]
      BY <2>1
    <3>2. /\ cut \in State /\ cut.stack = s.stack /\ cut.inProgress = s.inProgress
          /\ cut.el = s.el /\ cut.anims = s.anims /\ cut.naps = s.naps /\ SameFlags(s, cut)
          /\ Len(cut.timers) = Len(s.timers) - 1
          /\ \A q \in 1..(Len(s.timers) - 1) :
               cut.timers[q] = IF q < f.i THEN s.timers[q] ELSE s.timers[q + 1]
      BY <1>1, <2>1, <3>1, CutIs, ZenonT(60)
    <3>. HIDE DEF cut
    <3>3. PICK b \in BOOLEAN : b = (cut.derailed \/ ~there)
      OBVIOUS
    <3>m. PICK c \in BOOLEAN : c = (cut.miscut \/ ~there)
      OBVIOUS
    <3>. HIDE DEF there
    <3>4. /\ v \in State /\ v.stack = s.stack /\ v.inProgress = s.inProgress
          /\ v.el = s.el /\ v.anims = s.anims /\ v.naps = s.naps
          /\ v.leaked = s.leaked /\ v.rerun = s.rerun /\ v.hurried = s.hurried
          /\ v.derailed = b /\ v.timers = cut.timers
      BY <3>2, <3>3, <3>m DEF State, SameFlags
    <3>. HIDE DEF v
    <3>5. s.derailed \in BOOLEAN /\ cut.derailed = s.derailed
      BY <1>1, <3>2 DEF State, SameFlags
    <3>6. Lessens(s, v)
      BY <1>6, <3>3, <3>4, <3>5 DEF Lessens, Ord
    <3>7. v.derailed \/ (v.derailed = s.derailed /\ s.anims[s.timers[f.i]].state # "pending")
      BY <1>4, <3>3, <3>4, <3>5 DEF there
    <3>8. Cuts(s, v, f.i)
      <4>1. Len(v.timers) = Len(s.timers) - 1
        BY <3>2, <3>4
      <4>2. \A q \in 1..(Len(s.timers) - 1) :
              v.timers[q] = IF q < f.i THEN s.timers[q] ELSE s.timers[q + 1]
        BY <3>2, <3>4
      <4>. HIDE DEF f
      <4>. QED  BY <2>1, <3>4, <3>6, <3>7, <4>1, <4>2 DEF Cuts
    <3>9. Inv(v) /\ NoneEnds(s, v)
      BY <1>1, <3>4, <3>8, CutInv
    <3>10. g.i <= Len(v.timers)
      BY <1>1, <1>5, <2>1, <3>2, <3>4, StackTypes
    <3>. QED  BY <3>4, <3>9, <3>10
  <2>2. CASE f.i \notin DOMAIN s.timers
    <3>1. v = [s EXCEPT !.miscut = TRUE, !.derailed = TRUE]
      BY <1>1, <2>2 DEF State
    <3>. HIDE DEF v
    <3>2. v \in State /\ Derails(s, v)
      BY <1>1, <3>1 DEF State, Derails
    <3>. QED  BY <1>1, <3>2, DerailedInv DEF Derails
  <2>. QED  BY <2>1, <2>2
<1>. HIDE DEF v
<1>8. Follows(v, f, g)
  <2>1. FrameFits(v, g) /\ ~IsTick(f) /\ ~IsTick(g)
    <3>1. FrameFits(s, f)
      BY <1>1, <1>3 DEF StackInv, FrameInv
    <3>. QED  BY <1>1, <1>5, <3>1 DEF FrameFits, IsStop, IsTick
  <2>2. Ord(v) => StopFits(v, f)
    BY <1>3, <1>7 DEF Inv, JInv, StackInv, StopInv
  <2>3. Ord(v) => StopFits(v, g)
    BY <1>1, <1>4, <1>5, <2>2 DEF StopFits, IsStop
  <2>4. \A x \in Elems : Finishes(g, x) <=> Finishes(f, x)
    BY <1>1, <1>5 DEF Finishes, IsStop
  <2>. QED  BY <1>1, <1>5, <1>7, <2>1, <2>3, <2>4 DEF Follows, IsStop
<1>9. \A x \in Elems : /\ Holds(f, x) => Holds(g, x)
                       /\ Wakes(v, f, x) => Wakes(v, g, x)
  BY <1>1, <1>5 DEF Holds, Wakes, Finishes, Completes, IsStop
<1>10. Inv(s') /\ NoneEnds(v, s')
  BY <1>1, <1>2, <1>5, <1>7, <1>8, <1>9, SwapInv
<1>11. NoneEnds(s, s')
  BY <1>7, <1>10 DEF NoneEnds
<1>. QED  BY <1>10, <1>11, NoneEndsWell DEF Keeps

-----------------------------------------------------------------------------
(* Animation i of e has ended. *)
Over(t0, v, i, e) ==
  /\ v \in State /\ DataInv(v)
  /\ Ord(v) => Und(v, e) = {}
  /\ Ord(v) <=> Ord(t0)
  /\ DOMAIN v.anims = DOMAIN t0.anims /\ i \in DOMAIN v.anims
  /\ v.anims[i].e = e /\ v.anims[i].state # "pending"
  /\ \A j \in DOMAIN t0.anims : j # i => v.anims[j] = t0.anims[j]

(* Whoever is in a callback of e is below somebody who finishes e. *)
Called(v, e) ==
  Ord(v) => \A k \in DOMAIN v.stack : Completes(v, v.stack[k], e) =>
              \E m \in DOMAIN v.stack : m > k /\ Finishes(v.stack[m], e)

LEMMA EndIs ==
  ASSUME NEW t0 \in State, Inv(t0), NEW w \in State, NEW i \in DOMAIN t0.anims,
         t0.anims[i].state = "pending", Ends(t0, w, i), NEW e \in Elems, e = t0.anims[i].e
  PROVE  Over(t0, w, i, e) /\ StackInv(w) /\ OthersWait(w, e) /\ Called(w, e)
<1>1. Lessens(t0, w) /\ SameFlags(t0, w) /\ DataInv(t0) /\ StackInv(t0)
  BY DEF Ends, Inv, JInv
<1>2. DataInv(w)
  BY <1>1, EndKeeps
<1>3. StackInv(w)
  BY <1>1, LessensKeeps
<1>4. Ord(w) <=> Ord(t0)
  BY <1>1 DEF Ord, SameFlags
<1>5. /\ DOMAIN w.anims = DOMAIN t0.anims /\ w.stack = t0.stack
      /\ \A j \in DOMAIN t0.anims : w.anims[j].e = t0.anims[j].e
  BY <1>1 DEF Lessens
<1>6. w.anims[i].state # "pending" /\ \A j \in DOMAIN t0.anims : j # i => w.anims[j] = t0.anims[j]
  BY DEF Ends
<1>7. i \in Und(t0, e)
  BY DEF Und
<1>8. Ord(t0) => Und(t0, e) = {i}
  BY <1>1, <1>7 DEF DataInv, One
<1>9. Ord(w) => Und(w, e) = {}
  BY <1>4, <1>5, <1>6, <1>8 DEF Und
<1>10. \A x : x # e => Und(w, x) = Und(t0, x)
  BY <1>5, <1>6 DEF Und
<1>11. ASSUME NEW x \in Elems, x # e  PROVE  Waits(w, x)
  <2>1. SameQueue(t0, w, x)
    BY <1>11 DEF Ends, SameQueue
  <2>. QED  BY <1>1, <1>10, <1>11, <2>1, LessensWaits DEF Inv
<1>12. Called(w, e)
  <2>. SUFFICES ASSUME Ord(w), NEW k \in DOMAIN w.stack, Completes(w, w.stack[k], e)
       PROVE  \E m \in DOMAIN w.stack : m > k /\ Finishes(w.stack[m], e)
    BY DEF Called
  <2>1. FrameFits(t0, t0.stack[k])
    BY <1>1, <1>5 DEF StackInv, FrameInv
  <2>2. Completes(t0, t0.stack[k], e)
    BY <1>5, <2>1 DEF Completes, FrameFits
  <2>. QED  BY <1>1, <1>4, <1>5, <1>7, <2>2 DEF StackInv, CallInv
<1>. QED  BY <1>2, <1>3, <1>4, <1>5, <1>6, <1>9, <1>11, <1>12 DEF Over, OthersWait

LEMMA OverSame ==
  ASSUME NEW t0, NEW w \in State, NEW i, NEW e, Over(t0, w, i, e), NEW v \in State, SameData(w, v)
  PROVE  Over(t0, v, i, e)
<1>1. DataInv(v)
  BY SameDataKept DEF Over
<1>2. Und(v, e) = Und(w, e) /\ (Ord(v) <=> Ord(w)) /\ v.anims = w.anims
  BY SameMeaning
<1>. QED  BY <1>1, <1>2 DEF Over

(* The complete callback is called. *)
LEMMA CompleteKeeps ==
  ASSUME NEW t0 \in State, Inv(t0), NEW v \in State, NEW i \in DOMAIN t0.anims,
         t0.anims[i].state = "pending", NEW e \in Elems, e = t0.anims[i].e,
         Over(t0, v, i, e), StackInv(v), OthersWait(v, e), Called(v, e), NoOpen(v),
         EndsWell(t0, v, i), NEW u, u = Push(v, Complete(i))
  PROVE  Inv(u) /\ Well(t0, u)
<1>1. i \in Nat /\ Complete(i) \in Frames
  BY DEF Complete, Frames, OtherFrame, State
<1>2. u \in State /\ SameData(v, u) /\ Pushed(v, u, Complete(i)) /\ u.inProgress = v.inProgress
  BY <1>1, PushIs
<1>3. Complete(i).at = "complete" /\ Complete(i).i = i
  BY DEF Complete
<1>4. /\ \A x : Completes(v, Complete(i), x) <=> x = e
      /\ \A x : ~Finishes(Complete(i), x)
      /\ ~IsTick(Complete(i)) /\ ~IsStop(Complete(i))
  BY <1>3 DEF Over, Completes, Finishes, IsTick, IsStop
<1>5. Enters(v, Complete(i))
  <2>1. FrameFits(v, Complete(i)) /\ StopFits(v, Complete(i))
    BY <1>3, <1>4 DEF FrameFits, StopFits, Over
  <2>. QED  BY <1>1, <1>3, <1>4, <2>1 DEF Enters, NoOpen, Called, Over
<1>6. DataInv(u)
  BY <1>2, SameDataKept DEF Over
<1>7. StackInv(u)
  BY <1>2, <1>4, <1>5, PushKeeps
<1>8. ASSUME NEW x \in Elems, x # e  PROVE  Waits(u, x)
  BY <1>2, <1>8, PushWaits DEF OthersWait
<1>m. /\ Und(u, e) = Und(v, e) /\ (Ord(u) <=> Ord(v)) /\ u.anims = v.anims /\ u.el = v.el
      /\ \A f, x : Wakes(u, f, x) <=> Wakes(v, f, x)
  BY <1>2, SameMeaning
<1>9. Waits(u, e)
  <2>1. Ord(u) => Waited(u, e)
    BY <1>m DEF Waited, Over
  <2>2. Len(v.stack) + 1 \in DOMAIN u.stack /\ u.stack[Len(v.stack) + 1] = Complete(i)
    BY <1>2, StackTypes DEF Pushed
  <2>3. Wakes(u, Complete(i), e)
    BY <1>4, <1>m DEF Wakes
  <2>. QED  BY <2>1, <2>2, <2>3 DEF Waits, Unstuck
<1>10. Well(t0, u)
  <2>. SUFFICES ASSUME Ord(u), NEW j \in DOMAIN t0.anims, t0.anims[j].state = "pending",
                       v.anims[j].state = "resolved", ~v.anims[j].noted
       PROVE  /\ v.anims[j].kind = "show" => v.el[v.anims[j].e].shown
              /\ v.anims[j].kind = "hide" => ~v.el[v.anims[j].e].shown
    BY <1>m DEF Well
  <2>1. j = i
    BY DEF Over
  <2>2. Asked(t0.anims[i], t0.el[e])
    BY <1>m DEF Over, Inv, JInv, DataInv, AskInv
  <2>. QED  BY <2>1, <2>2 DEF Asked, EndsWell, Over
<1>. QED  BY <1>2, <1>6, <1>7, <1>8, <1>9, <1>10 DEF Inv, JInv

(* The loop on top of the stack goes on to wait for the callback of i. *)
Turns(f, g, i, e) ==
  \/ f.at = "tick" /\ g \in TickedFrame /\ g.timer = i
  \/ /\ f.at = "stop" /\ g \in StopFrame /\ g.at = "stopped"
     /\ g.timer = i /\ g.i > 0 /\ g.e = f.e /\ g.e = e /\ g.found
     /\ g.gotoEnd = f.gotoEnd /\ g.jobs = f.jobs

LEMMA TurnKeeps ==
  ASSUME NEW t0 \in State, Inv(t0), t0.stack # <<>>, NEW f, f = t0.stack[Len(t0.stack)],
         NEW i \in DOMAIN t0.anims, t0.anims[i].state = "pending",
         NEW e \in Elems, e = t0.anims[i].e,
         NEW g \in Frames, Turns(f, g, i, e),
         NEW t \in State, Nearly(t0, t, i), Swapped(t0, t, g),
         NEW state \in {"resolved", "rejected"}, NEW v, v = Ended(t, i, state)
  PROVE  /\ v \in State /\ Over(t0, v, i, e) /\ StackInv(v) /\ OthersWait(v, e) /\ Called(v, e)
         /\ Swapped(t0, v, g) /\ v.anims[i].state = state
         /\ state = "resolved" => EndsWell(t0, v, i)
         /\ ~Open(g) => NoOpen(v)
<1>1. v \in State /\ \E w \in State : /\ Ends(t0, w, i) /\ Restacks(t, w, v)
                                      /\ state = "resolved" => EndsWell(t0, w, i)
                                      /\ w.anims[i].state = state
  BY EndedIs
<1>2. PICK w \in State : /\ Ends(t0, w, i) /\ Restacks(t, w, v)
                         /\ state = "resolved" => EndsWell(t0, w, i)
                         /\ w.anims[i].state = state
  BY <1>1
<1>3. Over(t0, w, i, e) /\ StackInv(w) /\ OthersWait(w, e) /\ Called(w, e)
  BY <1>2, EndIs
<1>4. /\ SameData(w, v) /\ v.stack = t.stack /\ v.inProgress = w.inProgress
      /\ w.stack = t0.stack
  BY <1>2 DEF Restacks, Ends, Lessens
<1>5. Swapped(t0, v, g) /\ Swapped(w, v, g) /\ w.stack # <<>>
  BY <1>4 DEF Swapped, SameBelow
<1>6. Over(t0, v, i, e)
  BY <1>1, <1>3, <1>4, OverSame
<1>7. Len(t0.stack) \in DOMAIN t0.stack /\ f \in Frames
  BY TopIs
<1>8. f.at \in {"tick", "stop"} /\ g.at \in {"ticked", "stopped"}
  BY DEF Turns, TickedFrame
<1>9. /\ IsTick(f) <=> IsTick(g)
      /\ \A x : Finishes(f, x) <=> Finishes(g, x)
      /\ \A x : ~Completes(w, f, x) /\ ~Completes(w, g, x)
      /\ ~IsTick(f) => f.e = e /\ g.e = e /\ IsStop(f)
  BY DEF Turns, TickedFrame, IsTick, IsStop, Finishes, Completes
<1>10. Follows(w, f, g)
  <2>1. FrameFits(t0, f)
    BY <1>7 DEF Inv, JInv, StackInv, FrameInv
  <2>2. g.timer = i /\ i \in DOMAIN w.anims /\ w.anims[i].state # "pending"
    BY <1>3 DEF Turns, Over
  <2>3. FrameFits(w, g)
    BY <1>8, <2>1, <2>2 DEF FrameFits, Turns, TickedFrame, IsStop
  <2>4. Ord(w) => StopFits(w, g)
    BY <1>3 DEF Over, StopFits, Turns, TickedFrame, IsStop
  <2>5. IsStop(g) /\ g.jobs = <<>> => IsStop(f) /\ f.jobs = <<>> /\ f.e = g.e
    BY DEF Turns, TickedFrame, IsStop
  <2>. QED  BY <1>8, <1>9, <2>3, <2>4, <2>5 DEF Follows
<1>11. f = w.stack[Len(w.stack)]
  BY <1>4
<1>12. StackInv(v)
  BY <1>1, <1>3, <1>4, <1>5, <1>10, <1>11, SwapKeeps
<1>13. ASSUME NEW x \in Elems, x # e  PROVE  Waits(v, x)
  <2>1. ~Holds(f, x) /\ ~Wakes(w, f, x)
    BY <1>8, <1>9, <1>13 DEF Holds, Wakes, Finishes, IsTick, IsStop
  <2>. QED  BY <1>1, <1>3, <1>4, <1>5, <1>11, <1>13, <2>1, SwapWaits DEF OthersWait
<1>14. Called(v, e)
  <2>. SUFFICES ASSUME Ord(v), NEW k \in DOMAIN v.stack, Completes(v, v.stack[k], e)
       PROVE  \E m \in DOMAIN v.stack : m > k /\ Finishes(v.stack[m], e)
    BY DEF Called
  <2>1. /\ DOMAIN v.stack = DOMAIN w.stack
        /\ \A m \in DOMAIN w.stack : v.stack[m] = w.stack[m] \/ (w.stack[m] = f /\ v.stack[m] = g)
    <3>1. /\ Len(w.stack) \in Nat /\ DOMAIN w.stack = 1..Len(w.stack)
          /\ DOMAIN v.stack = 1..Len(v.stack)
      BY <1>1, StackTypes
    <3>. QED  BY <1>5, <1>11, <3>1 DEF Swapped, SameBelow
  <2>2. Ord(w) /\ \A h, x : Completes(v, h, x) <=> Completes(w, h, x)
    BY <1>4, SameMeaning
  <2>3. Completes(w, w.stack[k], e)
    BY <1>9, <2>1, <2>2
  <2>4. PICK m \in DOMAIN w.stack : m > k /\ Finishes(w.stack[m], e)
    BY <1>3, <2>1, <2>2, <2>3 DEF Called
  <2>. QED  BY <1>9, <2>1, <2>4
<1>15. state = "resolved" => EndsWell(t0, v, i)
  BY <1>2, <1>4 DEF EndsWell, SameData
<1>16. v.anims[i].state = state
  BY <1>2, <1>4 DEF SameData
<1>17. ~Open(g) => NoOpen(v)
  <2>. SUFFICES ASSUME ~Open(g), NEW k \in DOMAIN v.stack  PROVE ~Open(v.stack[k])
    BY DEF NoOpen
  <2>1. v.stack[Len(v.stack)] = g
    BY <1>5 DEF Swapped
  <2>. QED  BY <1>12, <2>1 DEF StackInv, FrameInv
<1>. QED  BY <1>1, <1>5, <1>6, <1>12, <1>13, <1>14, <1>15, <1>16, <1>17 DEF OthersWait

LEMMA PopHaltKeeps ==
  ASSUME NEW t0 \in State, Inv(t0), t0.stack # <<>>, NEW f, f = t0.stack[Len(t0.stack)],
         NEW i \in DOMAIN t0.anims, t0.anims[i].state = "pending",
         NEW e \in Elems, e = t0.anims[i].e, f.at = "halt", f.i = i,
         NEW t \in State, Nearly(t0, t, i), Popped(t0, t), NEW v, v = Ended(t, i, "resolved")
  PROVE  /\ v \in State /\ Over(t0, v, i, e) /\ StackInv(v) /\ OthersWait(v, e) /\ Called(v, e)
         /\ EndsWell(t0, v, i) /\ NoOpen(v)
<1>1. v \in State /\ \E w \in State : /\ Ends(t0, w, i) /\ Restacks(t, w, v)
                                      /\ "resolved" = "resolved" => EndsWell(t0, w, i)
                                      /\ w.anims[i].state = "resolved"
  BY EndedIs
<1>2. PICK w \in State : /\ Ends(t0, w, i) /\ Restacks(t, w, v) /\ EndsWell(t0, w, i)
  BY <1>1
<1>3. Over(t0, w, i, e) /\ StackInv(w) /\ OthersWait(w, e) /\ Called(w, e)
  BY <1>2, EndIs
<1>4. /\ SameData(w, v) /\ v.stack = t.stack /\ v.inProgress = w.inProgress
      /\ w.stack = t0.stack
  BY <1>2 DEF Restacks, Ends, Lessens
<1>5. Popped(w, v) /\ w.stack # <<>>
  BY <1>4 DEF Popped, SameBelow
<1>6. Over(t0, v, i, e)
  BY <1>1, <1>3, <1>4, OverSame
<1>7. f = w.stack[Len(w.stack)]
  BY <1>4
<1>8. /\ \A x : ~Finishes(f, x) /\ ~Holds(f, x) /\ ~Wakes(w, f, x) /\ ~Completes(w, f, x)
      /\ ~IsTick(f)
  BY DEF Finishes, Holds, Wakes, Completes, IsTick, IsStop
<1>9. w.anims[f.i].state # "pending"
  BY <1>3 DEF Over
<1>10. StackInv(v) /\ NoOpen(v)
  BY <1>1, <1>3, <1>4, <1>5, <1>7, <1>8, <1>9, PopKeeps DEF NoOpen
<1>11. ASSUME NEW x \in Elems, x # e  PROVE  Waits(v, x)
  BY <1>1, <1>3, <1>4, <1>5, <1>7, <1>8, <1>11, PopWaits DEF OthersWait
<1>12. Called(v, e)
  <2>. SUFFICES ASSUME Ord(v), NEW k \in DOMAIN v.stack, Completes(v, v.stack[k], e)
       PROVE  \E m \in DOMAIN v.stack : m > k /\ Finishes(v.stack[m], e)
    BY DEF Called
  <2>1. /\ \A m \in DOMAIN v.stack : m \in DOMAIN w.stack /\ v.stack[m] = w.stack[m]
        /\ \A m \in DOMAIN w.stack : m \in DOMAIN v.stack \/ w.stack[m] = f
    <3>1. /\ Len(w.stack) \in Nat /\ DOMAIN w.stack = 1..Len(w.stack)
          /\ DOMAIN v.stack = 1..Len(v.stack)
      BY <1>1, StackTypes
    <3>2. DOMAIN v.stack = 1..(Len(w.stack) - 1)
      BY <1>5, <3>1 DEF Popped
    <3>3. \A m \in 1..(Len(w.stack) - 1) : v.stack[m] = w.stack[m]
      BY <1>5 DEF Popped, SameBelow
    <3>4. \A m \in 1..Len(w.stack) : m \in 1..(Len(w.stack) - 1) \/ m = Len(w.stack)
      BY <3>1
    <3>5. 1..(Len(w.stack) - 1) \subseteq 1..Len(w.stack)
      BY <3>1
    <3>. QED  BY <1>7, <3>1, <3>2, <3>3, <3>4, <3>5
  <2>2. Ord(w) /\ \A h, x : Completes(v, h, x) <=> Completes(w, h, x)
    BY <1>4, SameMeaning
  <2>3. PICK m \in DOMAIN w.stack : m > k /\ Finishes(w.stack[m], e)
    BY <1>3, <2>1, <2>2 DEF Called
  <2>. QED  BY <1>8, <2>1, <2>3
<1>13. EndsWell(t0, v, i)
  BY <1>2, <1>4 DEF EndsWell, SameData
<1>. QED  BY <1>1, <1>6, <1>10, <1>11, <1>12, <1>13 DEF OthersWait

LEMMA NearlySame ==
  ASSUME NEW t0 \in State, NEW t, SameData(t0, t), t.inProgress = t0.inProgress,
         NEW i \in DOMAIN t0.anims
  PROVE  Nearly(t0, t, i)
<1>1. t0.anims[i] \in Animation
  BY DEF State
<1>2. t0.anims[i] = [t0.anims[i] EXCEPT !.stopped = t0.anims[i].stopped]
      /\ t0.anims[i].stopped \in BOOLEAN
  BY <1>1 DEF Animation
<1>. QED  BY <1>2 DEF Nearly, SameData

LEMMA StoppedIs ==
  ASSUME NEW t \in State, NEW i \in DOMAIN t.anims, NEW u,
         u = [t EXCEPT !.anims[i].stopped = TRUE]
  PROVE  /\ u \in State /\ u.stack = t.stack /\ u.el = t.el /\ u.naps = t.naps
         /\ u.timers = t.timers /\ u.inProgress = t.inProgress /\ SameFlags(t, u)
         /\ DOMAIN u.anims = DOMAIN t.anims
         /\ u.anims[i] = [t.anims[i] EXCEPT !.stopped = TRUE]
         /\ \A j \in DOMAIN t.anims : j # i => u.anims[j] = t.anims[j]
<1>. DEFINE b == [t.anims[i] EXCEPT !.stopped = TRUE]
            q == [t.anims EXCEPT ![i] = b]
<1>1. t.anims \in Seq(Animation) /\ t.anims[i] \in Animation
  BY DEF State
<1>2. b \in Animation
  BY <1>1 DEF Animation
<1>3. u = [t EXCEPT !.anims = q]
  OBVIOUS
<1>. HIDE DEF b
<1>4. /\ q \in Seq(Animation) /\ DOMAIN q = DOMAIN t.anims /\ q[i] = b
      /\ \A j \in DOMAIN t.anims : j # i => q[j] = t.anims[j]
  BY <1>1, <1>2
<1>. HIDE DEF q
<1>5. /\ u \in State /\ u.stack = t.stack /\ u.el = t.el /\ u.naps = t.naps
      /\ u.timers = t.timers /\ u.inProgress = t.inProgress /\ SameFlags(t, u) /\ u.anims = q
  BY <1>3, <1>4 DEF State, SameFlags
<1>. QED  BY <1>4, <1>5 DEF b

LEMMA ResolveIdle ==
  ASSUME NEW t \in State, DataInv(t), NEW i \in DOMAIN t.anims, t.anims[i].state # "pending"
  PROVE  Resolve(RunTweens(t, i, "end"), i) = RunTweens(t, i, "end")
<1>1. RunTweens(t, i, "end").anims = t.anims
  BY RunTweensIs
<1>. QED  BY <1>1 DEF Resolve

LEMMA TickTurnAction ==
  ASSUME Inv(s), TickTurn
  PROVE  Keeps
<1>. DEFINE f == s.stack[Len(s.stack)]
            i == s.timers[f.i]
            a == s.anims[i]
            e == a.e
            gn == [at |-> "tick", i |-> f.i + 1]
            gb == [at |-> "ticked", i |-> f.i, timer |-> i]
            next == Swap(s, gn)
            back == Swap(s, gb)
<1>1. /\ s \in State /\ DataInv(s) /\ StackInv(s) /\ s.stack # <<>> /\ f.at = "tick"
      /\ f.i <= Len(s.timers)
  BY DEF Inv, JInv, TickTurn, At, Top
<1>2. s' = IF a.stopped THEN back
           ELSE IF a.tweens /\ a.left > 0
           THEN RunTweens(next, i, IF a.left = a.dur THEN "begin" ELSE "on")
           ELSE Resolve(RunTweens(back, i, "end"), i)
  BY DEF TickTurn, Top
<1>3. f \in TickFrame /\ Len(s.stack) \in DOMAIN s.stack
  BY <1>1, TopIs
<1>4. f.i \in Nat \ {0} /\ f.i \in DOMAIN s.timers
  BY <1>1, <1>3, StackTypes DEF TickFrame
<1>5. i \in DOMAIN s.anims /\ i \in Nat /\ a \in Animation
  BY <1>1, <1>4 DEF DataInv, TimerInv, State
<1>6. e \in Elems
  BY <1>5 DEF Animation
<1>7. gn \in Frames /\ gb \in Frames /\ gb \in TickedFrame
  BY <1>4, <1>5 DEF Frames, TickFrame, TickedFrame
<1>8. /\ gn.at = "tick" /\ gb.at = "ticked" /\ gb.timer = i
  OBVIOUS
<1>. HIDE DEF gn, gb
<1>9. \A x : ~Holds(f, x) /\ ~Wakes(s, f, x) /\ ~Finishes(f, x)
  BY <1>1 DEF Holds, Wakes, Finishes, Completes, IsStop
<1>10. Follows(s, f, gn)
  BY <1>1, <1>7, <1>8 DEF Follows, FrameFits, StopFits, IsTick, IsStop, Finishes
<1>11. a.state # "pending" => Follows(s, f, gb)
  BY <1>1, <1>5, <1>7, <1>8 DEF Follows, FrameFits, StopFits, IsTick, IsStop, Finishes
<1>12. /\ back \in State /\ SameData(s, back) /\ Swapped(s, back, gb)
       /\ back.inProgress = s.inProgress
  BY <1>1, <1>7, SwapIs
<1>13. /\ next \in State /\ SameData(s, next)
  BY <1>1, <1>7, SwapIs
<1>. HIDE DEF back, next, i, f
<1>14. a.state # "pending" => Inv(back) /\ NoneEnds(s, back)
  BY <1>1, <1>7, <1>9, <1>11, SwapInv DEF back, f
<1>15. Inv(next) /\ NoneEnds(s, next)
  BY <1>1, <1>7, <1>9, <1>10, SwapInv DEF next, f
<1>16. CASE a.stopped
  <2>1. a.state # "pending"
    BY <1>1, <1>5, <1>16 DEF DataInv, AnimInv
  <2>. QED  BY <1>2, <1>14, <1>16, <2>1, NoneEndsWell DEF Keeps
<1>17. CASE ~a.stopped /\ a.tweens /\ a.left > 0
  <2>1. PICK part \in {"begin", "on", "end"} : s' = RunTweens(next, i, part)
    BY <1>2, <1>17
  <2>2. i \in DOMAIN next.anims /\ DataInv(next)
    BY <1>5, <1>13, <1>15 DEF SameData, Inv, JInv
  <2>3. s' \in State /\ Passes(next, s')
    BY <1>13, <2>1, <2>2, RunTweensIs
  <2>4. Inv(s') /\ NoneEnds(next, s')
    BY <1>13, <1>15, <2>3, PassInv
  <2>5. NoneEnds(s, s')
    BY <1>15, <2>4 DEF NoneEnds
  <2>. QED  BY <2>4, <2>5, NoneEndsWell DEF Keeps
<1>18. CASE ~a.stopped /\ ~(a.tweens /\ a.left > 0)
  <2>1. s' = Resolve(RunTweens(back, i, "end"), i)
    BY <1>2, <1>18
  <2>2. back.anims = s.anims /\ i \in DOMAIN back.anims
    BY <1>5, <1>12 DEF SameData
  <2>3. CASE a.state # "pending"
    <3>1. DataInv(back) /\ Inv(back) /\ NoneEnds(s, back)
      BY <1>14, <2>3 DEF Inv, JInv
    <3>2. s' = RunTweens(back, i, "end")
      BY <1>12, <2>1, <2>2, <2>3, <3>1, ResolveIdle
    <3>3. s' \in State /\ Passes(back, s')
      BY <1>12, <2>2, <3>1, <3>2, RunTweensIs
    <3>4. Inv(s') /\ NoneEnds(back, s')
      BY <1>12, <3>1, <3>3, PassInv
    <3>5. NoneEnds(s, s')
      BY <3>1, <3>4 DEF NoneEnds
    <3>. QED  BY <3>4, <3>5, NoneEndsWell DEF Keeps
  <2>4. CASE a.state = "pending"
    <3>. DEFINE v == Ended(back, i, "resolved")
    <3>1. s' = Push(v, Complete(i))
      BY <1>12, <2>1, <2>2, <2>4, ResolveIs
    <3>2. Nearly(s, back, i)
      BY <1>1, <1>5, <1>12, NearlySame
    <3>3. Turns(f, gb, i, e)
      BY <1>1, <1>7, <1>8 DEF Turns
    <3>. HIDE DEF v, a
    <3>4. f = s.stack[Len(s.stack)] /\ e = s.anims[i].e /\ s.anims[i].state = "pending"
      BY <2>4 DEF f, a
    <3>5. "resolved" \in {"resolved", "rejected"} /\ v = Ended(back, i, "resolved")
      BY DEF v
    <3>. HIDE DEF e
    <3>6. /\ v \in State /\ Over(s, v, i, e) /\ StackInv(v) /\ OthersWait(v, e) /\ Called(v, e)
          /\ Swapped(s, v, gb) /\ v.anims[i].state = "resolved"
          /\ "resolved" = "resolved" => EndsWell(s, v, i)
          /\ ~Open(gb) => NoOpen(v)
      BY <1>1, <1>5, <1>6, <1>7, <1>12, <3>2, <3>3, <3>4, <3>5, TurnKeeps
    <3>7. NoOpen(v) /\ EndsWell(s, v, i)
      BY <1>8, <3>6 DEF Open
    <3>8. Inv(s') /\ Well(s, s')
      BY <1>1, <1>5, <1>6, <3>1, <3>4, <3>6, <3>7, CompleteKeeps
    <3>. QED  BY <3>8 DEF Keeps
  <2>. QED  BY <2>3, <2>4
<1>. QED  BY <1>16, <1>17, <1>18

LEMMA HaltAction ==
  ASSUME Inv(s), Halt
  PROVE  Keeps
<1>. DEFINE f == s.stack[Len(s.stack)]  i == f.i  t == Pop(s)
            u == [t EXCEPT !.anims[i].stopped = TRUE]  e == s.anims[i].e
<1>1. s \in State /\ DataInv(s) /\ StackInv(s) /\ s.stack # <<>> /\ f.at = "halt"
  BY DEF Inv, JInv, Halt, At, Top
<1>2. s' = IF t.anims[i].stopped THEN t ELSE Resolve(RunTweens(u, i, "end"), i)
  BY DEF Halt, Top, StopAnim
<1>3. Len(s.stack) \in DOMAIN s.stack /\ FrameFits(s, f)
  BY <1>1, TopIs DEF StackInv, FrameInv
<1>4. i \in DOMAIN s.anims /\ s.anims[i] \in Animation
  BY <1>1, <1>3 DEF FrameFits, State
<1>5. e \in Elems
  BY <1>4 DEF Animation
<1>6. t \in State /\ SameData(s, t) /\ Popped(s, t) /\ t.inProgress = s.inProgress
  BY <1>1, PopIs
<1>7. /\ \A x : ~Finishes(f, x) /\ ~Holds(f, x) /\ ~Wakes(s, f, x)
      /\ ~IsTick(f)
  BY <1>1 DEF Finishes, Holds, Wakes, Completes, IsTick, IsStop
<1>8. t.anims = s.anims /\ i \in DOMAIN t.anims
  BY <1>4, <1>6 DEF SameData
<1>f. f = s.stack[Len(s.stack)] /\ i = f.i
  OBVIOUS
<1>. HIDE DEF t, f
<1>9. s.anims[i].state # "pending" => Inv(t) /\ NoneEnds(s, t)
  <2>. SUFFICES ASSUME s.anims[i].state # "pending"  PROVE Inv(t) /\ NoneEnds(s, t)
    OBVIOUS
  <2>1. DataInv(t)
    BY <1>1, <1>6, SameDataKept
  <2>2. StackInv(t)
    BY <1>1, <1>6, <1>7, <1>f, PopKeeps
  <2>3. \A x \in Elems : Waits(t, x)
    BY <1>1, <1>6, <1>7, <1>f, PopWaits DEF Inv
  <2>. QED  BY <1>6, <1>8, <2>1, <2>2, <2>3 DEF Inv, JInv, NoneEnds
<1>10. s.anims[i].stopped => s.anims[i].state # "pending"
  BY <1>1, <1>4 DEF DataInv, AnimInv
<1>11. CASE s.anims[i].stopped
  BY <1>2, <1>8, <1>9, <1>10, <1>11, NoneEndsWell DEF Keeps
<1>12. CASE ~s.anims[i].stopped
  <2>1. s' = Resolve(RunTweens(u, i, "end"), i)
    BY <1>2, <1>8, <1>12
  <2>2. /\ u \in State /\ u.stack = t.stack /\ u.el = t.el /\ u.naps = t.naps
        /\ u.timers = t.timers /\ u.inProgress = t.inProgress /\ SameFlags(t, u)
        /\ DOMAIN u.anims = DOMAIN t.anims
        /\ u.anims[i] = [t.anims[i] EXCEPT !.stopped = TRUE]
        /\ \A j \in DOMAIN t.anims : j # i => u.anims[j] = t.anims[j]
    BY <1>6, <1>8, StoppedIs
  <2>. HIDE DEF u
  <2>3. /\ u.anims[i].state = s.anims[i].state /\ u.anims[i].e = e
        /\ u.anims[i].matches = s.anims[i].matches /\ u.anims[i].kind = s.anims[i].kind
        /\ u.anims[i].noted = s.anims[i].noted /\ u.anims[i].tweens = s.anims[i].tweens
        /\ u.anims[i].hidden = s.anims[i].hidden /\ u.anims[i].orig = s.anims[i].orig
    BY <1>4, <1>8, <2>2 DEF Animation
  <2>4. CASE s.anims[i].state # "pending"
    <3>1. Lessens(t, u)
      <4>1. \A j \in DOMAIN t.anims : u.anims[j].e = t.anims[j].e /\ u.anims[j].state = t.anims[j].state
        BY <1>8, <2>2, <2>3
      <4>. QED  BY <2>2, <4>1 DEF Lessens, Ord, SameFlags
    <3>2. Passes(t, u)
      <4>1. ASSUME NEW j \in DOMAIN t.anims
            PROVE  /\ u.anims[j].state = t.anims[j].state /\ u.anims[j].matches = t.anims[j].matches
                   /\ u.anims[j].kind = t.anims[j].kind /\ u.anims[j].noted = t.anims[j].noted
                   /\ u.anims[j].tweens = t.anims[j].tweens /\ u.anims[j].hidden = t.anims[j].hidden
                   /\ u.anims[j].orig = t.anims[j].orig
                   /\ u.anims[j].stopped => t.anims[j].stopped \/ t.anims[j].state # "pending"
        BY <1>8, <2>2, <2>3, <2>4
      <4>. QED  BY <2>2, <3>1, <4>1 DEF Passes, SameFlags
    <3>3. Inv(u) /\ NoneEnds(t, u)
      BY <1>6, <1>9, <2>2, <2>4, <3>2, PassInv
    <3>4. i \in DOMAIN u.anims /\ DataInv(u) /\ u.anims[i].state # "pending"
      BY <1>8, <2>2, <2>3, <2>4, <3>3 DEF Inv, JInv
    <3>5. s' = RunTweens(u, i, "end")
      BY <2>1, <2>2, <3>4, ResolveIdle
    <3>6. s' \in State /\ Passes(u, s')
      BY <2>2, <3>4, <3>5, RunTweensIs
    <3>7. Inv(s') /\ NoneEnds(u, s')
      BY <2>2, <3>3, <3>6, PassInv
    <3>8. NoneEnds(s, s')
      BY <1>9, <2>4, <3>3, <3>7 DEF NoneEnds
    <3>. QED  BY <3>7, <3>8, NoneEndsWell DEF Keeps
  <2>5. CASE s.anims[i].state = "pending"
    <3>. DEFINE v == Ended(u, i, "resolved")
    <3>1. s' = Push(v, Complete(i))
      <4>1. i \in DOMAIN u.anims /\ u.anims[i].state = "pending" /\ u \in State
        BY <1>8, <2>2, <2>3, <2>5
      <4>. HIDE DEF i
      <4>. QED  BY <2>1, <4>1, ResolveIs
    <3>2. Nearly(s, u, i)
      BY <1>6, <1>8, <2>2 DEF Nearly, SameData, SameFlags
    <3>3. Popped(s, u)
      BY <1>6, <2>2 DEF Popped, SameBelow
    <3>4. v = Ended(u, i, "resolved") /\ e = s.anims[i].e
      OBVIOUS
    <3>5. f.at = "halt" /\ f.i = i
      BY <1>1
    <3>. HIDE DEF v, e, i
    <3>6. /\ v \in State /\ Over(s, v, i, e) /\ StackInv(v) /\ OthersWait(v, e) /\ Called(v, e)
          /\ EndsWell(s, v, i) /\ NoOpen(v)
      BY <1>1, <1>4, <1>5, <1>f, <2>2, <2>5, <3>2, <3>3, <3>4, <3>5, PopHaltKeeps
    <3>7. Inv(s') /\ Well(s, s')
      BY <1>1, <1>4, <1>5, <2>5, <3>1, <3>4, <3>6, CompleteKeeps
    <3>. QED  BY <3>7 DEF Keeps
  <2>. QED  BY <2>4, <2>5
<1>. QED  BY <1>11, <1>12

(* An animation is rejected, and whoever stopped it sees to the queue. *)
LEMMA RejectKeeps ==
  ASSUME NEW t0 \in State, Inv(t0), NEW v \in State, NEW i \in DOMAIN t0.anims,
         NEW e \in Elems, Over(t0, v, i, e), StackInv(v), OthersWait(v, e),
         v.anims[i].state = "rejected",
         NEW k \in DOMAIN v.stack, Wakes(v, v.stack[k], e)
  PROVE  Inv(v) /\ Well(t0, v)
<1>1. Waits(v, e)
  BY DEF Over, Waits, Waited, Unstuck
<1>2. Inv(v)
  BY <1>1 DEF Inv, JInv, Over, OthersWait
<1>3. Well(t0, v)
  BY DEF Well, Over
<1>. QED  BY <1>2, <1>3

LEMMA StopTurnAction ==
  ASSUME Inv(s), StopTurn
  PROVE  Keeps
<1>. DEFINE f == s.stack[Len(s.stack)]
            i == s.timers[f.i]
            a == s.anims[i]
            e == a.e
            go == [f EXCEPT !.i = @ - 1]
            gb == [f EXCEPT !.at = "stopped", !.found = TRUE, !.timer = i]
            back == Swap(s, gb)
            u == [back EXCEPT !.anims[i].stopped = TRUE]
<1>1. /\ s \in State /\ DataInv(s) /\ StackInv(s) /\ s.stack # <<>> /\ f.at = "stop" /\ f.i > 0
  BY DEF Inv, JInv, StopTurn, At, Top
<1>2. s' = IF f.i > Len(s.timers) THEN [s EXCEPT !.stack = <<>>]
           ELSE IF a.matches /\ a.e = f.e THEN StopAnim(back, i, f.gotoEnd)
           ELSE Swap(s, go)
  BY DEF StopTurn, Top
<1>3. f \in StopFrame /\ Len(s.stack) \in DOMAIN s.stack /\ FrameFits(s, f)
  BY <1>1, TopIs DEF StackInv, FrameInv
<1>4. f.i \in Nat /\ f.e \in Elems /\ f.gotoEnd \in BOOLEAN /\ Len(s.timers) \in Nat
  BY <1>1, <1>3 DEF StopFrame, State
<1>5. CASE f.i > Len(s.timers)
  <2>1. s.derailed
    BY <1>1, <1>3, <1>4, <1>5 DEF StackInv, PlaceInv
  <2>2. s' = [s EXCEPT !.stack = <<>>]
    BY <1>2, <1>5
  <2>. QED  BY <1>1, <2>1, <2>2, EmptiedInv, NoneEndsWell DEF Keeps
<1>6. CASE ~(f.i > Len(s.timers))
  <2>1. f.i \in DOMAIN s.timers
    BY <1>1, <1>4, <1>6, StackTypes
  <2>2. i \in DOMAIN s.anims /\ i \in Nat /\ a \in Animation
    BY <1>1, <2>1 DEF DataInv, TimerInv, State
  <2>3. e \in Elems /\ e = s.anims[i].e
    BY <2>2 DEF Animation
  <2>4. a.matches => a.state = "pending" /\ ~a.stopped
    BY <1>1, <2>2 DEF DataInv, AnimInv
  <2>5. CASE a.matches /\ e = f.e
    <3>1. /\ gb \in StopFrame /\ gb.at = "stopped" /\ gb.timer = i /\ gb.found /\ gb.i = f.i
          /\ gb.e = f.e /\ gb.gotoEnd = f.gotoEnd /\ gb.jobs = f.jobs /\ gb \in Frames
      <4>. HIDE DEF f
      <4>1. i \in Nat /\ f \in StopFrame
        BY <1>3, <2>2
      <4>. HIDE DEF i
      <4>. QED  BY <4>1 DEF StopFrame, Frames
    <3>f. f = s.stack[Len(s.stack)] /\ f.at = "stop" /\ f.i > 0
      BY <1>1
    <3>2. /\ back \in State /\ SameData(s, back) /\ Swapped(s, back, gb)
          /\ back.inProgress = s.inProgress
      BY <1>1, <3>1, SwapIs
    <3>. HIDE DEF gb, f, back
    <3>3. Turns(f, gb, i, e)
      BY <2>5, <3>1, <3>f DEF Turns
    <3>4. back.anims = s.anims
      BY <3>2 DEF SameData
    <3>5. /\ u \in State /\ u.stack = back.stack /\ u.el = back.el /\ u.naps = back.naps
          /\ u.timers = back.timers /\ u.inProgress = back.inProgress /\ SameFlags(back, u)
          /\ DOMAIN u.anims = DOMAIN s.anims
          /\ u.anims[i] = [a EXCEPT !.stopped = TRUE]
          /\ \A j \in DOMAIN s.anims : j # i => u.anims[j] = s.anims[j]
      <4>1. u = [back EXCEPT !.anims[i].stopped = TRUE] /\ i \in DOMAIN back.anims
        BY <2>2, <3>4
      <4>. HIDE DEF u, i, a
      <4>. QED  BY <3>2, <3>4, <4>1, StoppedIs DEF a
    <3>6. s' = IF f.gotoEnd THEN Resolve(RunTweens(u, i, "end"), i)
               ELSE [u EXCEPT !.anims[i].state = "rejected", !.anims[i].matches = FALSE]
      BY <1>2, <1>6, <2>4, <2>5, <3>4 DEF StopAnim
    <3>. HIDE DEF u
    <3>7. Nearly(s, u, i)
      BY <2>2, <3>2, <3>5 DEF Nearly, SameData, SameFlags
    <3>8. Swapped(s, u, gb)
      BY <3>2, <3>5 DEF Swapped, SameBelow
    <3>9. u.anims[i].state = "pending" /\ u.anims[i].e = e /\ i \in DOMAIN u.anims
      BY <2>2, <2>4, <2>5, <3>5 DEF Animation
    <3>10. s.anims[i].state = "pending"
      BY <2>4, <2>5
    <3>11. CASE f.gotoEnd
      <4>. DEFINE v == Ended(u, i, "resolved")
      <4>1. s' = Push(v, Complete(i))
        BY <3>5, <3>6, <3>9, <3>11, ResolveIs
      <4>2. v = Ended(u, i, "resolved") /\ "resolved" \in {"resolved", "rejected"}
        OBVIOUS
      <4>. HIDE DEF v, e, a, i
      <4>3. /\ v \in State /\ Over(s, v, i, e) /\ StackInv(v) /\ OthersWait(v, e) /\ Called(v, e)
            /\ Swapped(s, v, gb) /\ v.anims[i].state = "resolved"
            /\ "resolved" = "resolved" => EndsWell(s, v, i)
            /\ ~Open(gb) => NoOpen(v)
        BY <1>1, <2>2, <2>3, <3>1, <3>3, <3>5, <3>7, <3>8, <3>10, <3>f, <4>2, TurnKeeps
      <4>4. NoOpen(v) /\ EndsWell(s, v, i)
        BY <3>1, <3>11, <4>3 DEF Open
      <4>5. Inv(s') /\ Well(s, s')
        BY <1>1, <2>2, <2>3, <3>10, <4>1, <4>3, <4>4, CompleteKeeps
      <4>. QED  BY <4>5 DEF Keeps
    <3>12. CASE ~f.gotoEnd
      <4>. DEFINE v == Ended(u, i, "rejected")
      <4>1. s' = v
        <5>1. s' = [u EXCEPT !.anims[i].state = "rejected", !.anims[i].matches = FALSE]
          BY <3>6, <3>12
        <5>2. v = [u EXCEPT !.anims = [u.anims EXCEPT ![i] =
                     [u.anims[i] EXCEPT !.state = "rejected", !.matches = FALSE]], !.el = u.el]
          BY DEF Ended
        <5>. HIDE DEF i, v
        <5>3. s' = [u EXCEPT !.anims = [u.anims EXCEPT ![i] =
                     [u.anims[i] EXCEPT !.state = "rejected", !.matches = FALSE]]]
          BY <3>5, <3>9, <5>1 DEF State
        <5>. DEFINE q == [u.anims EXCEPT ![i] =
                     [u.anims[i] EXCEPT !.state = "rejected", !.matches = FALSE]]
        <5>4. v = [u EXCEPT !.anims = q, !.el = u.el] /\ s' = [u EXCEPT !.anims = q]
          BY <5>2, <5>3
        <5>. HIDE DEF q
        <5>. QED  BY <3>5, <5>4 DEF State
      <4>2. v = Ended(u, i, "rejected") /\ "rejected" \in {"resolved", "rejected"}
        OBVIOUS
      <4>. HIDE DEF v, e, a, i
      <4>3. /\ v \in State /\ Over(s, v, i, e) /\ StackInv(v) /\ OthersWait(v, e) /\ Called(v, e)
            /\ Swapped(s, v, gb) /\ v.anims[i].state = "rejected"
            /\ "rejected" = "resolved" => EndsWell(s, v, i)
            /\ ~Open(gb) => NoOpen(v)
        BY <1>1, <2>2, <2>3, <3>1, <3>3, <3>5, <3>7, <3>8, <3>10, <3>f, <4>2, TurnKeeps
      <4>4. Len(v.stack) \in DOMAIN v.stack /\ v.stack[Len(v.stack)] = gb
        BY <1>1, <4>3, StackTypes DEF Swapped
      <4>5. f.jobs = <<>>
        BY <1>3, <3>12, <3>f DEF FrameFits, IsStop
      <4>6. Wakes(v, gb, e)
        BY <2>5, <3>1, <3>12, <4>5 DEF Wakes, IsStop, e
      <4>7. Inv(v) /\ Well(s, v)
        BY <1>1, <2>2, <2>3, <4>3, <4>4, <4>6, RejectKeeps
      <4>. QED  BY <4>1, <4>7 DEF Keeps
    <3>. QED  BY <3>11, <3>12
  <2>6. CASE ~(a.matches /\ e = f.e)
    <3>1. s' = Swap(s, go)
      BY <1>2, <1>6, <2>6
    <3>2. /\ go \in StopFrame /\ go.at = "stop" /\ go.i = f.i - 1 /\ go.found = f.found
          /\ go.e = f.e /\ go.gotoEnd = f.gotoEnd /\ go.jobs = f.jobs /\ go \in Frames
          /\ go.timer = f.timer
      <4>1. f \in StopFrame /\ f.i - 1 \in Nat /\ f.at = "stop"
        BY <1>1, <1>3, <1>4
      <4>. HIDE DEF f
      <4>. QED  BY <4>1 DEF StopFrame, Frames
    <3>. HIDE DEF go
    <3>3. FrameFits(s, go) /\ ~IsTick(f) /\ ~IsTick(go) /\ IsStop(f) /\ IsStop(go)
      BY <1>1, <1>3, <3>2 DEF FrameFits, IsStop, IsTick
    <3>4. \A x : /\ Finishes(go, x) <=> Finishes(f, x)
                 /\ Holds(f, x) => Holds(go, x)
                 /\ Wakes(s, f, x) => Wakes(s, go, x)
      BY <1>1, <3>2 DEF Finishes, Holds, Wakes, Completes, IsStop
    <3>5. Ord(s) => StopFits(s, go)
      <4>. SUFFICES ASSUME Ord(s), ~f.found, NEW j \in Und(s, f.e)
           PROVE  \E p \in DOMAIN s.timers : p <= f.i - 1 /\ s.timers[p] = j
        <5>1. Ord(s) => StopFits(s, f)
          BY <1>1, <1>3 DEF StackInv, StopInv
        <5>. QED  BY <3>2, <3>3, <5>1 DEF StopFits
      <4>1. PICK p \in DOMAIN s.timers : p <= f.i /\ s.timers[p] = j
        BY <1>1, <1>3, <3>3 DEF StackInv, StopInv, StopFits
      <4>2. s.anims[j].matches /\ s.anims[j].e = f.e
        BY <1>1 DEF Und, DataInv, AnimInv
      <4>3. p # f.i
        BY <2>6, <4>1, <4>2
      <4>4. p \in Nat
        BY <1>1, <4>1, StackTypes
      <4>. QED  BY <1>4, <4>1, <4>3, <4>4
    <3>6. Follows(s, f, go)
      BY <1>1, <1>4, <1>6, <3>2, <3>3, <3>4, <3>5 DEF Follows
    <3>7. Inv(s') /\ NoneEnds(s, s')
      BY <1>1, <3>1, <3>2, <3>4, <3>6, SwapInv
    <3>. QED  BY <3>7, NoneEndsWell DEF Keeps
  <2>. QED  BY <2>5, <2>6
<1>. QED  BY <1>5, <1>6

(* What holds of a state whose queue e is being changed. *)
LEMMA RequeueOthers ==
  ASSUME NEW t \in State, NEW u \in State, NEW e \in Elems, Requeues(t, u, e),
         DataInv(t), StackInv(t), OthersWait(t, e)
  PROVE  /\ DataInv(u) /\ StackInv(u) /\ OthersWait(u, e) /\ NoneEnds(t, u)
         /\ \A x : Und(u, x) = Und(t, x)
         /\ u.stack = t.stack /\ u.timers = t.timers /\ u.anims = t.anims
<1>1. Lessens(t, u) /\ u.anims = t.anims /\ u.stack = t.stack /\ u.timers = t.timers
  BY DEF Requeues, Lessens
<1>2. DataInv(u)
  BY RequeueKeeps
<1>3. StackInv(u)
  BY <1>1, LessensKeeps
<1>4. \A x : Und(u, x) = Und(t, x)
  BY <1>1 DEF Und
<1>5. ASSUME NEW x \in Elems, x # e  PROVE  Waits(u, x)
  <2>1. SameQueue(t, u, x)
    BY <1>5 DEF Requeues, SameQueue
  <2>2. Waits(t, x)
    BY <1>5 DEF OthersWait
  <2>. QED  BY <1>1, <1>4, <2>1, <2>2, LessensWaits
<1>. QED  BY <1>1, <1>2, <1>3, <1>4, <1>5 DEF OthersWait, NoneEnds

LEMMA StopEndAction ==
  ASSUME Inv(s), StopEnd
  PROVE  Keeps
<1>. DEFINE f == s.stack[Len(s.stack)]  e == f.e  p == Pop(s)
            g == [at |-> "finish", e |-> f.e, jobs |-> f.jobs[1]]
<1>1. s \in State /\ DataInv(s) /\ StackInv(s) /\ s.stack # <<>> /\ f.at = "stop" /\ f.i = 0
  BY DEF Inv, JInv, StopEnd, At, Top
<1>2. s' = IF f.jobs # <<>> THEN Swap(s, g)
           ELSE IF ~f.found \/ ~f.gotoEnd THEN Dequeue(p, e) ELSE p
  BY DEF StopEnd, Top
<1>3. f \in StopFrame /\ Len(s.stack) \in DOMAIN s.stack /\ FrameFits(s, f)
  BY <1>1, TopIs DEF StackInv, FrameInv
<1>f. f = s.stack[Len(s.stack)] /\ e = f.e
  OBVIOUS
<1>4. e \in Elems /\ IsStop(f) /\ ~IsTick(f) /\ \A x : ~Completes(s, f, x)
  BY <1>1, <1>3 DEF StopFrame, IsStop, IsTick, Completes
<1>5. Ord(s) /\ (~f.found \/ ~f.gotoEnd \/ f.jobs # <<>>) => Und(s, e) = {}
  <2>1. Ord(s) => StopFits(s, f)
    BY <1>1, <1>3 DEF StackInv, StopInv
  <2>2. \A q \in DOMAIN s.timers : ~(q <= f.i)
    BY <1>1, StackTypes
  <2>. QED  BY <1>4, <2>1, <2>2 DEF StopFits
<1>6. CASE f.jobs # <<>>
  <2>1. /\ g \in FinishFrame /\ g.at = "finish" /\ g.e = e /\ g \in Frames
    <3>1. f.jobs[1] \in Seq(Entry)
      BY <1>3, <1>6 DEF StopFrame
    <3>. QED  BY <1>4, <3>1 DEF FinishFrame, Frames
  <2>2. s' = Swap(s, g)
    BY <1>2, <1>6
  <2>. HIDE DEF g
  <2>3. FrameFits(s, g) /\ StopFits(s, g) /\ ~IsTick(g) /\ ~IsStop(g)
    BY <2>1 DEF FrameFits, StopFits, IsStop, IsTick
  <2>4. \A x : Finishes(g, x) <=> Finishes(f, x)
    BY <1>1, <1>4, <1>6, <2>1, <2>3 DEF Finishes
  <2>5. \A x : Finishes(g, x) => x = e
    BY <2>1, <2>3 DEF Finishes
  <2>6. Follows(s, f, g)
    BY <1>1, <1>4, <1>5, <1>6, <2>1, <2>3, <2>4, <2>5 DEF Follows
  <2>7. \A x : (Holds(f, x) => Holds(g, x)) /\ ~Wakes(s, f, x)
    BY <1>1, <1>4, <1>6, <2>1, <2>4 DEF Holds, Wakes, Finishes
  <2>8. Inv(s') /\ NoneEnds(s, s')
    BY <1>1, <1>f, <2>1, <2>2, <2>6, <2>7, SwapInv
  <2>. QED  BY <2>8, NoneEndsWell DEF Keeps
<1>7. CASE f.jobs = <<>>
  <2>1. p \in State /\ SameData(s, p) /\ Popped(s, p) /\ p.inProgress = s.inProgress
    BY <1>1, PopIs
  <2>. HIDE DEF p, f, e
  <2>2. /\ \A x : ~Finishes(f, x)
        /\ \A x : Holds(f, x) => x = e /\ ~f.found
        /\ \A x : Wakes(s, f, x) => x = e /\ (~f.found \/ ~f.gotoEnd)
    BY <1>1, <1>4, <1>7, <1>f DEF Finishes, Holds, Wakes
  <2>3. DataInv(p) /\ StackInv(p) /\ NoOpen(p)
    <3>1. DataInv(p)
      BY <1>1, <2>1, SameDataKept
    <3>2. f.at # "halt"
      BY <1>1
    <3>. QED  BY <1>1, <1>f, <2>1, <2>2, <3>1, <3>2, PopKeeps DEF NoOpen
  <2>4. OthersWait(p, e)
    BY <1>1, <1>f, <2>1, <2>2, PopWaits DEF Inv, OthersWait
  <2>m. /\ \A x : Und(p, x) = Und(s, x)
        /\ (Ord(p) <=> Ord(s)) /\ p.anims = s.anims /\ p.el = s.el
        /\ \A h, x : Completes(p, h, x) <=> Completes(s, h, x)
    BY <2>1, SameMeaning
  <2>5. NoneEnds(s, p)
    BY <2>m DEF NoneEnds
  <2>6. CASE ~f.found \/ ~f.gotoEnd
    <3>1. s' = Dequeue(p, e)
      BY <1>2, <1>7, <2>6
    <3>2. NextMay(p, e)
      <4>. SUFFICES ASSUME Ord(p)
           PROVE  /\ Und(p, e) = {}
                  /\ Rest(p.el[e].queue) # <<>> =>
                       ~p.el[e].finishing /\ \A k \in DOMAIN p.stack : ~Completes(p, p.stack[k], e)
        BY DEF NextMay
      <4>1. Und(p, e) = {}
        BY <1>5, <2>6, <2>m
      <4>2. p.el[e].finishing => Rest(p.el[e].queue) = <<>>
        BY <1>4, <2>3 DEF DataInv, Quiet, Rest
      <4>3. ASSUME NEW k \in DOMAIN p.stack  PROVE  ~Completes(p, p.stack[k], e)
        <5>1. k \in DOMAIN s.stack /\ k < Len(s.stack) /\ p.stack[k] = s.stack[k]
          BY <1>1, <2>1, StackTypes DEF Popped, SameBelow
        <5>2. ~Completes(s, s.stack[k], e)
          BY <1>1, <1>3, <1>4, <1>7, <1>f, <2>m, <5>1 DEF StackInv, StopInv
        <5>. QED  BY <2>m, <5>1, <5>2
      <4>. QED  BY <4>1, <4>2, <4>3
    <3>3. s' \in State /\ DataInv(s') /\ StackInv(s') /\ AllWait(s') /\ NoneEnds(p, s')
      BY <1>4, <2>1, <2>3, <2>4, <3>1, <3>2, DequeueKeeps
    <3>4. NoneEnds(s, s')
      BY <2>5, <3>3 DEF NoneEnds
    <3>. QED  BY <3>3, <3>4, NoneEndsWell DEF Keeps, Inv, JInv, AllWait
  <2>7. CASE ~(~f.found \/ ~f.gotoEnd)
    <3>1. s' = p
      BY <1>2, <1>7, <2>7
    <3>2. Waits(p, e)
      BY <1>1, <1>4, <1>f, <2>1, <2>2, <2>7, PopWaits DEF Inv
    <3>. QED  BY <2>1, <2>3, <2>4, <2>5, <3>1, <3>2, NoneEndsWell DEF Keeps, Inv, JInv, OthersWait
  <2>. QED  BY <2>6, <2>7
<1>. QED  BY <1>6, <1>7

LEMMA CompleteReturnsAction ==
  ASSUME Inv(s), CompleteReturns
  PROVE  Keeps
<1>. DEFINE f == s.stack[Len(s.stack)]  e == s.anims[f.i].e  p == Pop(s)  n == Len(s.stack)
<1>1. s \in State /\ DataInv(s) /\ StackInv(s) /\ s.stack # <<>> /\ f.at = "complete"
  BY DEF Inv, JInv, CompleteReturns, At, Top
<1>2. s' = Dequeue(p, e)
  BY DEF CompleteReturns, Top
<1>3. n \in DOMAIN s.stack /\ FrameFits(s, f)
  BY <1>1, TopIs DEF StackInv, FrameInv
<1>4. e \in Elems
  <2>1. s.anims[f.i] \in Animation
    BY <1>1, <1>3 DEF FrameFits, State
  <2>. QED  BY <2>1 DEF Animation
<1>5. p \in State /\ SameData(s, p) /\ Popped(s, p) /\ p.inProgress = s.inProgress
  BY <1>1, PopIs
<1>f. f = s.stack[n] /\ n = Len(s.stack)
  OBVIOUS
<1>6. /\ \A x : ~Finishes(f, x) /\ ~Holds(f, x)
      /\ \A x : (Wakes(s, f, x) => x = e)
      /\ Completes(s, f, e) /\ ~IsTick(f) /\ f.at # "halt"
  BY <1>1 DEF Finishes, Holds, Wakes, Completes, IsTick, IsStop
<1>. HIDE DEF p, f, e
<1>7. DataInv(p) /\ StackInv(p) /\ NoOpen(p)
  <2>1. DataInv(p)
    BY <1>1, <1>5, SameDataKept
  <2>. QED  BY <1>1, <1>5, <1>6, <1>f, <2>1, PopKeeps DEF NoOpen
<1>8. OthersWait(p, e)
  BY <1>1, <1>5, <1>6, <1>f, PopWaits DEF Inv, OthersWait
<1>m. /\ \A x : Und(p, x) = Und(s, x)
      /\ (Ord(p) <=> Ord(s)) /\ p.anims = s.anims /\ p.el = s.el
      /\ \A h, x : Completes(p, h, x) <=> Completes(s, h, x)
  BY <1>5, SameMeaning
<1>9. NextMay(p, e)
  <2>. SUFFICES ASSUME Ord(p)
       PROVE  /\ Und(p, e) = {}
              /\ Rest(p.el[e].queue) # <<>> =>
                   ~p.el[e].finishing /\ \A k \in DOMAIN p.stack : ~Completes(p, p.stack[k], e)
    BY DEF NextMay
  <2>0. n \in Nat /\ \A k \in DOMAIN s.stack : ~(k > n)
    BY <1>1, <1>f, StackTypes
  <2>c. CallInv(s) /\ FinInv(s)
    BY <1>1, <1>m DEF StackInv
  <2>1. Und(p, e) = {}
    BY <1>3, <1>4, <1>6, <1>f, <1>m, <2>0, <2>c DEF CallInv
  <2>2. p.el[e].finishing => Rest(p.el[e].queue) = <<>>
    BY <1>4, <1>7 DEF DataInv, Quiet, Rest
  <2>3. ASSUME NEW k \in DOMAIN p.stack, Completes(p, p.stack[k], e)
        PROVE  p.el[e].finishing
    <3>1. k \in DOMAIN s.stack /\ n > k /\ p.stack[k] = s.stack[k]
      BY <1>1, <1>5, <1>f, StackTypes DEF Popped, SameBelow
    <3>2. Completes(s, s.stack[k], e)
      BY <1>m, <2>3, <3>1
    <3>3. PICK m \in DOMAIN s.stack : Finishes(s.stack[m], e)
      BY <1>3, <1>4, <1>6, <1>f, <2>c, <3>1, <3>2 DEF CallInv
    <3>. QED  BY <1>4, <1>m, <2>c, <3>3 DEF FinInv
  <2>. QED  BY <2>1, <2>2, <2>3
<1>10. s' \in State /\ DataInv(s') /\ StackInv(s') /\ AllWait(s') /\ NoneEnds(p, s')
  BY <1>2, <1>4, <1>5, <1>7, <1>8, <1>9, DequeueKeeps
<1>11. NoneEnds(s, s')
  BY <1>10, <1>m DEF NoneEnds
<1>. QED  BY <1>10, <1>11, NoneEndsWell DEF Keeps, Inv, JInv, AllWait

LEMMA FinishTurnAction ==
  ASSUME Inv(s), FinishTurn
  PROVE  Keeps
<1>. DEFINE f == s.stack[Len(s.stack)]  e == f.e  n == Len(s.stack)
            p == Pop(s)  u == [p EXCEPT !.el[e].finishing = FALSE]
            g == [f EXCEPT !.jobs = Tail(@)]  t == Swap(s, g)
<1>1. s \in State /\ DataInv(s) /\ StackInv(s) /\ s.stack # <<>> /\ f.at = "finish"
  BY DEF Inv, JInv, FinishTurn, At, Top
<1>2. s' = IF f.jobs = <<>> THEN u
           ELSE IF Head(f.jobs).kind \in Kinds THEN Begin(t, e, Head(f.jobs)) ELSE t
  BY DEF FinishTurn, Top
<1>3. f \in FinishFrame /\ n \in DOMAIN s.stack /\ n \in Nat /\ \A k \in DOMAIN s.stack : ~(k > n)
  BY <1>1, TopIs, StackTypes
<1>4. e \in Elems /\ f.jobs \in Seq(Entry)
  BY <1>3 DEF FinishFrame
<1>f. f = s.stack[n] /\ n = Len(s.stack) /\ e = f.e
  OBVIOUS
<1>5. /\ \A x : Finishes(f, x) <=> x = e
      /\ \A x : Holds(f, x) <=> x = e
      /\ \A x : ~Wakes(s, f, x) /\ ~Completes(s, f, x)
      /\ ~IsTick(f) /\ ~IsStop(f) /\ ~Open(f)
  BY <1>1 DEF Finishes, Holds, Wakes, Completes, IsTick, IsStop, Open
<1>6. Ord(s) => /\ Und(s, e) = {} /\ s.el[e].finishing
                /\ \A m \in DOMAIN s.stack : Finishes(s.stack[m], e) => m = n
  <2>. SUFFICES ASSUME Ord(s)
       PROVE  /\ Und(s, e) = {} /\ s.el[e].finishing
              /\ \A m \in DOMAIN s.stack : Finishes(s.stack[m], e) => m = n
    OBVIOUS
  <2>1. FinInv(s) /\ Finishes(f, e)
    BY <1>1, <1>5 DEF StackInv
  <2>. HIDE DEF f, e, n
  <2>. QED  BY <1>1, <1>3, <1>4, <1>f, <2>1 DEF FinInv
<1>7. \A k \in DOMAIN s.stack : ~Open(s.stack[k])
  BY <1>1, <1>5 DEF StackInv, FrameInv
<1>8. CASE f.jobs = <<>>
  <2>1. p \in State /\ SameData(s, p) /\ Popped(s, p) /\ p.inProgress = s.inProgress
    BY <1>1, PopIs
  <2>2. s' = u
    BY <1>2, <1>8
  <2>. HIDE DEF p, f, e, n
  <2>3. DataInv(p) /\ StackInv(p) /\ NoOpen(p)
    <3>1. DataInv(p)
      BY <1>1, <2>1, SameDataKept
    <3>2. f.at # "halt"
      BY <1>1
    <3>. QED  BY <1>1, <1>5, <1>6, <1>f, <2>1, <3>1, <3>2, PopKeeps DEF NoOpen
  <2>4. \A x \in Elems : Waits(p, x)
    BY <1>1, <1>5, <1>6, <1>f, <2>1, PopWaits DEF Inv
  <2>m. /\ \A x : Und(p, x) = Und(s, x)
        /\ (Ord(p) <=> Ord(s)) /\ p.anims = s.anims /\ p.el = s.el
    BY <2>1, SameMeaning
  <2>5. p.el[e] \in Element /\ p.el \in [Elems -> Element]
    BY <1>4, <2>1 DEF State
  <2>. DEFINE y == [p.el[e] EXCEPT !.finishing = FALSE]  el == [p.el EXCEPT ![e] = y]
  <2>6. /\ y \in Element /\ y.queue = p.el[e].queue /\ y.nap = p.el[e].nap
        /\ y.shown = p.el[e].shown /\ y.size = p.el[e].size /\ y.fxshow = p.el[e].fxshow
        /\ y.finishing = FALSE
    BY <2>5 DEF Element
  <2>7. u = [p EXCEPT !.el = el]
    OBVIOUS
  <2>. HIDE DEF y
  <2>8. el \in [Elems -> Element] /\ el[e] = y /\ \A x \in Elems : x # e => el[x] = p.el[x]
    BY <1>4, <2>5, <2>6
  <2>. HIDE DEF el, u
  <2>9. /\ u \in State /\ u.el = el /\ u.naps = p.naps /\ u.anims = p.anims
        /\ u.timers = p.timers /\ u.inProgress = p.inProgress /\ u.stack = p.stack
        /\ SameFlags(p, u)
    BY <2>1, <2>7, <2>8 DEF State, SameFlags
  <2>10. Ord(p) => \A k \in DOMAIN p.stack : ~Finishes(p.stack[k], e)
    <3>. SUFFICES ASSUME Ord(p), NEW k \in DOMAIN p.stack  PROVE ~Finishes(p.stack[k], e)
      OBVIOUS
    <3>1. /\ Len(s.stack) \in Nat /\ DOMAIN s.stack = 1..Len(s.stack)
          /\ DOMAIN p.stack = 1..Len(p.stack)
      BY <1>1, <2>1, StackTypes
    <3>2. Len(p.stack) = Len(s.stack) - 1 /\ SameBelow(s, p, Len(s.stack) - 1)
      BY <2>1 DEF Popped
    <3>3. k \in DOMAIN s.stack /\ k # n
      BY <1>f, <3>1, <3>2
    <3>4. p.stack[k] = s.stack[k]
      BY <3>1, <3>2 DEF SameBelow
    <3>. QED  BY <1>6, <2>m, <3>3, <3>4
  <2>11. Lessens(p, u)
    BY <2>8, <2>9, <2>10 DEF Lessens, Ord, SameFlags
  <2>12. Requeues(p, u, e)
    <3>1. \A j \in 2..Len(u.el[e].queue) : u.el[e].queue[j] # Sentinel
      BY <1>4, <2>3, <2>6, <2>8, <2>9 DEF DataInv, QueueInv
    <3>2. u.naps[e] > 0 => u.leaked
      BY <1>4, <2>3, <2>9 DEF DataInv, NapInv, SameFlags
    <3>3. Ord(u) => Und(p, e) = {}
      BY <1>6, <2>9, <2>m DEF Ord, SameFlags
    <3>4. /\ \A x \in Elems : x # e => u.el[x] = p.el[x] /\ u.naps[x] = p.naps[x]
          /\ u.el[e].shown = p.el[e].shown /\ u.el[e].size = p.el[e].size
          /\ u.el[e].fxshow = p.el[e].fxshow /\ ~u.el[e].finishing
      BY <2>6, <2>8, <2>9
    <3>. QED  BY <2>9, <2>11, <3>1, <3>2, <3>3, <3>4 DEF Requeues, SameFlags
  <2>13. /\ DataInv(u) /\ StackInv(u) /\ OthersWait(u, e) /\ NoneEnds(p, u)
         /\ \A x : Und(u, x) = Und(p, x)
    BY <1>4, <2>1, <2>3, <2>4, <2>9, <2>12, RequeueOthers DEF OthersWait
  <2>14. Waits(u, e)
    <3>1. SameQueue(p, u, e)
      BY <2>6, <2>8, <2>9 DEF SameQueue
    <3>. QED  BY <1>4, <2>1, <2>3, <2>4, <2>9, <2>11, <2>13, <3>1, LessensWaits
  <2>15. NoneEnds(s, u)
    BY <2>13, <2>m DEF NoneEnds
  <2>. QED  BY <2>2, <2>9, <2>13, <2>14, <2>15, NoneEndsWell DEF Keeps, Inv, JInv, OthersWait
<1>9. CASE f.jobs # <<>>
  <2>1. /\ Tail(f.jobs) \in Seq(Entry) /\ Head(f.jobs) \in Entry
    BY <1>4, <1>9
  <2>2. g \in FinishFrame /\ g \in Frames /\ g.at = "finish" /\ g.e = e
    <3>. HIDE DEF f
    <3>. QED  BY <1>3, <2>1 DEF FinishFrame, Frames
  <2>3. t \in State /\ SameData(s, t) /\ Swapped(s, t, g) /\ t.inProgress = s.inProgress
    BY <1>1, <2>2, SwapIs
  <2>t. t = Swap(s, g)
    OBVIOUS
  <2>. HIDE DEF g, t, f, e, n
  <2>4. /\ \A x : Finishes(g, x) <=> x = e
        /\ \A x : Holds(g, x) <=> x = e
        /\ ~IsTick(g) /\ ~IsStop(g) /\ ~Open(g)
        /\ \A z : ~Completes(s, g, z)
    BY <2>2 DEF Finishes, Holds, IsTick, IsStop, Open, Completes
  <2>5. Follows(s, f, g)
    BY <1>1, <1>5, <1>6, <2>2, <2>4 DEF Follows, FrameFits, StopFits
  <2>6. Inv(t) /\ NoneEnds(s, t)
    BY <1>1, <1>5, <1>f, <2>2, <2>4, <2>5, <2>t, SwapInv
  <2>7. CASE Head(f.jobs).kind \notin Kinds
    BY <1>2, <1>9, <2>6, <2>7, NoneEndsWell DEF Keeps
  <2>8. CASE Head(f.jobs).kind \in Kinds
    <3>1. s' = Begin(t, e, Head(f.jobs))
      BY <1>2, <1>9, <2>8
    <3>2. Head(f.jobs) \in Job
      BY <2>1, <2>8, EffectsAssumption DEF Entry, Sentinel
    <3>m. /\ \A x : Und(t, x) = Und(s, x)
          /\ (Ord(t) <=> Ord(s)) /\ t.anims = s.anims /\ t.el = s.el
          /\ \A h, x : Completes(t, h, x) <=> Completes(s, h, x)
      BY <2>3, SameMeaning
    <3>3. /\ DOMAIN t.stack = DOMAIN s.stack /\ t.stack[n] = g
          /\ \A k \in DOMAIN s.stack : k # n => t.stack[k] = s.stack[k]
      BY <1>1, <1>f, <2>3, StackTypes DEF Swapped, SameBelow
    <3>4. Ready(t, e)
      <4>1. \A k \in DOMAIN t.stack : ~Open(t.stack[k])
        BY <1>7, <2>4, <3>3
      <4>. SUFFICES ASSUME Ord(t)
           PROVE  /\ Und(t, e) = {} /\ ~t.el[e].nap
                  /\ \A k \in DOMAIN t.stack : Completes(t, t.stack[k], e) =>
                       \E m \in DOMAIN t.stack : m > k /\ Finishes(t.stack[m], e)
                  /\ \A k \in DOMAIN t.stack : Finishes(t.stack[k], e) => t.stack[k].at = "finish"
                  /\ \E k \in DOMAIN t.stack : Holds(t.stack[k], e)
        BY <4>1 DEF Ready
      <4>2. Und(t, e) = {} /\ ~t.el[e].nap
        BY <1>1, <1>4, <1>6, <3>m DEF DataInv, Quiet
      <4>3. ASSUME NEW k \in DOMAIN t.stack, Completes(t, t.stack[k], e)
            PROVE  n > k
        <5>1. k # n
          BY <2>4, <3>3, <3>m, <4>3
        <5>2. k \in Nat /\ ~(k > n)
          BY <1>1, <1>3, <3>3, StackTypes
        <5>. QED  BY <1>3, <5>1, <5>2
      <4>4. ASSUME NEW k \in DOMAIN t.stack, Finishes(t.stack[k], e)
            PROVE  t.stack[k].at = "finish"
        BY <1>6, <2>2, <3>3, <3>m, <4>4
      <4>. QED  BY <1>3, <2>4, <3>3, <4>2, <4>3, <4>4
    <3>5. DataInv(t) /\ StackInv(t) /\ OthersWait(t, e)
      BY <2>6 DEF Inv, JInv, OthersWait
    <3>6. s' \in State /\ DataInv(s') /\ StackInv(s') /\ AllWait(s') /\ NoneEnds(t, s')
      BY <1>4, <2>3, <3>1, <3>2, <3>4, <3>5, BeginKeeps
    <3>7. NoneEnds(s, s')
      BY <2>6, <3>6 DEF NoneEnds
    <3>. QED  BY <3>6, <3>7, NoneEndsWell DEF Keeps, Inv, JInv, AllWait
  <2>. QED  BY <2>7, <2>8
<1>. QED  BY <1>8, <1>9

(* The element data of e was touched, the rest was not, except that the call
   may have been made where nobody expects it. *)
Retouched(t, u, e) ==
  /\ u.naps = t.naps /\ u.anims = t.anims /\ u.timers = t.timers /\ u.stack = t.stack
  /\ u.inProgress = t.inProgress /\ u.leaked = t.leaked /\ u.rerun = t.rerun
  /\ u.derailed = t.derailed /\ (t.hurried => u.hurried)
  /\ \A x \in Elems : x # e => u.el[x] = t.el[x]
  /\ u.el[e].shown = t.el[e].shown /\ u.el[e].size = t.el[e].size
  /\ u.el[e].fxshow = t.el[e].fxshow
  /\ t.el[e].finishing => u.el[e].finishing

LEMMA RetouchIs ==
  ASSUME NEW t \in State, NEW u \in State, NEW e \in Elems, DataInv(t), Retouched(t, u, e),
         Tailed(u.el[e].queue),
         Ord(u) => /\ u.el[e].nap => Und(t, e) = {}
                   /\ u.el[e].finishing => u.el[e].queue = <<>> /\ ~u.el[e].nap
  PROVE  Requeues(t, u, e)
<1>1. Ord(u) => Ord(t)
  BY DEF Retouched, Ord
<1>2. \A x \in Elems : t.el[x].finishing => u.el[x].finishing
  BY DEF Retouched
<1>3. Lessens(t, u)
  BY <1>1, <1>2 DEF Retouched, Lessens
<1>4. u.naps[e] > 0 => u.leaked
  BY DEF Retouched, DataInv, NapInv
<1>5. \A j \in 2..Len(u.el[e].queue) : u.el[e].queue[j] # Sentinel
  BY DEF Tailed
<1>. QED  BY <1>3, <1>4, <1>5 DEF Requeues, Retouched

LEMMA QueuesTailed ==
  ASSUME NEW t \in State, DataInv(t), NEW x \in Elems
  PROVE  Tailed(t.el[x].queue) /\ t.el[x] \in Element /\ t.el[x].queue \in Seq(Entry)
BY DEF State, Element, DataInv, QueueInv, Tailed

LEMMA UnhookIs ==
  ASSUME NEW t \in State, NEW e \in Elems, NEW u, u = StopHook(t, e)
  PROVE  /\ u \in State /\ Retouched(t, u, e) /\ u.hurried = t.hurried
         /\ u.el[e].queue = t.el[e].queue /\ ~u.el[e].nap
         /\ u.el[e].finishing = t.el[e].finishing
<1>. DEFINE y == [t.el[e] EXCEPT !.nap = FALSE]  el == [t.el EXCEPT ![e] = y]
<1>1. t.el[e] \in Element /\ t.el \in [Elems -> Element]
  BY DEF State
<1>2. /\ y \in Element /\ y.queue = t.el[e].queue /\ ~y.nap
      /\ y.shown = t.el[e].shown /\ y.size = t.el[e].size /\ y.fxshow = t.el[e].fxshow
      /\ y.finishing = t.el[e].finishing
  BY <1>1 DEF Element
<1>3. u = [t EXCEPT !.el = el]
  BY DEF StopHook
<1>. HIDE DEF y
<1>4. el \in [Elems -> Element] /\ el[e] = y /\ \A x \in Elems : x # e => el[x] = t.el[x]
  BY <1>1, <1>2
<1>. HIDE DEF el
<1>5. /\ u \in State /\ u.el = el /\ u.naps = t.naps /\ u.anims = t.anims
      /\ u.timers = t.timers /\ u.inProgress = t.inProgress /\ u.stack = t.stack
      /\ SameFlags(t, u)
  BY <1>3, <1>4 DEF State, SameFlags
<1>. QED  BY <1>2, <1>4, <1>5 DEF Retouched, SameFlags

LEMMA TimeoutAction ==
  ASSUME Inv(s), NEW e \in Elems, Timeout(e)
  PROVE  Keeps
<1>1. s \in State /\ DataInv(s) /\ StackInv(s) /\ OthersWait(s, e)
  BY DEF Inv, JInv, OthersWait
<1>2. s.stack = <<>>
  BY DEF Timeout
<1>3. DOMAIN s.stack = {}
  BY <1>1, <1>2, StackTypes
<1>4. ASSUME NEW t \in State, Requeues(s, t, e), s' = Dequeue(t, e),
             Ord(t) => Und(t, e) = {} /\ ~t.el[e].finishing
      PROVE  Keeps
  <2>1. /\ DataInv(t) /\ StackInv(t) /\ OthersWait(t, e) /\ NoneEnds(s, t)
        /\ t.stack = s.stack
    BY <1>1, <1>4, RequeueOthers
  <2>2. NoOpen(t) /\ NextMay(t, e)
    BY <1>3, <1>4, <2>1 DEF NoOpen, NextMay
  <2>3. s' \in State /\ DataInv(s') /\ StackInv(s') /\ AllWait(s') /\ NoneEnds(t, s')
    BY <1>4, <2>1, <2>2, DequeueKeeps
  <2>4. NoneEnds(s, s')
    BY <2>1, <2>3 DEF NoneEnds
  <2>. QED  BY <2>3, <2>4, NoneEndsWell DEF Keeps, Inv, JInv, AllWait
<1>5. CASE s.el[e].nap /\ s' = Dequeue(StopHook(s, e), e)
  <2>1. PICK t : t = StopHook(s, e)
    OBVIOUS
  <2>2. /\ t \in State /\ Retouched(s, t, e) /\ t.hurried = s.hurried
        /\ t.el[e].queue = s.el[e].queue /\ ~t.el[e].nap
        /\ t.el[e].finishing = s.el[e].finishing
    BY <1>1, <2>1, UnhookIs
  <2>3. Ord(t) => Ord(s)
    BY <2>2 DEF Ord, Retouched
  <2>4. Ord(s) => Und(s, e) = {} /\ ~s.el[e].finishing
    BY <1>1, <1>5 DEF DataInv, One, Quiet
  <2>5. Und(t, e) = Und(s, e)
    BY <2>2 DEF Retouched, Und
  <2>6. Tailed(t.el[e].queue)
    BY <1>1, <2>2, QueuesTailed
  <2>7. Requeues(s, t, e)
    BY <1>1, <2>2, <2>3, <2>4, <2>6, RetouchIs
  <2>. QED  BY <1>4, <1>5, <2>1, <2>2, <2>3, <2>4, <2>5, <2>7
<1>6. CASE s.naps[e] > 0 /\ s' = Dequeue([s EXCEPT !.naps[e] = @ - 1], e)
  <2>1. PICK t : t = [s EXCEPT !.naps[e] = @ - 1]
    OBVIOUS
  <2>2. s.naps \in [Elems -> Nat] /\ s.leaked
    BY <1>1, <1>6 DEF State, DataInv, NapInv
  <2>. DEFINE naps == [s.naps EXCEPT ![e] = s.naps[e] - 1]
  <2>3. naps \in [Elems -> Nat] /\ \A x \in Elems : x # e => naps[x] = s.naps[x]
    <3>1. s.naps[e] - 1 \in Nat
      BY <1>6, <2>2
    <3>. QED  BY <2>2, <3>1
  <2>4. t = [s EXCEPT !.naps = naps]
    BY <2>1
  <2>. HIDE DEF naps
  <2>5. /\ t \in State /\ t.el = s.el /\ t.naps = naps /\ t.anims = s.anims
        /\ t.timers = s.timers /\ t.inProgress = s.inProgress /\ t.stack = s.stack
        /\ SameFlags(s, t)
    BY <1>1, <2>3, <2>4 DEF State, SameFlags
  <2>6. ~Ord(t) /\ t.leaked
    BY <2>2, <2>5 DEF Ord, SameFlags
  <2>7. Lessens(s, t)
    BY <2>5, <2>6 DEF Lessens, SameFlags
  <2>8. \A j \in 2..Len(t.el[e].queue) : t.el[e].queue[j] # Sentinel
    BY <1>1, <2>5 DEF DataInv, QueueInv
  <2>9. Requeues(s, t, e)
    BY <2>3, <2>5, <2>6, <2>7, <2>8 DEF Requeues, SameFlags
  <2>. QED  BY <1>4, <1>6, <2>1, <2>5, <2>6, <2>9
<1>. QED  BY <1>5, <1>6 DEF Timeout

LEMMA UserCodeIs ==
  ASSUME Inv(s), UserCode
  PROVE  NoOpen(s)
<1>1. s \in State /\ FrameInv(s)
  BY DEF Inv, JInv, StackInv
<1>2. DOMAIN s.stack = 1..Len(s.stack) /\ (s.stack # <<>> <=> Len(s.stack) > 0) /\ Len(s.stack) \in Nat
  BY <1>1, StackTypes
<1>3. ASSUME NEW k \in DOMAIN s.stack, Open(s.stack[k])  PROVE FALSE
  <2>1. k = Len(s.stack)
    BY <1>1, <1>3 DEF FrameInv
  <2>2. s.stack # <<>>
    BY <1>2, <1>3
  <2>3. s.stack[k].at = "complete"
    BY <2>1, <2>2 DEF UserCode, Top
  <2>. QED  BY <1>3, <2>3 DEF Open
<1>. QED  BY <1>3 DEF NoOpen

LEMMA AppendTailed ==
  ASSUME NEW q \in Seq(Entry), Tailed(q), NEW job \in Job \cup {DelayJob}
  PROVE  /\ Append(q, job) \in Seq(Entry) /\ Append(q, job) # <<>>
         /\ Append(q, job)[1] = Sentinel => q # <<>> /\ q[1] = Sentinel
         /\ q # <<>> => Append(q, job)[1] = q[1]
         /\ Tailed(Append(q, job))
<1>1. job \in Entry /\ job # Sentinel
  BY EffectsAssumption DEF Entry, Job, DelayJob, Sentinel
<1>2. /\ Append(q, job) \in Seq(Entry) /\ Len(Append(q, job)) = Len(q) + 1 /\ Len(q) \in Nat
      /\ \A j \in 1..Len(q) : Append(q, job)[j] = q[j]
      /\ Append(q, job)[Len(q) + 1] = job
      /\ (q = <<>> <=> Len(q) = 0)
  BY <1>1
<1>. DEFINE r == Append(q, job)
<1>. HIDE DEF r
<1>3. Tailed(Append(q, job))
  <2>. SUFFICES ASSUME NEW j \in 2..Len(Append(q, job))  PROVE Append(q, job)[j] # Sentinel
    BY DEF Tailed
  <2>1. CASE j = Len(q) + 1
    BY <1>1, <1>2, <2>1
  <2>2. CASE j # Len(q) + 1
    <3>1. j \in 2..Len(q) /\ j \in 1..Len(q)
      BY <1>2, <2>2
    <3>. QED  BY <1>2, <3>1 DEF Tailed
  <2>. QED  BY <2>1, <2>2
<1>4. Append(q, job) # <<>>
  BY <1>2
<1>5. q # <<>> => Append(q, job)[1] = q[1]
  BY <1>2
<1>6. q = <<>> => Append(q, job)[1] = job
  BY <1>2
<1>. QED  BY <1>1, <1>2, <1>3, <1>4, <1>5, <1>6

(* Nobody waits for the queue of e while its head is not the sentinel and no
   loop is about to go on with it. *)
LEMMA BareIs ==
  ASSUME Inv(s), NoOpen(s), NEW e \in Elems, Ord(s), ~Amid(e), ~Headed(s, e)
  PROVE  Und(s, e) = {} /\ ~s.el[e].finishing
         /\ \A k \in DOMAIN s.stack : ~Completes(s, s.stack[k], e)
<1>1. FinInv(s) /\ Waited(s, e) /\ ~s.el[e].finishing /\ ~InOwnCallback(e)
  BY DEF Inv, JInv, StackInv, Waits, Amid
<1>2. ASSUME NEW k \in DOMAIN s.stack, Holds(s.stack[k], e)  PROVE FALSE
  <2>1. ~Finishes(s.stack[k], e)
    BY <1>1 DEF FinInv
  <2>2. s.stack[k].at # "stop"
    BY DEF NoOpen, Open
  <2>. QED  BY <1>2, <2>1, <2>2 DEF Holds
<1>. QED  BY <1>1, <1>2 DEF Waited, InOwnCallback, Completes

LEMMA EnqueueKeeps ==
  ASSUME Inv(s), UserCode, NEW e \in Elems, NEW job \in Job \cup {DelayJob},
         s' = Enqueue(e, job)
  PROVE  Keeps
<1>1. s \in State /\ DataInv(s) /\ StackInv(s) /\ OthersWait(s, e) /\ Waits(s, e) /\ NoOpen(s)
  BY UserCodeIs DEF Inv, JInv, OthersWait
<1>2. Tailed(s.el[e].queue) /\ s.el[e] \in Element /\ s.el[e].queue \in Seq(Entry)
  BY <1>1, QueuesTailed
<1>3. PICK q : q = Append(s.el[e].queue, job)
  OBVIOUS
<1>4. /\ q \in Seq(Entry) /\ Tailed(q) /\ q # <<>>
      /\ q[1] = Sentinel => s.el[e].queue # <<>> /\ s.el[e].queue[1] = Sentinel
      /\ s.el[e].queue # <<>> => q[1] = s.el[e].queue[1]
  BY <1>2, <1>3, AppendTailed
<1>. DEFINE y == [s.el[e] EXCEPT !.queue = q]
<1>5. /\ y \in Element
      /\ y.queue = q /\ y.nap = s.el[e].nap /\ y.finishing = s.el[e].finishing
      /\ y.shown = s.el[e].shown /\ y.size = s.el[e].size /\ y.fxshow = s.el[e].fxshow
  BY <1>2, <1>4 DEF Element
<1>. DEFINE el == [s.el EXCEPT ![e] = y]
<1>e. el = [s.el EXCEPT ![e] = [s.el[e] EXCEPT !.queue = q]]
  OBVIOUS
<1>. HIDE DEF y
<1>6. el \in [Elems -> Element] /\ el[e] = y /\ \A x \in Elems : x # e => el[x] = s.el[x]
  <2>1. s.el \in [Elems -> Element]
    BY <1>1 DEF State
  <2>. QED  BY <1>5, <2>1
<1>. HIDE DEF el
<1>7. PICK t : t = [s EXCEPT !.el = el]
  OBVIOUS
<1>8. t = [s EXCEPT !.el[e].queue = Append(@, job)]
  BY <1>3, <1>7, <1>e
<1>9. /\ t \in State /\ t.el = el /\ t.naps = s.naps /\ t.anims = s.anims
      /\ t.timers = s.timers /\ t.inProgress = s.inProgress /\ t.stack = s.stack
      /\ SameFlags(s, t)
  BY <1>1, <1>6, <1>7 DEF State, SameFlags
<1>10. PICK h \in BOOLEAN : h = (s.hurried \/ Amid(e))
  BY <1>1 DEF State
<1>11. s' = IF q[1] # Sentinel THEN Dequeue([t EXCEPT !.hurried = h], e) ELSE t
  <2>1. t.hurried = s.hurried /\ t.el[e].queue = q
    BY <1>5, <1>6, <1>9 DEF SameFlags
  <2>. QED  BY <1>8, <1>10, <2>1 DEF Enqueue
<1>12. CASE q[1] # Sentinel
  <2>1. PICK w : w = [t EXCEPT !.hurried = h]
    OBVIOUS
  <2>2. /\ w \in State /\ w.el = el /\ w.naps = s.naps /\ w.anims = s.anims
        /\ w.timers = s.timers /\ w.inProgress = s.inProgress /\ w.stack = s.stack
        /\ w.leaked = s.leaked /\ w.rerun = s.rerun /\ w.derailed = s.derailed /\ w.hurried = h
    BY <1>9, <2>1 DEF State, SameFlags
  <2>3. Retouched(s, w, e)
    BY <1>5, <1>6, <1>10, <2>2 DEF Retouched
  <2>4. Ord(w) => Ord(s) /\ ~Amid(e)
    BY <1>10, <2>2 DEF Ord
  <2>5. ~Headed(s, e)
    BY <1>4, <1>12 DEF Headed
  <2>6. Ord(w) => /\ Und(s, e) = {} /\ ~s.el[e].finishing
                  /\ \A k \in DOMAIN s.stack : ~Completes(s, s.stack[k], e)
    BY <1>1, <2>4, <2>5, BareIs
  <2>7. Tailed(w.el[e].queue) /\ w.el[e].finishing = s.el[e].finishing
    BY <1>4, <1>5, <1>6, <2>2
  <2>8. Requeues(s, w, e)
    BY <1>1, <2>2, <2>3, <2>6, <2>7, RetouchIs
  <2>9. /\ DataInv(w) /\ StackInv(w) /\ OthersWait(w, e) /\ NoneEnds(s, w)
        /\ \A x : Und(w, x) = Und(s, x)
    BY <1>1, <2>2, <2>8, RequeueOthers
  <2>10. \A k \in DOMAIN s.stack : Completes(w, s.stack[k], e) <=> Completes(s, s.stack[k], e)
    BY <2>2 DEF Completes
  <2>11. NoOpen(w) /\ NextMay(w, e)
    BY <1>1, <2>2, <2>6, <2>7, <2>9, <2>10 DEF NoOpen, NextMay
  <2>12. s' = Dequeue(w, e)
    BY <1>11, <1>12, <2>1
  <2>13. s' \in State /\ DataInv(s') /\ StackInv(s') /\ AllWait(s') /\ NoneEnds(w, s')
    BY <2>2, <2>9, <2>11, <2>12, DequeueKeeps
  <2>14. NoneEnds(s, s')
    BY <2>9, <2>13 DEF NoneEnds
  <2>. QED  BY <2>13, <2>14, NoneEndsWell DEF Keeps, Inv, JInv, AllWait
<1>13. CASE q[1] = Sentinel
  <2>1. s' = t
    BY <1>11, <1>13
  <2>2. s.el[e].queue # <<>> /\ t.el[e] = y
    BY <1>4, <1>6, <1>9, <1>13
  <2>3. Retouched(s, t, e)
    BY <1>5, <1>6, <1>9 DEF Retouched, SameFlags
  <2>4. Ord(t) <=> Ord(s)
    BY <1>9 DEF Ord, SameFlags
  <2>5. Ord(t) => /\ t.el[e].nap => Und(s, e) = {}
                  /\ ~t.el[e].finishing
    BY <1>1, <1>5, <2>2, <2>4 DEF DataInv, One, Quiet
  <2>6. Requeues(s, t, e)
    BY <1>1, <1>4, <1>5, <1>9, <2>2, <2>3, <2>5, RetouchIs
  <2>7. /\ DataInv(t) /\ StackInv(t) /\ OthersWait(t, e) /\ NoneEnds(s, t)
        /\ \A x : Und(t, x) = Und(s, x)
    BY <1>1, <1>9, <2>6, RequeueOthers
  <2>8. Waited(t, e)
    BY <1>4, <1>5, <1>13, <2>2 DEF Waited, Headed
  <2>9. ~t.derailed => Unstuck(t, e)
    <3>1. \A f : Wakes(t, f, e) <=> Wakes(s, f, e)
      BY <1>9 DEF Wakes, Completes
    <3>2. t.derailed = s.derailed
      BY <1>9 DEF SameFlags
    <3>3. t.el[e].nap = s.el[e].nap
      BY <1>5, <2>2
    <3>. QED  BY <1>1, <1>9, <2>2, <2>7, <3>1, <3>2, <3>3 DEF Waits, Unstuck
  <2>10. Waits(t, e)
    BY <2>8, <2>9 DEF Waits
  <2>. QED  BY <1>9, <2>1, <2>7, <2>10, NoneEndsWell DEF Keeps, Inv, JInv, OthersWait
<1>. QED  BY <1>12, <1>13

(* clearQueue() and dequeue(): where nobody is in the way of the next one. *)
LEMMA CalledKeeps ==
  ASSUME Inv(s), UserCode, NEW e \in Elems, NEW w \in State, Requeues(s, w, e),
         s' = Dequeue(w, e), NextMay(w, e)
  PROVE  Keeps
<1>1. s \in State /\ DataInv(s) /\ StackInv(s) /\ OthersWait(s, e) /\ NoOpen(s)
  BY UserCodeIs DEF Inv, JInv, OthersWait
<1>2. /\ DataInv(w) /\ StackInv(w) /\ OthersWait(w, e) /\ NoneEnds(s, w) /\ w.stack = s.stack
  BY <1>1, RequeueOthers
<1>3. NoOpen(w)
  BY <1>1, <1>2 DEF NoOpen
<1>4. s' \in State /\ DataInv(s') /\ StackInv(s') /\ AllWait(s') /\ NoneEnds(w, s')
  BY <1>2, <1>3, DequeueKeeps
<1>5. NoneEnds(s, s')
  BY <1>2, <1>4 DEF NoneEnds
<1>. QED  BY <1>4, <1>5, NoneEndsWell DEF Keeps, Inv, JInv, AllWait

LEMMA ClearQueueAction ==
  ASSUME Inv(s), NEW e \in Elems, ClearQueue(e)
  PROVE  Keeps
<1>1. s \in State /\ DataInv(s) /\ UserCode
  BY DEF Inv, JInv, ClearQueue, Call
<1>2. PICK h \in BOOLEAN : h = (s.hurried \/ Running(e))
  BY <1>1 DEF State
<1>. DEFINE y == [s.el[e] EXCEPT !.queue = <<>>]  el == [s.el EXCEPT ![e] = y]
<1>3. s.el[e] \in Element /\ s.el \in [Elems -> Element] /\ <<>> \in Seq(Entry)
  BY <1>1 DEF State
<1>4. /\ y \in Element /\ y.queue = <<>> /\ y.nap = s.el[e].nap
      /\ y.shown = s.el[e].shown /\ y.size = s.el[e].size /\ y.fxshow = s.el[e].fxshow
      /\ y.finishing = s.el[e].finishing
  BY <1>3 DEF Element
<1>5. PICK w : w = [s EXCEPT !.el[e].queue = <<>>, !.hurried = h]
  OBVIOUS
<1>6. w = [s EXCEPT !.el = el, !.hurried = h]
  BY <1>1, <1>3, <1>5 DEF State
<1>7. s' = Dequeue(w, e)
  BY <1>2, <1>5 DEF ClearQueue
<1>. HIDE DEF y
<1>8. el \in [Elems -> Element] /\ el[e] = y /\ \A x \in Elems : x # e => el[x] = s.el[x]
  BY <1>3, <1>4
<1>. HIDE DEF el
<1>9. /\ w \in State /\ w.el = el /\ w.naps = s.naps /\ w.anims = s.anims
      /\ w.timers = s.timers /\ w.inProgress = s.inProgress /\ w.stack = s.stack
      /\ w.leaked = s.leaked /\ w.rerun = s.rerun /\ w.derailed = s.derailed /\ w.hurried = h
  BY <1>1, <1>6, <1>8 DEF State
<1>10. Retouched(s, w, e)
  BY <1>2, <1>4, <1>8, <1>9 DEF Retouched
<1>11. w.el[e].queue = <<>> /\ w.el[e].nap = s.el[e].nap /\ w.el[e].finishing = s.el[e].finishing
  BY <1>4, <1>8, <1>9
<1>12. Ord(w) => Ord(s) /\ Und(s, e) = {}
  BY <1>2, <1>9 DEF Ord, Running, Und
<1>13. Tailed(w.el[e].queue)
  BY <1>11 DEF Tailed
<1>14. Ord(w) => (w.el[e].finishing => ~w.el[e].nap)
  BY <1>1, <1>11, <1>12 DEF DataInv, Quiet
<1>15. Requeues(s, w, e)
  BY <1>1, <1>9, <1>10, <1>11, <1>12, <1>13, <1>14, RetouchIs
<1>16. Und(w, e) = Und(s, e)
  BY <1>9 DEF Und
<1>17. NextMay(w, e)
  BY <1>11, <1>12, <1>16 DEF NextMay, Rest
<1>. QED  BY <1>1, <1>7, <1>9, <1>15, <1>17, CalledKeeps

LEMMA DequeueCallAction ==
  ASSUME Inv(s), NEW e \in Elems, DequeueCall(e)
  PROVE  Keeps
<1>1. s \in State /\ DataInv(s) /\ UserCode
  BY DEF Inv, JInv, DequeueCall, Call
<1>2. PICK h \in BOOLEAN : h = (s.hurried \/ Running(e) \/ Amid(e))
  BY <1>1 DEF State
<1>3. PICK w : w = [s EXCEPT !.hurried = h]
  OBVIOUS
<1>4. s' = Dequeue(w, e)
  BY <1>2, <1>3 DEF DequeueCall
<1>5. /\ w \in State /\ w.el = s.el /\ w.naps = s.naps /\ w.anims = s.anims
      /\ w.timers = s.timers /\ w.inProgress = s.inProgress /\ w.stack = s.stack
      /\ w.leaked = s.leaked /\ w.rerun = s.rerun /\ w.derailed = s.derailed /\ w.hurried = h
  BY <1>1, <1>3 DEF State
<1>6. Retouched(s, w, e)
  BY <1>2, <1>5 DEF Retouched
<1>7. Ord(w) => /\ Und(s, e) = {} /\ ~s.el[e].finishing
                /\ \A k \in DOMAIN s.stack : ~Completes(s, s.stack[k], e)
  BY <1>2, <1>5 DEF Ord, Running, Und, Amid, InOwnCallback, Completes
<1>8. Tailed(w.el[e].queue)
  BY <1>1, <1>5, QueuesTailed
<1>9. Requeues(s, w, e)
  BY <1>1, <1>5, <1>6, <1>7, <1>8, RetouchIs
<1>10. Und(w, e) = Und(s, e) /\ \A f : Completes(w, f, e) <=> Completes(s, f, e)
  BY <1>5 DEF Und, Completes
<1>11. NextMay(w, e)
  BY <1>5, <1>7, <1>10 DEF NextMay
<1>. QED  BY <1>1, <1>4, <1>5, <1>9, <1>11, CalledKeeps

LEMMA CallbackThrowsAction ==
  ASSUME Inv(s), CallbackThrows
  PROVE  Keeps
<1>1. s \in State
  BY DEF Inv, JInv
<1>2. PICK u : u = [s EXCEPT !.derailed = TRUE]
  OBVIOUS
<1>3. u \in State /\ Derails(s, u)
  BY <1>1, <1>2 DEF State, Derails
<1>4. Inv(u) /\ NoneEnds(s, u)
  BY <1>1, <1>3, DerailedInv
<1>5. s' = [u EXCEPT !.stack = <<>>]
  BY <1>1, <1>2 DEF CallbackThrows, State
<1>6. Inv(s') /\ NoneEnds(u, s')
  BY <1>3, <1>4, <1>5, EmptiedInv DEF Derails
<1>7. NoneEnds(s, s')
  BY <1>4, <1>6 DEF NoneEnds
<1>. QED  BY <1>6, <1>7, NoneEndsWell DEF Keeps

(* A call of stop or finish enters its loop. *)
LEMMA LoopInv ==
  ASSUME NEW t \in State, DataInv(t), StackInv(t), NEW e \in Elems, OthersWait(t, e),
         NEW f \in StopFrame, f.at = "stop", f.e = e, ~f.found, Enters(t, f),
         t.el[e].queue # <<>> => f.jobs = <<>>,
         NEW u, u = Push(t, f)
  PROVE  Inv(u) /\ NoneEnds(t, u)
<1>1. f \in Frames /\ ~IsTick(f) /\ IsStop(f)
  BY DEF Frames, IsTick, IsStop
<1>2. u \in State /\ SameData(t, u) /\ Pushed(t, u, f) /\ u.inProgress = t.inProgress
  BY <1>1, PushIs
<1>3. DataInv(u) /\ StackInv(u)
  BY <1>1, <1>2, PushKeeps, SameDataKept
<1>4. \A x \in Elems : x # e => Waits(u, x)
  BY <1>2, PushWaits DEF OthersWait
<1>m. \A x : Und(u, x) = Und(t, x) /\ u.el = t.el
  BY <1>2, SameMeaning
<1>5. PICK k \in DOMAIN u.stack : u.stack[k] = f
  <2>1. Len(t.stack) \in Nat /\ DOMAIN u.stack = 1..Len(u.stack)
    BY <1>2, StackTypes
  <2>. QED  BY <1>2, <2>1 DEF Pushed
<1>6. Holds(f, e) /\ (f.jobs = <<>> => Wakes(u, f, e))
  BY <1>1 DEF Holds, Wakes
<1>7. Waits(u, e)
  BY <1>5, <1>6, <1>m DEF Waits, Waited, Unstuck
<1>8. NoneEnds(t, u)
  BY <1>2 DEF NoneEnds, SameData
<1>. QED  BY <1>2, <1>3, <1>4, <1>7, <1>8 DEF Inv, JInv

LEMMA LoopIs ==
  ASSUME s \in State, NEW e \in Elems, NEW gotoEnd \in BOOLEAN,
         NEW jobs \in {<<>>} \cup {<<q>> : q \in Seq(Entry)},
         NEW f, f = Loop(e, gotoEnd, jobs)
  PROVE  /\ f \in StopFrame /\ f.at = "stop" /\ f.e = e /\ ~f.found /\ f.jobs = jobs
         /\ f.gotoEnd = gotoEnd /\ f.i = Len(s.timers)
<1>1. Len(s.timers) \in Nat
  BY StackTypes
<1>. QED  BY <1>1 DEF Loop, StopFrame

LEMMA LoopEnters ==
  ASSUME NEW t \in State, DataInv(t), NEW e \in Elems, NoOpen(t),
         NEW f \in StopFrame, f.at = "stop", f.e = e, ~f.found, f.i = Len(t.timers),
         f.jobs # <<>> => f.gotoEnd,
         Ord(t) => IF f.jobs = <<>> THEN \A k \in DOMAIN t.stack : ~Completes(t, t.stack[k], e)
                   ELSE t.el[e].finishing /\ \A k \in DOMAIN t.stack : ~Finishes(t.stack[k], e)
  PROVE  Enters(t, f)
<1>1. f \in Frames /\ ~IsTick(f) /\ IsStop(f)
  BY DEF Frames, IsTick, IsStop
<1>2. FrameFits(t, f)
  BY DEF FrameFits
<1>3. Len(t.timers) \in Nat /\ DOMAIN t.timers = 1..Len(t.timers)
  BY StackTypes
<1>4. Ord(t) => StopFits(t, f)
  <2>1. Ord(t) => Listed(t)
    BY DEF DataInv, Ord
  <2>. QED  BY <1>3, <2>1 DEF StopFits, Listed
<1>5. \A x : /\ Finishes(f, x) => x = e /\ f.jobs # <<>>
             /\ ~Completes(t, f, x)
  BY DEF Finishes, Completes
<1>6. \A k \in DOMAIN t.stack : ~Open(t.stack[k])
  BY DEF NoOpen
<1>7. ~t.derailed => (f.at = "stop" => f.i <= Len(t.timers))
  BY <1>3
<1>. QED  BY <1>1, <1>2, <1>4, <1>5, <1>6, <1>7 DEF Enters

(* What stop() has done when its loop begins. *)
Stilled(t, e) ==
  /\ t \in State /\ DataInv(t) /\ StackInv(t) /\ OthersWait(t, e) /\ NoneEnds(s, t)
  /\ t.anims = s.anims /\ t.timers = s.timers /\ t.stack = s.stack
  /\ Ord(t) => Ord(s) /\ ~Amid(e)

LEMMA StilledStep ==
  ASSUME NEW e \in Elems, NEW t, Stilled(t, e), NEW u \in State, Requeues(t, u, e)
  PROVE  Stilled(u, e)
<1>1. /\ t \in State /\ DataInv(t) /\ StackInv(t) /\ OthersWait(t, e)
  BY DEF Stilled
<1>2. /\ DataInv(u) /\ StackInv(u) /\ OthersWait(u, e) /\ NoneEnds(t, u)
      /\ u.stack = t.stack /\ u.timers = t.timers /\ u.anims = t.anims
  BY <1>1, RequeueOthers
<1>3. NoneEnds(s, u)
  BY <1>2 DEF Stilled, NoneEnds
<1>4. Ord(u) => Ord(t)
  BY DEF Requeues, Lessens
<1>. QED  BY <1>2, <1>3, <1>4 DEF Stilled

LEMMA StilledUnhooked ==
  ASSUME NEW e \in Elems, NEW t, Stilled(t, e), NEW u, u = StopHook(t, e)
  PROVE  Stilled(u, e)
<1>1. t \in State /\ DataInv(t)
  BY DEF Stilled
<1>2. /\ u \in State /\ Retouched(t, u, e) /\ u.hurried = t.hurried
      /\ u.el[e].queue = t.el[e].queue /\ ~u.el[e].nap
      /\ u.el[e].finishing = t.el[e].finishing
  BY <1>1, UnhookIs
<1>3. Tailed(u.el[e].queue)
  BY <1>1, <1>2, QueuesTailed
<1>4. Ord(u) => Ord(t)
  BY <1>2 DEF Retouched, Ord
<1>5. Ord(u) => (u.el[e].finishing => u.el[e].queue = <<>>)
  BY <1>1, <1>2, <1>4 DEF DataInv, Quiet
<1>6. Requeues(t, u, e)
  BY <1>1, <1>2, <1>3, <1>5, RetouchIs
<1>. QED  BY <1>2, <1>6, StilledStep

LEMMA StopAction ==
  ASSUME Inv(s), NEW e \in Elems, NEW clearQueue \in BOOLEAN, NEW gotoEnd \in BOOLEAN,
         Stop(e, clearQueue, gotoEnd)
  PROVE  Keeps
<1>1. UserCode /\ NoOpen(s)
  BY UserCodeIs DEF Stop, Call
<1>2. s \in State /\ DataInv(s) /\ StackInv(s) /\ OthersWait(s, e)
  BY DEF Inv, JInv, OthersWait
<1>3. PICK b \in BOOLEAN : b = (s.hurried \/ Amid(e))
  BY <1>2 DEF State
<1>4. PICK h : h = [s EXCEPT !.hurried = b]
  OBVIOUS
<1>5. PICK t : t = IF clearQueue THEN Dequeue([h EXCEPT !.el[e].queue = <<>>], e) ELSE h
  OBVIOUS
<1>6. PICK f : f = Loop(e, gotoEnd, <<>>)
  OBVIOUS
<1>7. s' = Push(StopHook(t, e), f)
  BY <1>3, <1>4, <1>5, <1>6 DEF Stop
<1>8. /\ h \in State /\ h.el = s.el /\ h.naps = s.naps /\ h.anims = s.anims
      /\ h.timers = s.timers /\ h.inProgress = s.inProgress /\ h.stack = s.stack
      /\ h.leaked = s.leaked /\ h.rerun = s.rerun /\ h.derailed = s.derailed /\ h.hurried = b
  BY <1>2, <1>3, <1>4 DEF State
<1>9. Ord(h) => Ord(s) /\ ~Amid(e) /\ ~s.el[e].finishing
  BY <1>3, <1>8 DEF Ord, Amid
<1>10. Stilled(h, e)
  <2>1. Retouched(s, h, e)
    BY <1>3, <1>8 DEF Retouched
  <2>2. Tailed(h.el[e].queue)
    BY <1>2, <1>8, QueuesTailed
  <2>3. Ord(h) => (h.el[e].nap => Und(s, e) = {}) /\ ~h.el[e].finishing
    BY <1>2, <1>8, <1>9 DEF DataInv, One
  <2>4. Requeues(s, h, e)
    BY <1>2, <1>8, <2>1, <2>2, <2>3, RetouchIs
  <2>5. /\ DataInv(h) /\ StackInv(h) /\ OthersWait(h, e) /\ NoneEnds(s, h)
    BY <1>2, <1>8, <2>4, RequeueOthers
  <2>. QED  BY <1>8, <1>9, <2>5 DEF Stilled
<1>11. Stilled(t, e)
  <2>1. CASE ~clearQueue
    BY <1>5, <1>10, <2>1
  <2>2. CASE clearQueue
    <3>. DEFINE y == [h.el[e] EXCEPT !.queue = <<>>]  el == [h.el EXCEPT ![e] = y]
    <3>1. h.el[e] \in Element /\ h.el \in [Elems -> Element] /\ <<>> \in Seq(Entry)
      BY <1>8 DEF State
    <3>2. /\ y \in Element /\ y.queue = <<>> /\ y.nap = h.el[e].nap
          /\ y.shown = h.el[e].shown /\ y.size = h.el[e].size /\ y.fxshow = h.el[e].fxshow
          /\ y.finishing = h.el[e].finishing
      BY <3>1 DEF Element
    <3>3. PICK c : c = [h EXCEPT !.el[e].queue = <<>>]
      OBVIOUS
    <3>4. c = [h EXCEPT !.el = el]
      BY <3>3
    <3>. HIDE DEF y
    <3>5. el \in [Elems -> Element] /\ el[e] = y /\ \A x \in Elems : x # e => el[x] = h.el[x]
      BY <3>1, <3>2
    <3>. HIDE DEF el
    <3>6. /\ c \in State /\ c.el = el /\ c.naps = h.naps /\ c.anims = h.anims
          /\ c.timers = h.timers /\ c.inProgress = h.inProgress /\ c.stack = h.stack
          /\ SameFlags(h, c)
      BY <1>8, <3>4, <3>5 DEF State, SameFlags
    <3>7. c.el[e].queue = <<>> /\ c.el[e].nap = h.el[e].nap
      BY <3>2, <3>5, <3>6
    <3>8. Stilled(c, e)
      <4>1. Retouched(h, c, e)
        BY <3>2, <3>5, <3>6 DEF Retouched, SameFlags
      <4>2. Tailed(c.el[e].queue)
        BY <3>7 DEF Tailed
      <4>3. Ord(c) <=> Ord(h)
        BY <3>6 DEF SameFlags, Ord
      <4>4. DataInv(h)
        BY <1>10 DEF Stilled
      <4>5. Ord(c) => /\ c.el[e].nap => Und(h, e) = {}
                      /\ ~c.el[e].finishing
        BY <1>8, <1>9, <3>2, <3>5, <3>6, <3>7, <4>3, <4>4 DEF DataInv, One
      <4>6. Requeues(h, c, e)
        BY <1>8, <3>6, <4>1, <4>2, <4>4, <4>5, RetouchIs
      <4>. QED  BY <1>10, <3>6, <4>6, StilledStep
    <3>9. t = [DropHooks(c, e) EXCEPT !.el[e].queue = <<>>]
      <4>1. t = Dequeue(c, e)
        BY <1>5, <2>2, <3>3
      <4>. QED  BY <3>7, <4>1 DEF Dequeue
    <3>10. t \in State /\ Requeued(c, t, e, <<>>, FALSE)
      BY <3>1, <3>6, <3>9, DropIs
    <3>11. DataInv(c) /\ Tailed(<<>>)
      BY <3>7, <3>8 DEF Stilled, Tailed
    <3>12. Requeues(c, t, e)
      BY <3>1, <3>6, <3>10, <3>11, RequeuedIs
    <3>. QED  BY <3>8, <3>10, <3>12, StilledStep
  <2>. QED  BY <2>1, <2>2
<1>12. PICK v : v = StopHook(t, e)
  OBVIOUS
<1>13. Stilled(v, e)
  BY <1>11, <1>12, StilledUnhooked
<1>14. /\ f \in StopFrame /\ f.at = "stop" /\ f.e = e /\ ~f.found /\ f.jobs = <<>>
       /\ f.i = Len(s.timers)
  BY <1>2, <1>6, LoopIs
<1>15. v \in State /\ DataInv(v) /\ StackInv(v) /\ OthersWait(v, e) /\ NoOpen(v)
  BY <1>1, <1>13 DEF Stilled, NoOpen
<1>16. Ord(v) => \A k \in DOMAIN v.stack : ~Completes(v, v.stack[k], e)
  BY <1>13 DEF Stilled, Amid, InOwnCallback, Completes
<1>17. f.i = Len(v.timers)
  BY <1>13, <1>14 DEF Stilled
<1>18. Enters(v, f)
  BY <1>14, <1>15, <1>16, <1>17, LoopEnters
<1>19. s' = Push(v, f)
  BY <1>7, <1>12
<1>20. Inv(s') /\ NoneEnds(v, s')
  BY <1>14, <1>15, <1>18, <1>19, LoopInv
<1>21. NoneEnds(s, s')
  BY <1>13, <1>20 DEF Stilled, NoneEnds
<1>. QED  BY <1>20, <1>21, NoneEndsWell DEF Keeps

LEMMA FinishAction ==
  ASSUME Inv(s), NEW e \in Elems, Finish(e)
  PROVE  Keeps
<1>1. UserCode /\ NoOpen(s)
  BY UserCodeIs DEF Finish, Call
<1>2. s \in State /\ DataInv(s) /\ StackInv(s) /\ OthersWait(s, e)
  BY DEF Inv, JInv, OthersWait
<1>3. PICK b \in BOOLEAN : b = (s.hurried \/ s.el[e].finishing)
  BY <1>2 DEF State, Element
<1>4. PICK f : f = Loop(e, TRUE, <<s.el[e].queue>>)
  OBVIOUS
<1>5. s.el[e].queue \in Seq(Entry)
  BY <1>2, QueuesTailed
<1>q. <<>> \in Seq(Entry)
  OBVIOUS
<1>j. PICK jobs \in {<<>>} \cup {<<q>> : q \in Seq(Entry)} : jobs = <<s.el[e].queue>> /\ jobs # <<>>
  BY <1>5
<1>6. /\ f \in StopFrame /\ f.at = "stop" /\ f.e = e /\ ~f.found /\ f.jobs # <<>>
      /\ f.gotoEnd /\ f.i = Len(s.timers)
  <2>1. PICK gotoEnd \in BOOLEAN : gotoEnd = TRUE
    OBVIOUS
  <2>2. f = Loop(e, gotoEnd, jobs)
    BY <1>4, <1>j, <2>1
  <2>3. /\ f \in StopFrame /\ f.at = "stop" /\ f.e = e /\ ~f.found /\ f.jobs = jobs
        /\ f.gotoEnd = gotoEnd /\ f.i = Len(s.timers)
    BY <1>2, <2>2, LoopIs
  <2>. QED  BY <1>j, <2>1, <2>3
<1>7. PICK t : t = StopHook(s, e)
  OBVIOUS
<1>8. /\ t \in State /\ Retouched(s, t, e) /\ t.hurried = s.hurried
      /\ t.el[e].queue = s.el[e].queue /\ ~t.el[e].nap
      /\ t.el[e].finishing = s.el[e].finishing
  BY <1>2, <1>7, UnhookIs
<1>. DEFINE y == [t.el[e] EXCEPT !.queue = <<>>, !.finishing = TRUE]
            el == [t.el EXCEPT ![e] = y]
            v == [t EXCEPT !.el = el, !.hurried = b]
<1>9. t.el[e] \in Element /\ t.el \in [Elems -> Element]
  BY <1>8 DEF State
<1>10. /\ y \in Element /\ y.queue = <<>> /\ ~y.nap /\ y.finishing
       /\ y.shown = t.el[e].shown /\ y.size = t.el[e].size /\ y.fxshow = t.el[e].fxshow
  BY <1>q, <1>8, <1>9 DEF Element
<1>11. s' = Push(v, f)
  BY <1>3, <1>4, <1>7, <1>8, <1>9 DEF Finish
<1>. HIDE DEF y
<1>12. el \in [Elems -> Element] /\ el[e] = y /\ \A x \in Elems : x # e => el[x] = t.el[x]
  BY <1>9, <1>10
<1>. HIDE DEF el
<1>13. /\ v \in State /\ v.el = el /\ v.naps = t.naps /\ v.anims = t.anims
       /\ v.timers = t.timers /\ v.inProgress = t.inProgress /\ v.stack = t.stack
       /\ v.leaked = t.leaked /\ v.rerun = t.rerun /\ v.derailed = t.derailed /\ v.hurried = b
  BY <1>3, <1>8, <1>12 DEF State
<1>. HIDE DEF v
<1>14. Retouched(s, v, e)
  BY <1>3, <1>8, <1>10, <1>12, <1>13 DEF Retouched
<1>15. /\ v.el[e].queue = <<>> /\ ~v.el[e].nap /\ v.el[e].finishing
  BY <1>10, <1>12, <1>13
<1>16. Requeues(s, v, e)
  <2>1. Tailed(v.el[e].queue)
    BY <1>15 DEF Tailed
  <2>. QED  BY <1>2, <1>13, <1>14, <1>15, <2>1, RetouchIs
<1>17. /\ DataInv(v) /\ StackInv(v) /\ OthersWait(v, e) /\ NoneEnds(s, v)
       /\ v.stack = s.stack /\ v.timers = s.timers /\ v.anims = s.anims
  BY <1>2, <1>13, <1>16, RequeueOthers
<1>18. Ord(v) => \A k \in DOMAIN v.stack : ~Finishes(v.stack[k], e)
  <2>1. Ord(v) => Ord(s) /\ ~s.el[e].finishing
    BY <1>3, <1>8, <1>13 DEF Ord, Retouched
  <2>. QED  BY <1>2, <1>17, <2>1 DEF StackInv, FinInv
<1>19. NoOpen(v) /\ f.i = Len(v.timers)
  BY <1>1, <1>6, <1>17 DEF NoOpen
<1>20. Enters(v, f)
  BY <1>6, <1>13, <1>15, <1>17, <1>18, <1>19, LoopEnters
<1>21. Inv(s') /\ NoneEnds(v, s')
  BY <1>6, <1>11, <1>13, <1>15, <1>17, <1>20, LoopInv
<1>22. NoneEnds(s, s')
  BY <1>17, <1>21 DEF NoneEnds
<1>. QED  BY <1>21, <1>22, NoneEndsWell DEF Keeps

-----------------------------------------------------------------------------
(* The theorems. *)

LEMMA InitInv ==
  ASSUME Init
  PROVE  Inv(s)
<1>1. /\ s.el = [e \in Elems |-> [shown |-> TRUE, size |-> "full", fxshow |-> <<>>,
                                  queue |-> <<>>, nap |-> FALSE, finishing |-> FALSE]]
      /\ s.naps = [e \in Elems |-> 0] /\ s.anims = <<>> /\ s.timers = <<>>
      /\ s.stack = <<>> /\ ~s.derailed
  BY DEF Init
<1>2. s \in State
  <2>1. <<>> \in Seq(Entry) /\ <<>> \in Seq(Animation) /\ <<>> \in Seq(Nat) /\ <<>> \in Seq(Frames)
    OBVIOUS
  <2>. DEFINE x == [shown |-> TRUE, size |-> "full", fxshow |-> <<>>,
                    queue |-> <<>>, nap |-> FALSE, finishing |-> FALSE]
  <2>2. x \in Element
    BY <2>1 DEF Element, Sizes
  <2>. HIDE DEF x
  <2>3. [e \in Elems |-> x] \in [Elems -> Element] /\ [e \in Elems |-> 0] \in [Elems -> Nat]
    BY <2>2
  <2>4. s = [el |-> [e \in Elems |-> x], naps |-> [e \in Elems |-> 0],
             anims |-> <<>>, timers |-> <<>>, inProgress |-> FALSE, frames |-> 0, stack |-> <<>>,
             leaked |-> FALSE, rerun |-> FALSE, miscut |-> FALSE,
             derailed |-> FALSE, hurried |-> FALSE]
    BY DEF Init, x
  <2>. QED  BY <2>1, <2>3, <2>4 DEF State
<1>3. DOMAIN s.anims = {} /\ DOMAIN s.timers = {} /\ DOMAIN s.stack = {}
  BY <1>1
<1>4. \A x : Und(s, x) = {}
  BY <1>3 DEF Und
<1>5. \A x \in Elems : s.el[x].queue = <<>> /\ ~s.el[x].nap /\ s.naps[x] = 0 /\ Sized(s.el[x])
  BY <1>1 DEF Sized
<1>6. DataInv(s)
  <2>1. QueueInv(s)
    BY <1>5 DEF QueueInv
  <2>. QED  BY <1>3, <1>4, <1>5, <2>1
         DEF DataInv, AnimInv, TimerInv, NapInv, Listed, One, Quiet, AskInv, SizeInv
<1>7. StackInv(s)
  BY <1>3 DEF StackInv, FrameInv, PlaceInv, FinInv, StopInv, CallInv
<1>. QED  BY <1>2, <1>4, <1>5, <1>6, <1>7 DEF Inv, JInv, Waits, Waited, Unstuck

LEMMA NextKeeps ==
  ASSUME Inv(s), [Next]_vars
  PROVE  Keeps
<1>1. CASE UNCHANGED vars
  <2>1. s' = s
    BY <1>1 DEF vars
  <2>2. Well(s, s)
    BY NoneEndsWell DEF NoneEnds
  <2>. QED  BY <2>1, <2>2 DEF Keeps
<1>2. CASE UserCall
  <2>1. ASSUME NEW e \in Elems, NEW kind \in Kinds, NEW dur \in Durations, Animate(e, kind, dur)
        PROVE  Keeps
    <3>1. PICK job \in Job \cup {DelayJob} : job = [kind |-> kind, dur |-> dur]
      BY DEF Job
    <3>2. UserCode /\ s' = Enqueue(e, job)
      BY <2>1, <3>1 DEF Animate, Call
    <3>. QED  BY <3>2, EnqueueKeeps
  <2>2. ASSUME NEW e \in Elems, Delay(e)  PROVE Keeps
    <3>1. UserCode /\ s' = Enqueue(e, DelayJob) /\ DelayJob \in Job \cup {DelayJob}
      BY <2>2 DEF Delay, Call, DelayJob
    <3>. QED  BY <3>1, EnqueueKeeps
  <2>. QED  BY <1>2, <2>1, <2>2, StopAction, FinishAction, ClearQueueAction,
               DequeueCallAction, CallbackThrowsAction DEF UserCall
<1>3. CASE Engine
  BY <1>3, TickTurnAction, TickBackAction, TickEndAction, StopTurnAction, StopBackAction,
     StopEndAction, FinishTurnAction, HaltAction, CompleteReturnsAction DEF Engine
<1>4. CASE Frame
  BY <1>4, FrameAction
<1>5. CASE \E e \in Elems : Timeout(e)
  BY <1>5, TimeoutAction
<1>. QED  BY <1>1, <1>2, <1>3, <1>4, <1>5 DEF Next

(* In every state that can be reached the data of the page fit together, the
   loops that run fit them, and whoever waits will be woken: the inductive
   invariant that the theorems below rest on. *)
THEOREM PageInvariant == Spec => []Inv(s)
<1>1. Inv(s) /\ [Next]_vars => Inv(s)'
  BY NextKeeps DEF Keeps
<1>. QED  BY InitInv, <1>1, PTL DEF Spec

LEMMA AtMostOne ==
  ASSUME NEW S, \A x, y \in S : x = y
  PROVE  Cardinality(S) \in {0, 1} /\ (S = {} => Cardinality(S) = 0)
<1>1. CASE S = {}
  BY <1>1, FS_EmptySet
<1>2. CASE S # {}
  <2>1. PICK x \in S : TRUE
    BY <1>2
  <2>2. S = {x}
    BY <2>1
  <2>. QED  BY <1>2, <2>2, FS_Singleton
<1>. QED  BY <1>1, <1>2

LEMMA InvOne ==
  ASSUME Inv(s)
  PROVE  OneAtATime
<1>. SUFFICES ASSUME Orderly, NEW e \in Elems
     PROVE  Cardinality({i \in Pending : s.anims[i].e = e}) + (IF s.el[e].nap THEN 1 ELSE 0) <= 1
  BY DEF OneAtATime
<1>1. {i \in Pending : s.anims[i].e = e} = Und(s, e)
  BY DEF Pending, Und
<1>2. One(s)
  BY DEF Inv, JInv, DataInv, Orderly, Ord
<1>3. /\ \A i, j \in Und(s, e) : i = j
      /\ s.el[e].nap => Und(s, e) = {}
  BY <1>2 DEF One
<1>4. Cardinality(Und(s, e)) \in {0, 1} /\ (Und(s, e) = {} => Cardinality(Und(s, e)) = 0)
  BY <1>3, AtMostOne
<1>5. CASE s.el[e].nap
  <2>1. Cardinality({i \in Pending : s.anims[i].e = e}) = 0
    BY <1>1, <1>3, <1>4, <1>5
  <2>. QED  BY <1>5, <2>1
<1>6. CASE ~s.el[e].nap
  <2>1. Cardinality({i \in Pending : s.anims[i].e = e}) \in {0, 1}
    BY <1>1, <1>4
  <2>. QED  BY <1>6, <2>1
<1>. QED  BY <1>5, <1>6

LEMMA InvRest ==
  ASSUME Inv(s)
  PROVE  ComesToRest
<1>1. s \in State /\ DataInv(s)
  BY DEF Inv, JInv
<1>2. TypeOK
  <2>1. \A x \in Elems : s.el[x] \in Element /\ s.naps[x] \in Nat
    BY <1>1 DEF State
  <2>2. \A x \in Elems : s.el[x].shown \in BOOLEAN /\ s.el[x].size \in Sizes
    BY <2>1 DEF Element
  <2>3. s.inProgress \in BOOLEAN /\ s.frames \in Nat
    BY <1>1 DEF State
  <2>. QED  BY <1>1, <2>1, <2>2, <2>3 DEF TypeOK, DataInv, QueueInv, TimerInv
<1>3. ASSUME Idle, ~s.derailed, NEW e \in Elems
      PROVE  /\ s.el[e].queue = <<>>
             /\ Orderly /\ ~s.rerun => Sized(s.el[e])
  <2>1. DOMAIN s.stack = {} /\ DOMAIN s.timers = {} /\ ~s.el[e].nap /\ s.naps[e] = 0
    <3>1. s.stack = <<>> /\ s.timers = <<>>
      BY <1>3 DEF Idle
    <3>. QED  BY <1>3, <3>1 DEF Idle
  <2>2. Und(s, e) = {}
    BY <1>1, <1>3, <2>1 DEF DataInv, Listed
  <2>3. Unstuck(s, e)
    BY <1>3 DEF Inv, Waits
  <2>4. s.el[e].queue = <<>>
    BY <2>1, <2>2, <2>3 DEF Unstuck
  <2>5. Orderly /\ ~s.rerun => Sized(s.el[e])
    BY <1>1 DEF DataInv, SizeInv, Orderly, Ord
  <2>. QED  BY <2>4, <2>5
<1>. QED  BY <1>2, <1>3 DEF ComesToRest, Sized

LEMMA WellEnds ==
  ASSUME Well(s, s'), Orderly'
  PROVE  \A i \in Pending :
           LET a == s'.anims[i]
           IN a.state = "resolved" /\ ~a.noted =>
                /\ a.kind = "show" => s'.el[a.e].shown
                /\ a.kind = "hide" => ~s'.el[a.e].shown
<1>1. Ord(s')
  BY DEF Orderly, Ord
<1>. QED  BY <1>1 DEF Well, Pending

(* As long as none of the things happens that jQuery does not guard against (a
   timeout of a delay forgotten, the next one begun beside or inside the last,
   by stop(), clearQueue(), dequeue() or in finish(), a loop that cut out
   another timer, a callback that threw) the fx queue keeps at most one animation or delay of an element under way,
   for all elements, kinds of animation and durations. *)
THEOREM AlwaysOneAtATime == Spec => []OneAtATime
BY PageInvariant, InvOne, PTL

(* Whenever nothing is under way no job is left in a queue, unless a loop cut
   out the timer of another animation or a callback threw; and, when Orderly
   and no tween ran twice, an element has its own size then,
   or a note of it, however many were stopped half way. *)
THEOREM AlwaysComesToRest == Spec => []ComesToRest
BY PageInvariant, InvRest, PTL

(* As long as Orderly, the step that completes a show or a hide leaves the element as that call
   asked for, whatever was stopped half way before it. *)
THEOREM AlwaysEndsAsAsked == Spec => EndsAsAsked
<1>1. Inv(s) /\ [Next]_vars =>
        [Orderly' =>
          \A i \in Pending :
            LET a == s'.anims[i]
            IN a.state = "resolved" /\ ~a.noted =>
                 /\ a.kind = "show" => s'.el[a.e].shown
                 /\ a.kind = "hide" => ~s'.el[a.e].shown]_vars
  BY NextKeeps, WellEnds DEF Keeps
<1>. QED  BY <1>1, PageInvariant, PTL DEF Spec, EndsAsAsked
=============================================================================
