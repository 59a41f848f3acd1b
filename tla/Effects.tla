------------------------------ MODULE Effects ------------------------------
(***************************************************************************)
(* jQuery's effects: the fx queue of every element, animations that show,  *)
(* hide or toggle it, the list of timers and the tick that runs it.        *)
(*                                                                         *)
(* All of it is one thread, but the complete callback of an animation is   *)
(* user code, and it runs in the middle of fx.tick, stop and finish, whose *)
(* loops walk lists that it changes.  `stack' holds the loops and calls    *)
(* that were entered and not left.  User code is in control when the stack *)
(* is empty or a complete callback is on top of it.                        *)
(*                                                                         *)
(* One animated property stands for all: its value is "zero", "full" (what *)
(* the element has of its own) or "mid" (anything between).  Time advances *)
(* between frames.  The functions called by others are operators from the  *)
(* whole state, a record, to the state.                                    *)
(***************************************************************************)
EXTENDS Integers, Sequences, FiniteSets

CONSTANTS
  Elems,      \* the elements
  Kinds,      \* the animations user code asks for: show, hide, toggle
  Durations,  \* how many frames they take
  Delays,     \* TRUE when user code calls delay()
  MaxCalls    \* bound: calls made by user code

ASSUME EffectsAssumption ==
  /\ Kinds \subseteq {"show", "hide", "toggle"}
  /\ Durations \subseteq Nat /\ Delays \in BOOLEAN /\ MaxCalls \in Nat

VARIABLES
  s,          \* the state of the page, see Init
  calls       \* calls made so far, for the bound

vars == <<s, calls>>

(* el[e]: shown, size: the style of e; fxshow: <<>> or the private data kept
   while a show or hide of it is unfinished; queue: its fx queue; nap: a delay
   is under way, its timeout known to the queue's hooks; finishing: data.finish.
   naps[e]: timeouts of delays that no hooks know any more.
   anims: every animation begun, timers: the indices of those in jQuery.timers.
   frames: requests for an animation frame that call schedule().
   Histories: leaked: the hooks of a delay were dropped with its timeout set;
   rerun: the tween of an animation ran that had ended; miscut: a loop of stop()
   or finish() came back to another timer than it left, and cut it out;
   derailed: that, or a callback threw; hurried: the next one in a queue was
   begun by stop() or on a queue that was cleared in the callback of the
   element's animation or while finish() ran its jobs, or finish() was called in
   finish(), or dequeue() in any of these or while an animation of the element
   was under way, when clearQueue() takes its sentinel away. *)
Init ==
  /\ s = [el |-> [e \in Elems |->
                   [shown |-> TRUE, size |-> "full", fxshow |-> <<>>,
                    queue |-> <<>>, nap |-> FALSE, finishing |-> FALSE]],
          naps |-> [e \in Elems |-> 0],
          anims |-> <<>>, timers |-> <<>>,
          inProgress |-> FALSE, frames |-> 0, stack |-> <<>>,
          leaked |-> FALSE, rerun |-> FALSE, miscut |-> FALSE,
          derailed |-> FALSE, hurried |-> FALSE]
  /\ calls = 0

Push(t, f) == [t EXCEPT !.stack = Append(@, f)]
Pop(t) == [t EXCEPT !.stack = SubSeq(@, 1, Len(@) - 1)]
Top == s.stack[Len(s.stack)]
Swap(t, f) == Push(Pop(t), f)
Cut(q, i) == SubSeq(q, 1, i - 1) \o SubSeq(q, i + 1, Len(q))

(***************************************************************************)
(* Animations.                                                             *)
(***************************************************************************)

(* A tween at a part of its way: its start, something between, its end. *)
Tweened(a, part) ==
  CASE part = "begin" -> a.from
    [] part = "on"    -> IF a.from = a.to THEN a.to ELSE "mid"
    [] part = "end"   -> a.to

RunTweens(t, i, part) ==
  LET a == t.anims[i]
  IN IF a.tweens THEN [t EXCEPT !.el[a.e].size = Tweened(a, part),
                                !.rerun = @ \/ a.state # "pending"]
     ELSE t

(* Variant: the size an unfinished one started from is not looked up. *)
KeptNever(x) == <<>>

(* The size of its own that an unfinished show or hide has noted. *)
Kept(x) == IF x.fxshow = <<>> THEN <<>> ELSE x.fxshow[1].kept

(* defaultPrefilter for a show, hide or toggle of element data x: what is
   left of an unfinished one decides where this one starts and ends. *)
Prefilter(x, kind) ==
  LET isHidden == ~x.shown
      pretend == kind = "show" /\ x.shown /\ Kept(x) # <<>>
      noop    == kind = (IF isHidden THEN "hide" ELSE "show") /\ ~pretend
      before  == x.fxshow # <<>>
      hidden  == IF before /\ x.fxshow[1].hidden # <<>>
                 THEN x.fxshow[1].hidden[1] ELSE isHidden \/ pretend
      stored  == IF kind = "toggle" THEN <<~hidden>>
                 ELSE IF before THEN x.fxshow[1].hidden ELSE <<>>
      resumed == Kept(x) # <<>>
      kept    == IF resumed THEN Kept(x)[1] ELSE x.size
  IN IF noop THEN [x |-> x, tweens |-> FALSE, hidden |-> hidden, orig |-> x.size,
                   from |-> x.size, to |-> x.size]
     ELSE [x |-> [x EXCEPT !.fxshow = <<[kept |-> <<kept>>, hidden |-> stored]>>,
                           !.shown = @ \/ hidden],
           tweens |-> TRUE, hidden |-> hidden,
           orig |-> IF resumed /\ kept # "zero" THEN kept ELSE x.size,
           from |-> IF hidden /\ ~resumed THEN "zero" ELSE x.size,
           to   |-> IF hidden THEN kept ELSE "zero"]

(* fx.timer and fx.start: the first timer starts a tick at once. *)
Timer(t, i) ==
  LET added == [t EXCEPT !.timers = Append(@, i)]
  IN IF t.inProgress THEN added
     ELSE Push([added EXCEPT !.inProgress = TRUE, !.frames = @ + 1],
               [at |-> "tick", i |-> 1])

(* doAnimation: Animation(), and its end at once when finish() calls it. *)
Begin(t, e, job) ==
  LET p == Prefilter(t.el[e], job.kind)
      i == Len(t.anims) + 1
      a == [e |-> e, kind |-> job.kind, state |-> "pending", stopped |-> FALSE,
            matches |-> TRUE, dur |-> job.dur, left |-> job.dur,
            noted |-> t.el[e].fxshow # <<>> /\ t.el[e].fxshow[1].hidden # <<>>,
            tweens |-> p.tweens, hidden |-> p.hidden, orig |-> p.orig,
            from |-> p.from, to |-> p.to]
      made == [t EXCEPT !.el[e] = p.x, !.anims = Append(@, a)]
  IN Timer(IF t.el[e].finishing THEN Push(made, [at |-> "halt", i |-> i])
           ELSE made, i)

(* The hooks forget the stop function of a delay. *)
DropHooks(t, e) ==
  IF ~t.el[e].nap THEN t
  ELSE [t EXCEPT !.el[e].nap = FALSE, !.naps[e] = @ + 1, !.leaked = TRUE]

(* hooks.stop: the timeout of a delay is cleared. *)
StopHook(t, e) == [t EXCEPT !.el[e].nap = FALSE]

Sentinel == [kind |-> "inprogress"]

Run(t, e, job) ==
  IF job.kind = "delay" THEN [t EXCEPT !.el[e].nap = TRUE] ELSE Begin(t, e, job)

(* Variant: the sentinel is not put back. *)
DequeueBare(t, e) ==
  LET q == SelectSeq(t.el[e].queue, LAMBDA job : job # Sentinel)
      u == DropHooks(t, e)
  IN IF q = <<>> THEN [u EXCEPT !.el[e].queue = <<>>]
     ELSE Run([u EXCEPT !.el[e].queue = Tail(q)], e, q[1])

(* dequeue: the sentinel goes, the next job is called with the sentinel back
   in front; without a job hooks.empty fires and the queue is given up. *)
Dequeue(t, e) ==
  LET q == IF t.el[e].queue # <<>> /\ t.el[e].queue[1] = Sentinel
           THEN Tail(t.el[e].queue) ELSE t.el[e].queue
      u == DropHooks(t, e)
  IN IF q = <<>> THEN [u EXCEPT !.el[e].queue = <<>>]
     ELSE Run([u EXCEPT !.el[e].queue = <<Sentinel>> \o Tail(q)], e, q[1])

(* Variant: the element is matched until its callbacks have run. *)
ResolveMatched(t, i) ==
  LET a == t.anims[i]
  IN IF a.state # "pending" THEN t
     ELSE Push([t EXCEPT !.anims[i].state = "resolved"], [at |-> "complete", i |-> i])

(* resolveWith of an animation: it stops matching its element, a hide hides
   the element and the style is put back, then the complete callback. *)
Resolve(t, i) ==
  LET a == t.anims[i]
      x == t.el[a.e]
      done == [t EXCEPT !.anims[i].state = "resolved", !.anims[i].matches = FALSE]
  IN IF a.state # "pending" THEN t
     ELSE Push(IF ~a.tweens THEN done
               ELSE [done EXCEPT !.el[a.e] = [x EXCEPT !.shown = x.shown /\ a.hidden,
                                                       !.fxshow = <<>>, !.size = a.orig]],
               [at |-> "complete", i |-> i])

(* animation.stop. *)
StopAnim(t, i, gotoEnd) ==
  LET u == [t EXCEPT !.anims[i].stopped = TRUE]
  IN IF t.anims[i].stopped THEN t
     ELSE IF gotoEnd THEN Resolve(RunTweens(u, i, "end"), i)
     ELSE IF t.anims[i].state # "pending" THEN u
     ELSE [u EXCEPT !.anims[i].state = "rejected", !.anims[i].matches = FALSE]

(***************************************************************************)
(* The loops, one turn at a time.                                          *)
(***************************************************************************)
At(f) == s.stack # <<>> /\ Top.at = f
Internal == UNCHANGED calls

(* fx.tick: one timer.  It stays when it is not done; when its callbacks
   have run it is removed if it is still where it was. *)
TickTurn ==
  /\ At("tick")
  /\ Top.i <= Len(s.timers)
  /\ LET i == s.timers[Top.i]
         a == s.anims[i]
         next == Swap(s, [at |-> "tick", i |-> Top.i + 1])
         back == Swap(s, [at |-> "ticked", i |-> Top.i, timer |-> i])
     IN s' = IF a.stopped THEN back
             ELSE IF a.tweens /\ a.left > 0
             THEN RunTweens(next, i, IF a.left = a.dur THEN "begin" ELSE "on")
             ELSE Resolve(RunTweens(back, i, "end"), i)
  /\ Internal

(* Variant: whatever is at the index is removed. *)
RemovedBlindly(t, i, timer) == [t EXCEPT !.timers = Cut(@, i)]

(* "safely remove it when done (allowing for external removal)". *)
Removed(t, i, timer) ==
  IF i \in DOMAIN t.timers /\ t.timers[i] = timer
  THEN [t EXCEPT !.timers = Cut(@, i)] ELSE t

TickBack ==
  /\ At("ticked")
  /\ LET there == Top.i \in DOMAIN s.timers /\ s.timers[Top.i] = Top.timer
     IN s' = Swap(Removed(s, Top.i, Top.timer),
                  [at |-> "tick", i |-> IF there THEN Top.i ELSE Top.i + 1])
  /\ Internal

TickEnd ==
  /\ At("tick")
  /\ Top.i > Len(s.timers)
  /\ s' = [Pop(s) EXCEPT !.inProgress = @ /\ s.timers # <<>>]
  /\ Internal

(* The loop of stop() and finish(), from the last timer down.  The timer is
   cut out of the list after its callbacks have run, by its old index; when
   they have cut others the loop may read beyond the end, which throws. *)
StopTurn ==
  /\ At("stop")
  /\ Top.i > 0
  /\ LET i == s.timers[Top.i]
     IN s' = IF Top.i > Len(s.timers)
             THEN [s EXCEPT !.stack = <<>>]
             ELSE IF s.anims[i].matches /\ s.anims[i].e = Top.e
             THEN StopAnim(Swap(s, [Top EXCEPT !.at = "stopped",
                                               !.found = TRUE, !.timer = i]),
                           i, Top.gotoEnd)
             ELSE Swap(s, [Top EXCEPT !.i = @ - 1])
  /\ Internal

StopBack ==
  /\ At("stopped")
  /\ LET there == Top.i \in DOMAIN s.timers /\ s.timers[Top.i] = Top.timer
         cut == IF Top.i \in DOMAIN s.timers
                THEN [s EXCEPT !.timers = Cut(@, Top.i)] ELSE s
     IN s' = Swap([cut EXCEPT !.miscut = @ \/ ~there, !.derailed = @ \/ ~there],
                  [Top EXCEPT !.at = "stop", !.i = @ - 1])
  /\ Internal

(* Variant: the next in the queue follows whatever the last step was. *)
StopEndForced ==
  /\ At("stop")
  /\ Top.i = 0
  /\ s' = IF Top.jobs # <<>> THEN Swap(s, [at |-> "finish", e |-> Top.e, jobs |-> Top.jobs[1]])
          ELSE Dequeue(Pop(s), Top.e)
  /\ Internal

(* Variant: the next in the queue follows only when nothing was stopped. *)
StopEndIdle ==
  /\ At("stop")
  /\ Top.i = 0
  /\ s' = IF Top.jobs # <<>> THEN Swap(s, [at |-> "finish", e |-> Top.e, jobs |-> Top.jobs[1]])
          ELSE IF ~Top.found THEN Dequeue(Pop(s), Top.e) ELSE Pop(s)
  /\ Internal

(* stop(): the next in the queue follows unless the last step was forced;
   finish(): the jobs of the old queue are run to their ends. *)
StopEnd ==
  /\ At("stop")
  /\ Top.i = 0
  /\ s' = IF Top.jobs # <<>> THEN Swap(s, [at |-> "finish", e |-> Top.e, jobs |-> Top.jobs[1]])
          ELSE IF ~Top.found \/ ~Top.gotoEnd THEN Dequeue(Pop(s), Top.e)
          ELSE Pop(s)
  /\ Internal

FinishTurn ==
  /\ At("finish")
  /\ s' = IF Top.jobs = <<>> THEN [Pop(s) EXCEPT !.el[Top.e].finishing = FALSE]
          ELSE LET t == Swap(s, [Top EXCEPT !.jobs = Tail(@)])
               IN IF Head(Top.jobs).kind \in Kinds
                  THEN Begin(t, Top.e, Head(Top.jobs)) ELSE t
  /\ Internal

Halt ==
  /\ At("halt")
  /\ s' = StopAnim(Pop(s), Top.i, TRUE)
  /\ Internal

(* The complete callback has returned: the queue goes on. *)
CompleteReturns ==
  /\ At("complete")
  /\ s' = Dequeue(Pop(s), s.anims[Top.i].e)
  /\ Internal

(***************************************************************************)
(* What the browser calls.                                                 *)
(***************************************************************************)

Later(a) == [a EXCEPT !.left = IF a.state = "pending" /\ @ > 0 THEN @ - 1 ELSE @]

(* schedule(), called by a frame: it asks for the next one and ticks. *)
Frame ==
  /\ s.stack = <<>> /\ s.frames > 0
  /\ s' = IF s.inProgress
          THEN Push([s EXCEPT !.anims = [i \in DOMAIN @ |-> Later(@[i])]],
                    [at |-> "tick", i |-> 1])
          ELSE [s EXCEPT !.frames = @ - 1]
  /\ Internal

(* The timeout of a delay calls next(), in whatever state the queue is. *)
Timeout(e) ==
  /\ s.stack = <<>>
  /\ \/ s.el[e].nap /\ s' = Dequeue(StopHook(s, e), e)
     \/ s.naps[e] > 0 /\ s' = Dequeue([s EXCEPT !.naps[e] = @ - 1], e)
  /\ Internal

(***************************************************************************)
(* What user code calls.                                                   *)
(***************************************************************************)
UserCode == s.stack # <<>> => Top.at = "complete"
Call == UserCode /\ calls < MaxCalls /\ calls' = calls + 1

InOwnCallback(e) ==
  \E i \in DOMAIN s.stack : s.stack[i].at = "complete" /\ s.anims[s.stack[i].i].e = e

(* Somebody down the stack will go on with the queue of e. *)
Amid(e) == InOwnCallback(e) \/ s.el[e].finishing

(* queue(type, job): the first job of a queue is dequeued at once. *)
Enqueue(e, job) ==
  LET t == [s EXCEPT !.el[e].queue = Append(@, job)]
  IN IF t.el[e].queue[1] # Sentinel
     THEN Dequeue([t EXCEPT !.hurried = @ \/ Amid(e)], e)
     ELSE t

Animate(e, kind, dur) == Call /\ s' = Enqueue(e, [kind |-> kind, dur |-> dur])

Delay(e) == Delays /\ Call /\ s' = Enqueue(e, [kind |-> "delay"])

(* Something of e is under way: what its sentinel stands for. *)
Running(e) ==
  \E i \in DOMAIN s.anims : s.anims[i].state = "pending" /\ s.anims[i].e = e

(* clearQueue(): queue(type, []) puts an empty queue for the old one, sentinel
   and all, and dequeues that. *)
ClearQueue(e) ==
  /\ Call
  /\ s' = Dequeue([s EXCEPT !.el[e].queue = <<>>, !.hurried = @ \/ Running(e)], e)

(* dequeue(): whatever is under way. *)
DequeueCall(e) ==
  /\ Call
  /\ s' = Dequeue([s EXCEPT !.hurried = @ \/ Running(e) \/ Amid(e)], e)

(* A complete callback throws, through everything that was entered: no loop
   goes on, the queue of its element is not dequeued. *)
CallbackThrows ==
  /\ s.stack # <<>> /\ Call
  /\ s' = [s EXCEPT !.stack = <<>>, !.derailed = TRUE]

Loop(e, gotoEnd, jobs) ==
  [at |-> "stop", e |-> e, i |-> Len(s.timers), gotoEnd |-> gotoEnd,
   found |-> FALSE, timer |-> 0, jobs |-> jobs]

(* stop(clearQueue, gotoEnd): a queue that is cleared is dequeued, which
   drops its hooks before the stop functions in them are looked for. *)
Stop(e, clearQueue, gotoEnd) ==
  /\ Call
  /\ LET h == [s EXCEPT !.hurried = @ \/ Amid(e)]
         t == IF clearQueue THEN Dequeue([h EXCEPT !.el[e].queue = <<>>], e) ELSE h
     IN s' = Push(StopHook(t, e), Loop(e, gotoEnd, <<>>))

Finish(e) ==
  /\ Call
  /\ s' = Push([StopHook(s, e) EXCEPT !.el[e].queue = <<>>, !.el[e].finishing = TRUE,
                                      !.hurried = @ \/ s.el[e].finishing],
               Loop(e, TRUE, <<s.el[e].queue>>))

UserCall ==
  \/ CallbackThrows
  \/ \E e \in Elems :
       \/ \E kind \in Kinds, dur \in Durations : Animate(e, kind, dur)
       \/ Delay(e)
       \/ \E clearQueue, gotoEnd \in BOOLEAN : Stop(e, clearQueue, gotoEnd)
       \/ Finish(e)
       \/ ClearQueue(e)
       \/ DequeueCall(e)

Engine ==
  \/ TickTurn \/ TickBack \/ TickEnd
  \/ StopTurn \/ StopBack \/ StopEnd
  \/ FinishTurn \/ Halt \/ CompleteReturns

Next ==
  \/ UserCall
  \/ Engine
  \/ Frame
  \/ \E e \in Elems : Timeout(e)

(* Code that was entered goes on; the browser keeps its word. *)
Fairness ==
  /\ WF_vars(Engine) /\ WF_vars(Frame)
  /\ \A e \in Elems : WF_vars(Timeout(e))

Spec == Init /\ [][Next]_vars /\ Fairness

(***************************************************************************)
(* Properties.                                                             *)
(***************************************************************************)
Sizes == {"zero", "mid", "full"}
Pending == {i \in DOMAIN s.anims : s.anims[i].state = "pending"}
Idle == s.stack = <<>> /\ s.timers = <<>>
        /\ \A e \in Elems : ~s.el[e].nap /\ s.naps[e] = 0

(* Nothing has happened of what jQuery does not guard against. *)
Orderly == ~s.leaked /\ ~s.hurried /\ ~s.derailed

TypeOK ==
  /\ \A e \in Elems : /\ s.el[e].shown \in BOOLEAN /\ s.el[e].size \in Sizes
                      /\ s.naps[e] \in Nat
                      /\ \A i \in 2..Len(s.el[e].queue) : s.el[e].queue[i] # Sentinel
  /\ \A i \in DOMAIN s.timers : s.timers[i] \in DOMAIN s.anims
  /\ s.inProgress \in BOOLEAN /\ s.frames \in Nat

(* The fx queue serialises: of all that is asked of an element, one animation
   or delay is under way. *)
OneAtATime ==
  Orderly => \A e \in Elems :
    Cardinality({i \in Pending : s.anims[i].e = e})
      + (IF s.el[e].nap THEN 1 ELSE 0) <= 1

(* When nothing is under way nothing waits, behind a sentinel that nobody
   will take away; and an element of which no show or hide was left half way
   has its own size, while one that was keeps a note of it.  A timer that a
   tick passes over runs once more after its end, and finish() runs the tween
   of a job that was done in no time: both leave their size there. *)
ComesToRest ==
  /\ TypeOK
  /\ Idle /\ ~s.derailed => \A e \in Elems :
       /\ s.el[e].queue = <<>>
       /\ Orderly /\ ~s.rerun =>
            IF s.el[e].fxshow = <<>> THEN s.el[e].size = "full"
            ELSE s.el[e].fxshow[1].kept = <<"full">>

(* Every animation comes to an end, by a tick, by stop or by finish, and with
   it whoever waits for its promise: those loops lose no timer but their own,
   and as long as there is one a frame will tick.  A loop that comes back to
   a list its callbacks have changed may cut out another, that still runs. *)
AnimationsEnd == <>[](Pending = {} \/ s.miscut)

(* A show that is completed leaves the element shown, a hide hidden, whatever
   was stopped half way before it; a toggle that was leaves a note, and the
   show or hide that finds it ends as the toggle would have. *)
EndsAsAsked ==
  [][Orderly' =>
      \A i \in Pending :
        LET a == s'.anims[i]
        IN a.state = "resolved" /\ ~a.noted =>
             /\ a.kind = "show" => s'.el[a.e].shown
             /\ a.kind = "hide" => ~s'.el[a.e].shown]_vars
=============================================================================
