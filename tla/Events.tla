------------------------------- MODULE Events -------------------------------
(***************************************************************************)
(* jQuery's events: handlers bound to nodes with on(), one() and off(),    *)
(* kept in the private data of the node; dispatch() of what the browser    *)
(* sends; trigger() of synthetic events; and leverageNative(), by which a  *)
(* click triggered on a checkbox is turned into a native one first.        *)
(*                                                                         *)
(* There is one type of event, click.  Handlers are user code and may do   *)
(* anything in the middle of an event, so every loop that runs them is a   *)
(* frame of `stack', done a turn at a time.  User code is in control when  *)
(* the stack is empty or a handler is on top of it.  What the browser does *)
(* with a click (Native...) is external.                                   *)
(***************************************************************************)
EXTENDS Integers, Sequences, FiniteSets

CONSTANTS
  Doc,        \* the document
  Boxes,      \* checkboxes
  Plain,      \* other elements
  Handlers,   \* what user code binds: [id, sel, one, ns], sel: for Boxes only
  MaxCalls    \* bound: calls made by user code

Nodes == {Doc} \cup Boxes \cup Plain
None == "none"

VARIABLES
  s,          \* the state of the page, see Init
  calls       \* calls made so far, for the bound

vars == <<s, calls>>

(* Handlers of jQuery's own: the controller of leverageNative, which is
   called whatever the namespace, and the one that forces its setup. *)
Lever  == [id |-> "lever", sel |-> FALSE, one |-> FALSE, ns |-> "false"]
IsTrue == [id |-> "true", sel |-> FALSE, one |-> FALSE, ns |-> ""]

ASSUME EventsAssumption ==
  /\ Doc \notin Boxes \cup Plain /\ Boxes \cap Plain = {} /\ None \notin Nodes
  /\ \A h \in Handlers : /\ h.sel \in BOOLEAN /\ h.one \in BOOLEAN
                          /\ h.id \notin {"any", Lever.id, IsTrue.id}
  /\ MaxCalls \in Nat

(* The private data of a node: its handlers, the first `delegates' of them
   with a selector, and what leverageNative keeps: "undefined", "false",
   "capture" or the arguments of the event with the number given. *)
Undefined == [is |-> "undefined"]
Unset == [is |-> "false"]
Capture == [is |-> "capture"]
Arguments(ev) == [is |-> "arguments", ev |-> ev]
HasLength(saved) == saved.is = "arguments"
NoData == [list |-> <<>>, delegates |-> 0, click |-> Undefined]

(* up: the parents; listening: the nodes with a native listener; inClick:
   those whose click method is running; events: the jQuery.Event objects in
   use, innermost last; triggered: jQuery.event.triggered.  Histories: threw,
   a handler or a TypeError; unclaimed, a checkbox triggered without its controller; rebound,
   a function of one() bound again while it runs, or its event astray. *)
Init ==
  /\ s = [up |-> [n \in Nodes |-> IF n = Doc THEN None ELSE Doc],
          priv |-> [n \in Nodes |-> NoData],
          listening |-> {}, checked |-> {}, inClick |-> {},
          events |-> <<>>, triggered |-> FALSE, stack |-> <<>>,
          threw |-> FALSE, unclaimed |-> FALSE, rebound |-> FALSE]
  /\ calls = 0

Push(t, f) == [t EXCEPT !.stack = Append(@, f)]
Pop(t) == [t EXCEPT !.stack = SubSeq(@, 1, Len(@) - 1)]
Depth == Len(s.stack)
Top == s.stack[Depth]
At(f) == s.stack # <<>> /\ Top.at = f
Swap(t, f) == Push(Pop(t), f)
Drop(q) == SubSeq(q, 1, Len(q) - 1)

(* A node and its ancestors, from the inside out. *)
PathOf(t, n) ==
  LET m == t.up[n]
  IN IF m = None THEN <<n>>
     ELSE IF t.up[m] = None THEN <<n, m>> ELSE <<n, m, t.up[m]>>

(***************************************************************************)
(* Binding.                                                                *)
(***************************************************************************)

(* add() without the special events: delegates in front of the others. *)
AddPlain(p, h) ==
  IF h.sel
  THEN [p EXCEPT !.list = SubSeq(@, 1, p.delegates) \o <<h>>
                            \o SubSeq(@, p.delegates + 1, Len(@)),
                 !.delegates = @ + 1]
  ELSE [p EXCEPT !.list = Append(@, h)]

(* Variant: the controller comes behind the first handler. *)
AddClaimedLast(t, n, h) ==
  LET first == t.priv[n].list = <<>>
      p == AddPlain(t.priv[n], h)
  IN [t EXCEPT !.priv[n] = IF first /\ n \in Boxes
                           THEN AddPlain([p EXCEPT !.click = Unset], Lever) ELSE p,
               !.listening = @ \cup {n}]

(* jQuery.event.add: the first handler adds the native listener and, on a
   checkbox, claims the click by binding the controller before it. *)
Add(t, n, h) ==
  LET first == t.priv[n].list = <<>>
      p == IF first /\ n \in Boxes
           THEN AddPlain([t.priv[n] EXCEPT !.click = Unset], Lever)
           ELSE t.priv[n]
  IN [t EXCEPT !.priv[n] = AddPlain(p, h), !.listening = @ \cup {n}]

(* Which handlers off(types, selector, fn) means. *)
Meant(h, id, ns) == (id = "any" \/ h.id = id) /\ (ns = "" \/ h.ns = ns)

(* Variant: the delegates are not counted down. *)
TakeOutUncounted(p, j) ==
  [p EXCEPT !.list = SubSeq(@, 1, j - 1) \o SubSeq(@, j + 1, Len(@))]

TakeOut(p, j) ==
  [p EXCEPT !.list = SubSeq(@, 1, j - 1) \o SubSeq(@, j + 1, Len(@)),
            !.delegates = IF p.list[j].sel THEN @ - 1 ELSE @]

(* What off() leaves of a node's handlers, looking at them from the last. *)
Remaining(p, id, ns) ==
  LET Left[k \in 0..Len(p.list)] ==
        LET j == Len(p.list) + 1 - k
        IN IF k = 0 THEN p
           ELSE IF Meant(p.list[j], id, ns) THEN TakeOut(Left[k - 1], j)
           ELSE Left[k - 1]
  IN Left[Len(p.list)]

(* Data.remove of "handle events": the data stays if there is more in it,
   which is what leverageNative keeps. *)
RemoveData(p) == [NoData EXCEPT !.click = p.click]

(* jQuery.event.remove: with the last handler goes the listener. *)
Remove(t, n, id, ns) ==
  LET p == Remaining(t.priv[n], id, ns)
  IN IF p.list = <<>>
     THEN [t EXCEPT !.priv[n] = RemoveData(p), !.listening = @ \ {n}]
     ELSE [t EXCEPT !.priv[n] = p]

(* cleanData of a node and what is in it: all private data goes. *)
Clean(t, n) ==
  LET gone == {n} \cup {m \in Nodes : t.up[m] = n}
  IN [t EXCEPT !.priv = [m \in Nodes |-> IF m \in gone THEN NoData ELSE @[m]],
               !.listening = @ \ gone]

(* cloneCopyEvent: all private data is copied, then every handler is added,
   the first of which claims the click of a checkbox anew. *)
CopyEvents(t, n, c) ==
  LET from == t.priv[n]
      bare == [t EXCEPT !.priv[c] = [NoData EXCEPT !.click = from.click]]
      Adding[i \in 0..Len(from.list)] ==
        IF i = 0 THEN bare ELSE Add(Adding[i - 1], c, from.list[i])
  IN Adding[Len(from.list)]

(***************************************************************************)
(* Native events (external) and dispatch().                                *)
(***************************************************************************)

(* A click by the user, or by the click method, which does nothing while it
   runs.  A checkbox changes before anybody is told. *)
Native(t, n, method) ==
  IF method /\ n \in t.inClick THEN t
  ELSE Push([t EXCEPT
               !.checked = IF n \notin Boxes THEN @
                           ELSE IF n \in @ THEN @ \ {n} ELSE @ \cup {n},
               !.inClick = IF method THEN @ \cup {n} ELSE @],
            [at |-> "native", n |-> n, path |-> PathOf(t, n), method |-> method,
             stopped |-> FALSE, prevented |-> FALSE, was |-> n \in t.checked,
             made |-> Len(t.events)])

(* An exception ends everything up to the native listener it comes out of,
   or all there is; the browser goes on to the next listener. *)
Thrown(t) ==
  LET below == {i \in DOMAIN t.stack : t.stack[i].at = "native"}
      last == CHOOSE i \in below : \A j \in below : j <= i
      u == [t EXCEPT !.threw = TRUE]
  IN IF below = {} THEN [u EXCEPT !.stack = <<>>, !.events = <<>>]
     ELSE [u EXCEPT !.stack = SubSeq(@, 1, last),
                    !.events = SubSeq(@, 1, t.stack[last].made)]

(* A native event that was prevented lower down gives one that is. *)
NewEvent(n, ns, native, prevented) ==
  [target |-> n, trig |-> 0, native |-> native, ns |-> ns, reused |-> FALSE,
   stopped |-> FALSE, immediate |-> FALSE, prevented |-> prevented,
   delegateTarget |-> n, clicks |-> 0]

(* jQuery.event.handlers: the delegates that match, from the target up, then
   those of the node itself. *)
HandlerQueue(t, n, ev) ==
  LET p == t.priv[n]
      target == t.events[ev].target
      front == SubSeq(p.list, 1, p.delegates)
      direct == SubSeq(p.list, p.delegates + 1, Len(p.list))
  IN (IF target \in Boxes \ {n} /\ front # <<>>
      THEN <<[elem |-> target, todo |-> front]>> ELSE <<>>)
     \o (IF direct # <<>> THEN <<[elem |-> n, todo |-> direct]>> ELSE <<>>)

(* dispatch(), by the native listener or by trigger(): "discard the second
   event of a jQuery.event.trigger()". *)
Dispatch(t, n, ev, mine) ==
  Push([t EXCEPT !.events[ev].delegateTarget = n],
       [at |-> "dispatch", n |-> n, ev |-> ev, mine |-> mine,
        queue |-> HandlerQueue(t, n, ev)])

NativeTurn ==
  /\ At("native")
  /\ Top.path # <<>> /\ ~Top.stopped
  /\ LET n == Head(Top.path)
         t == Swap(s, [Top EXCEPT !.path = Tail(@)])
         made == [t EXCEPT !.events =
                    Append(@, NewEvent(Top.n, "", Depth, Top.prevented))]
     IN s' = IF n \in s.listening /\ ~s.triggered
             THEN Dispatch(made, n, Len(made.events), TRUE) ELSE t
  /\ UNCHANGED calls

(* A click that was prevented leaves a checkbox as it was. *)
NativeEnd ==
  /\ At("native")
  /\ Top.path = <<>> \/ Top.stopped
  /\ s' = [Pop(s) EXCEPT
             !.inClick = IF Top.method THEN @ \ {Top.n} ELSE @,
             !.checked = IF ~Top.prevented \/ Top.n \notin Boxes THEN @
                         ELSE IF Top.was THEN @ \cup {Top.n} ELSE @ \ {Top.n}]
  /\ UNCHANGED calls

(* What a handler does to an event, and to the native one it stands for. *)
Prevent(t, ev) ==
  LET u == [t EXCEPT !.events[ev].prevented = TRUE]
  IN IF t.events[ev].native = 0 THEN u
     ELSE [u EXCEPT !.stack[t.events[ev].native].prevented = TRUE]

StopPropagation(t, ev) ==
  LET u == [t EXCEPT !.events[ev].stopped = TRUE]
  IN IF t.events[ev].native = 0 THEN u
     ELSE [u EXCEPT !.stack[t.events[ev].native].stopped = TRUE]

StopImmediate(t, ev) ==
  StopPropagation([t EXCEPT !.events[ev].immediate = TRUE], ev)

(***************************************************************************)
(* trigger().                                                              *)
(***************************************************************************)

(* leverageNative of a trigger: "must force setup through jQuery.event.add". *)
ForceSetup(t, n) ==
  IF n \in Boxes /\ t.priv[n].click = Undefined THEN Add(t, n, IsTrue) ELSE t

Claimed(t, n) == \E i \in DOMAIN t.priv[n].list : t.priv[n].list[i] = Lever

(* jQuery.event.trigger of event number ev on node n. *)
Trigger(t, ev, n, only, mine) ==
  LET u == [t EXCEPT !.events[ev].trig = IF only THEN 2 ELSE 3]
      v == IF only THEN u ELSE ForceSetup(u, n)
  IN Push([v EXCEPT !.unclaimed = @ \/ (~only /\ n \in Boxes /\ ~Claimed(v, n))],
          [at |-> "trigger", n |-> n, ev |-> ev, only |-> only, mine |-> mine,
           path |-> IF only THEN <<n>> ELSE PathOf(v, n)])

TriggerNew(t, n, ns, only) ==
  LET u == [t EXCEPT !.events = Append(@, NewEvent(n, ns, 0, FALSE))]
  IN Trigger(u, Len(u.events), n, only, TRUE)

TriggerTurn ==
  /\ At("trigger")
  /\ Top.path # <<>> /\ ~s.events[Top.ev].stopped
  /\ LET n == Head(Top.path)
         t == Swap(s, [Top EXCEPT !.path = Tail(@)])
     IN s' = IF s.priv[n].list # <<>> /\ ~s.triggered
             THEN Dispatch(t, n, Top.ev, FALSE) ELSE t
  /\ UNCHANGED calls

(* A click method called for an event; it counts when it does something. *)
ClickFor(t, ev, n) ==
  LET u == Native(t, n, TRUE)
  IN IF u = t THEN t ELSE [u EXCEPT !.events[ev].clicks = @ + 1]

(* special.click._default: no native click inside a leveraged one. *)
Suppressed(t, ev) ==
  LET target == t.events[ev].target
  IN target \in Boxes /\ t.priv[target].click.is \in {"arguments", "capture"}

(* "If nobody prevented the default action, do it now": the click method,
   with the handlers that have been called kept out. *)
TriggerDefault ==
  /\ At("trigger")
  /\ Top.path = <<>> \/ s.events[Top.ev].stopped
  /\ LET default == /\ ~Top.only /\ Top.n # Doc
                    /\ ~s.events[Top.ev].prevented /\ ~Suppressed(s, Top.ev)
         t == Swap(s, [at |-> "triggered", ev |-> Top.ev, mine |-> Top.mine])
     IN s' = IF default THEN ClickFor([t EXCEPT !.triggered = TRUE], Top.ev, Top.n)
             ELSE t
  /\ UNCHANGED calls

TriggerEnd ==
  /\ At("triggered")
  /\ s' = [Pop(s) EXCEPT !.triggered = FALSE,
                         !.events = IF Top.mine THEN Drop(@) ELSE @]
  /\ UNCHANGED calls

(***************************************************************************)
(* Handlers.                                                               *)
(***************************************************************************)

(* The controller: a triggered click is interrupted for a native one, which
   in turn triggers the inner event with the arguments kept. *)
Leverage(t, n, ev) ==
  LET saved == t.priv[n].click
  IN IF saved = Undefined THEN Thrown(t)
     ELSE IF t.events[ev].trig = 3
     THEN IF HasLength(saved) THEN t
          ELSE ClickFor(Push([t EXCEPT !.priv[n].click = Arguments(ev)],
                             [at |-> "interrupted", n |-> n, ev |-> ev]), ev, n)
     ELSE IF ~HasLength(saved) THEN t
     ELSE LET fresh == [t EXCEPT !.events[saved.ev] =
                          [@ EXCEPT !.stopped = FALSE, !.immediate = FALSE,
                                    !.prevented = FALSE]]
          IN Trigger(Push(fresh, [at |-> "reinvoked", n |-> n, ev |-> ev]),
                     saved.ev, n, FALSE, FALSE)

(* Variant: the outer event goes on after the native one. *)
CancelledNot(t, ev) == t

(* "Cancel the outer synthetic event". *)
Cancelled(t, ev) == Prevent(StopImmediate(t, ev), ev)

(* The click has left its result, or the arguments if its handlers threw; if
   they also removed the node there is nothing, whose `value' throws. *)
InterruptedEnds ==
  /\ At("interrupted")
  /\ LET result == s.priv[Top.n].click
         t == [Pop(s) EXCEPT !.priv[Top.n].click = Unset]
     IN s' = IF result = Arguments(Top.ev) THEN t
             ELSE IF result = Undefined THEN Thrown(Cancelled(t, Top.ev))
             ELSE Cancelled(t, Top.ev)
  /\ UNCHANGED calls

(* "Abort handling of the native event". *)
ReinvokedEnds ==
  /\ At("reinvoked")
  /\ s' = StopImmediate([Pop(s) EXCEPT !.priv[Top.n].click = Capture], Top.ev)
  /\ UNCHANGED calls

(* Variant: the function of one() is called before it is unbound. *)
UnboundLater(t, h, ev) == t

(* The wrapper of one(): off(event) unbinds by what the event says. *)
Unbound(t, h, ev) ==
  IF h.one THEN Remove(t, t.events[ev].delegateTarget, h.id, h.ns) ELSE t

(* An event is given to one node after the other; handlers may trigger it
   again, throw or trigger another, so that it comes back from elsewhere. *)
Astray(t, f) == t.events[f.ev].delegateTarget # f.n

(* Whether the namespace of the event lets the handler be called. *)
Called(e, h) == e.ns = "" \/ h = Lever \/ h.ns = e.ns

(* dispatch: one handler, or the end. *)
DispatchTurn ==
  /\ At("dispatch")
  /\ LET e == s.events[Top.ev]
         over == [Pop(s) EXCEPT !.events = IF Top.mine THEN Drop(@) ELSE @]
     IN s' = IF Top.queue = <<>> THEN over
             ELSE LET q == Head(Top.queue)
                      h == Head(q.todo)
                      t == Swap(s, [Top EXCEPT !.queue[1].todo = Tail(@)])
                  IN IF q.todo = <<>>
                     THEN IF e.stopped THEN over
                          ELSE Swap(s, [Top EXCEPT !.queue = Tail(@)])
                     ELSE IF e.immediate THEN over
                     ELSE IF ~Called(e, h) \/ h = IsTrue THEN t
                     ELSE IF h = Lever THEN Leverage(t, q.elem, Top.ev)
                     ELSE Push([Unbound(t, h, Top.ev) EXCEPT
                                  !.rebound = @ \/ (h.one /\ Astray(t, Top))],
                               [at |-> "user", ev |-> Top.ev, h |-> h])
  /\ UNCHANGED calls

(* A handler returns; false means preventDefault and stopPropagation. *)
Return ==
  /\ At("user")
  /\ \/ s' = Pop(s)
     \/ s' = StopPropagation(Prevent(Pop(s), Top.ev), Top.ev)
  /\ UNCHANGED calls

Throw == At("user") /\ s' = Thrown(s) /\ UNCHANGED calls

(***************************************************************************)
(* What user code calls.                                                   *)
(***************************************************************************)
UserCode == s.stack # <<>> => Top.at = "user"
Call == UserCode /\ calls < MaxCalls /\ calls' = calls + 1

Running(h) == \E i \in DOMAIN s.stack : s.stack[i].at = "user" /\ s.stack[i].h = h

On(n, h) ==
  /\ Call
  /\ s' = [Add(s, n, h) EXCEPT !.rebound = @ \/ (h.one /\ Running(h))]

Off(n, id) == Call /\ s.priv[n].list # <<>> /\ s' = Remove(s, n, id, "")
Click(n) == Call /\ s' = Native(s, n, s.stack # <<>>)
TriggerCall(n, ns, only) == Call /\ s' = TriggerNew(s, n, ns, only)

(* trigger() of the event a handler has been given, "in case it is being
   reused". *)
Retrigger(n) ==
  /\ Call /\ s.stack # <<>>
  /\ s' = Trigger([s EXCEPT !.events[Top.ev].reused = TRUE], Top.ev, n, FALSE, FALSE)

StopCall ==
  /\ Call /\ s.stack # <<>>
  /\ \/ s' = StopImmediate(s, Top.ev)
     \/ s' = StopPropagation(s, Top.ev)
     \/ s' = Prevent(s, Top.ev)

(* remove() and detach(). *)
RemoveNode(n, keep) ==
  /\ Call /\ s.up[n] # None
  /\ s' = [(IF keep THEN s ELSE Clean(s, n)) EXCEPT !.up[n] = None]

(* append(): the node is moved from where it was. *)
Append_(n, m) ==
  /\ Call /\ n # m /\ s.up[n] # m /\ (n \in Plain => m = Doc)
  /\ s' = [s EXCEPT !.up[n] = m]

(* A node that is nowhere and that nothing goes on with. *)
Unused(c) ==
  /\ s.up[c] = None /\ s.priv[c] = NoData
  /\ \A i \in DOMAIN s.stack : s.stack[i].at \notin {"user", "triggered"} => s.stack[i].n # c

(* clone(true) makes a new node. *)
Clone(n, c) ==
  /\ Call /\ n # c /\ Unused(c)
  /\ s' = CopyEvents(s, n, c)

(* domManip with two targets: "use the original fragment for the last item",
   and a clone with its events, c, for the first. *)
AppendToBoth(n, c, first, last) ==
  /\ Call /\ n # c /\ first # last /\ Unused(c)
  /\ s' = [CopyEvents(s, n, c) EXCEPT !.up[c] = first, !.up[n] = last]

UserCall ==
  \/ \E n \in Nodes, h \in Handlers : On(n, h)
  \/ \E n \in Nodes, id \in {"any"} \cup {h.id : h \in Handlers} : Off(n, id)
  \/ \E n \in Nodes : Click(n) \/ Retrigger(n)
  \/ \E n \in Nodes, ns \in {""} \cup {h.ns : h \in Handlers}, only \in BOOLEAN :
       TriggerCall(n, ns, only)
  \/ StopCall
  \/ \E n \in Boxes \cup Plain :
       \/ \E m \in {Doc} \cup Plain : Append_(n, m)
       \/ \E keep \in BOOLEAN : RemoveNode(n, keep)
  \/ \E n, c \in Boxes :
       Clone(n, c) \/ \E first, last \in {Doc} \cup Plain : AppendToBoth(n, c, first, last)

Next ==
  \/ UserCall
  \/ NativeTurn \/ NativeEnd
  \/ TriggerTurn \/ TriggerDefault \/ TriggerEnd
  \/ InterruptedEnds \/ ReinvokedEnds
  \/ DispatchTurn \/ Return \/ Throw

Spec == Init /\ [][Next]_vars

(***************************************************************************)
(* Properties.                                                             *)
(***************************************************************************)
Quiet == s.stack = <<>>

TypeOK ==
  /\ s.up \in [Nodes -> {None, Doc} \cup Plain]
  /\ s.listening \subseteq Nodes /\ s.checked \subseteq Boxes
  /\ \A n \in Nodes : s.priv[n].delegates \in 0..Len(s.priv[n].list)
  /\ Quiet => s.events = <<>> /\ ~s.triggered /\ s.inClick = {}

(* A node listens as long as it has handlers, and those with a selector are
   the ones the count says are in front, whoever binds and unbinds them, in
   the middle of an event, by one() or by cloning. *)
ListensAsBound ==
  /\ TypeOK
  /\ \A n \in Nodes :
       LET p == s.priv[n]
       IN /\ n \in s.listening <=> p.list # <<>>
          /\ \A i \in DOMAIN p.list : p.list[i].sel <=> i <= p.delegates

(* "Ensuring that state changes have already occurred before other listeners
   are invoked": a handler of a click triggered on a checkbox runs inside
   the native click, or after it when the native one was cut short. *)
HandlersSeeTheChange ==
  \A i \in DOMAIN s.stack : s.stack[i].at = "user" =>
    LET e == s.events[s.stack[i].ev]
    IN e.trig = 3 /\ ~e.reused /\ e.target \in Boxes =>
         e.clicks > 0 \/ \E j \in 1..(i - 1) : s.stack[j].at = "native" /\ s.stack[j].n = e.target

(* The same as long as no checkbox has lost its controller. *)
ClaimedSeeTheChange == ~s.unclaimed => HandlersSeeTheChange

(* One event makes at most one native click: neither the controller nor the
   default action repeats what the other has done.  A handler that throws
   out of the native click leaves the outer event standing, which goes on to
   the handlers and the default action a second time. *)
ClicksOnce ==
  ~s.threw => \A i \in DOMAIN s.events : ~s.events[i].reused => s.events[i].clicks <= 1

(* Once the function of one() runs it is bound no more: an event that begins
   meanwhile, also one it triggers itself, does not reach it.  But off(event)
   looks at the node the event was given to last, which need not be its own. *)
OneIsUnbound ==
  ~s.rebound => \A i, j \in DOMAIN s.stack :
    LET f == s.stack[i]
        d == s.stack[j]
    IN f.at = "user" /\ f.h.one /\ j > i /\ d.at = "dispatch"
       /\ d.n = s.stack[i - 1].n =>
         \A k \in DOMAIN d.queue : \A m \in DOMAIN d.queue[k].todo :
           d.queue[k].todo[m] # f.h
=============================================================================
