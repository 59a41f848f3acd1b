----------------------------- MODULE AjaxProofs -----------------------------
(***************************************************************************)
(* What jQuery.ajax promises for any options, answers and numbers of       *)
(* requests and calls.  The invariant says of every frame on the stack,    *)
(* those of ajax() and of done(), what the request it belongs to must look *)
(* like (Fits), that a request has no two frames of a kind and that only   *)
(* what is on top can be about to settle (StackInv); what a request has    *)
(* been told so far (ReqInv); that one that is over is on its way to       *)
(* telling the rest (HeardInv), one not sent on its way to be (Begun); and *)
(* which requests jQuery.active counts (CountInv).  Each operator of the   *)
(* model is shown to keep the parts, then each action the whole.           *)
(*                                                                         *)
(* A second invariant, over the first, says whose a name is and what is    *)
(* known of data (OwnInv): a request keeps its name until it is settled    *)
(* (Lives, NamesOK), and a type or data that was noted is as asked (Known).*)
(* Most operators change none of this (Moves); left are installing,        *)
(* cleaning up, running a script and what the chain of converters gives.   *)
(***************************************************************************)
EXTENDS Ajax, TLAPS, FiniteSetTheorems, SequenceTheorems, WellFoundedInduction,
        NaturalsInduction

-----------------------------------------------------------------------------
(* Types. *)
Outcomes == {"success", "error"}
Tidings == Outcomes \cup {"complete"}
Roles == Tidings \cup {"none", "ajaxStart", "ajaxSend", "ajaxSuccess", "ajaxComplete",
                       "ajaxStop", "beforeSend", "prefilter"}
Early == {"prefiltered", "started", "allowed", "vetoed", "install"}
Unheard == {"settle", "global", "complete"}
Pcs ==
  Early \cup {"installing", "transport", "send"} \cup Unheard
    \cup {"ajaxComplete", "count", "none"}
Frame == [at : {"user", "native", "ajax", "done"}, i : Nat, role : Roles, pc : Pcs]

Fields ==
  {"o", "completed", "transport", "listening", "loading", "fire", "timer", "installed",
   "completeFired", "success", "told", "name", "container", "data", "type", "evaluated"}
Parts == {"req", "active", "window", "old", "made", "busy", "stack", "threw", "silent"}

(* A request; what the names and the data are is of no account here. *)
Request(r) ==
  /\ DOMAIN r = Fields
  /\ r.completed \in {"null", "no", "yes"}
  /\ r.transport \in BOOLEAN /\ r.listening \in BOOLEAN /\ r.fire \in BOOLEAN
  /\ r.installed \in BOOLEAN /\ r.completeFired \in BOOLEAN
  /\ r.told \in Seq(Tidings)

Page(t) ==
  /\ DOMAIN t = Parts
  /\ \E D : t.req \in Seq(D)
  /\ Len(t.req) <= MaxRequests
  /\ \A i \in DOMAIN t.req : Request(t.req[i])
  /\ t.active \in Int /\ t.busy \in BOOLEAN /\ t.threw \in BOOLEAN
  /\ t.window \in [1..MaxRequests -> 0..MaxRequests]
  /\ t.stack \in Seq(Frame)

-----------------------------------------------------------------------------
(* The invariant. *)
DoneOf(t, i) == {k \in DOMAIN t.stack : t.stack[k].at = "done" /\ t.stack[k].i = i}
AjaxOf(t, i) == {k \in DOMAIN t.stack : t.stack[k].at = "ajax" /\ t.stack[k].i = i}
Settling(t, i) == \E k \in DoneOf(t, i) : t.stack[k].pc = "settle"

DoneFits(r, f) ==
  /\ r.completed = "yes"
  /\ f.pc \in Unheard => ~r.completeFired
  /\ f.pc = "settle" => r.told = <<>>
AjaxFits(r, f) ==
  /\ r.completed # "no"
  /\ f.pc \in Early => ~r.installed /\ r.told = <<>>
  /\ f.pc = "installing" =>
       r.completed = "yes" /\ r.completeFired /\ ~r.installed /\ r.told = <<"complete">>
  /\ f.pc = "prefiltered" => ~r.fire
  /\ f.pc = "send" => r.transport \/ r.completed = "yes"
Fits(t, f) ==
  /\ f.i \in DOMAIN t.req
  /\ f.pc = "settle" => f.at = "done"
  /\ f.at = "done" => DoneFits(t.req[f.i], f)
  /\ f.at = "ajax" => AjaxFits(t.req[f.i], f)

Alike(f, g) == f.at = g.at /\ f.at \in {"ajax", "done"} /\ f.i = g.i

(* beforeSend is called by ajax(), which is waiting for what it says. *)
Asks(f) == f.at = "user" /\ f.role = "beforeSend"
Allows(f) == f.at = "ajax" /\ f.pc = "allowed"
AskInv(t) ==
  \A k \in DOMAIN t.stack : Asks(t.stack[k]) => k > 1 /\ Allows(t.stack[k - 1])

StackInv(t) ==
  /\ AskInv(t)
  /\ \A k \in DOMAIN t.stack : Fits(t, t.stack[k])
  /\ \A k, l \in DOMAIN t.stack : Alike(t.stack[k], t.stack[l]) => k = l
  /\ \A k \in DOMAIN t.stack : t.stack[k].pc = "settle" => k = Len(t.stack)

Timed(r) ==
  /\ r.timer => r.completed = "no"
  /\ r.listening => r.completed = "no" /\ r.transport
Told(r, settling) ==
  /\ r.completed # "yes" => r.told = <<>> /\ ~r.completeFired
  /\ ~r.installed => r.told = <<>> \/ (r.completeFired /\ r.told = <<"complete">>)
  /\ r.installed /\ r.completed = "yes" /\ ~settling => Times(r.told, Outcomes) = 1
  /\ r.installed /\ r.completeFired => Times(r.told, {"complete"}) = 1
  /\ ~r.completeFired => Times(r.told, {"complete"}) = 0
ReqInv(t) == \A i \in DOMAIN t.req : Timed(t.req[i]) /\ Told(t.req[i], Settling(t, i))

Begun(t, i) == ~t.threw /\ t.req[i].completed = "null" => AjaxOf(t, i) # {}
Heard(t, i) ==
  ~t.threw /\ t.req[i].completed = "yes" =>
    t.req[i].completeFired \/ \E k \in DoneOf(t, i) : t.stack[k].pc \in Unheard
HeardInv(t) == \A i \in DOMAIN t.req : Heard(t, i)

Counted(t) ==
  {i \in DOMAIN t.req :
     t.req[i].fire /\ (t.req[i].completed # "yes" \/ DoneOf(t, i) # {})}
CountInv(t) ==
  ~t.threw => t.active = Cardinality(Counted(t)) /\ (t.busy <=> Counted(t) # {})

(* All but that the request under way has its frame. *)
Mid(t) == StackInv(t) /\ ReqInv(t) /\ HeardInv(t) /\ CountInv(t)
Inv(t) == Mid(t) /\ \A i \in DOMAIN t.req : Begun(t, i)

-----------------------------------------------------------------------------
(* Moves. *)
SameReq(q, r) ==
  /\ q.completed = r.completed /\ q.transport = r.transport /\ q.listening = r.listening
  /\ q.fire = r.fire /\ q.timer = r.timer /\ q.installed = r.installed
  /\ q.completeFired = r.completeFired /\ q.told = r.told
SameTotals(t, u) == u.active = t.active /\ u.busy = t.busy /\ u.threw = t.threw
SameBut(t, u, i) ==
  /\ DOMAIN u.req = DOMAIN t.req
  /\ \A j \in DOMAIN t.req \ {i} : SameReq(t.req[j], u.req[j])
SameReqs(t, u) ==
  /\ DOMAIN u.req = DOMAIN t.req
  /\ \A j \in DOMAIN t.req : SameReq(t.req[j], u.req[j])

Under(t, u, n) == \A k \in 1..n : u.stack[k] = t.stack[k]
Pushed(t, u, f) ==
  /\ Len(u.stack) = Len(t.stack) + 1
  /\ Under(t, u, Len(t.stack))
  /\ u.stack[Len(u.stack)] = f
Swapped(t, u, f) ==
  /\ t.stack # <<>>
  /\ Len(u.stack) = Len(t.stack)
  /\ Under(t, u, Len(t.stack) - 1)
  /\ u.stack[Len(u.stack)] = f

LEMMA Types ==
  ASSUME NEW t, Page(t)
  PROVE  /\ Len(t.stack) \in Nat /\ DOMAIN t.stack = 1..Len(t.stack)
         /\ (t.stack # <<>> <=> Len(t.stack) > 0)
         /\ \A k \in DOMAIN t.stack : t.stack[k] \in Frame
         /\ Len(t.req) \in Nat /\ DOMAIN t.req = 1..Len(t.req)
         /\ IsFiniteSet(DOMAIN t.req) /\ IsFiniteSet(Counted(t))
<1>1. /\ Len(t.stack) \in Nat /\ DOMAIN t.stack = 1..Len(t.stack)
      /\ (t.stack # <<>> <=> Len(t.stack) > 0)
      /\ \A k \in DOMAIN t.stack : t.stack[k] \in Frame
      /\ Len(t.req) \in Nat /\ DOMAIN t.req = 1..Len(t.req)
  BY DEF Page
<1>2. IsFiniteSet(DOMAIN t.req)
  BY <1>1, FS_Interval
<1>3. Counted(t) \subseteq DOMAIN t.req
  BY DEF Counted
<1>. QED  BY <1>1, <1>2, <1>3, FS_Subset

(* What the frames of a longer stack are. *)
LEMMA PushedFrames ==
  ASSUME NEW t, NEW u, NEW f, Page(t), Page(u), Pushed(t, u, f)
  PROVE  \A i : /\ DoneOf(t, i) \subseteq DoneOf(u, i) /\ AjaxOf(t, i) \subseteq AjaxOf(u, i)
                /\ \A k \in DoneOf(t, i) : u.stack[k] = t.stack[k]
                /\ \A k \in DoneOf(u, i) : k \in DoneOf(t, i) \/ (u.stack[k] = f /\ k = Len(u.stack))
                /\ \A k \in AjaxOf(u, i) : k \in AjaxOf(t, i) \/ (u.stack[k] = f /\ k = Len(u.stack))
                /\ f.at = "done" /\ f.i = i => Len(u.stack) \in DoneOf(u, i)
                /\ f.at = "ajax" /\ f.i = i => Len(u.stack) \in AjaxOf(u, i)
<1>1. /\ Len(t.stack) \in Nat /\ DOMAIN t.stack = 1..Len(t.stack)
      /\ DOMAIN u.stack = 1..(Len(t.stack) + 1) /\ Len(u.stack) = Len(t.stack) + 1
  BY Types DEF Pushed
<1>. QED  BY <1>1 DEF DoneOf, AjaxOf, Pushed, Under

LEMMA CountSame ==
  ASSUME NEW t, NEW u, SameTotals(t, u), Counted(u) = Counted(t), CountInv(t)
  PROVE  CountInv(u)
BY DEF CountInv, SameTotals

-----------------------------------------------------------------------------
(* Nothing that matters changes, or a timer is cleared, or callbacks are taken
   off a transport. *)
CalmReq(q, r) ==
  /\ r.listening \in BOOLEAN /\ (r.listening => q.listening)
  /\ r.timer => q.timer
  /\ r.completed = q.completed /\ r.transport = q.transport /\ r.fire = q.fire
  /\ r.installed = q.installed /\ r.completeFired = q.completeFired /\ r.told = q.told
Calmly(t, u) ==
  /\ DOMAIN u.req = DOMAIN t.req /\ u.stack = t.stack /\ SameTotals(t, u)
  /\ \A j \in DOMAIN t.req : CalmReq(t.req[j], u.req[j])

LEMMA CalmKeeps ==
  ASSUME NEW t, NEW u, Calmly(t, u)
  PROVE  /\ Mid(t) => Mid(u)
         /\ Inv(t) => Inv(u)
         /\ \A i \in DOMAIN t.req : Begun(t, i) => Begun(u, i)
<1>1. \A i : /\ DoneOf(u, i) = DoneOf(t, i) /\ AjaxOf(u, i) = AjaxOf(t, i)
             /\ (Settling(u, i) <=> Settling(t, i))
  BY DEF DoneOf, AjaxOf, Settling, Calmly
<1>2. Counted(u) = Counted(t)
  BY <1>1 DEF Counted, Calmly, CalmReq
<1>3. \A f : Fits(t, f) => Fits(u, f)
  BY DEF Fits, DoneFits, AjaxFits, Calmly, CalmReq
<1>4. ASSUME Mid(t) PROVE Mid(u)
  <2>1. StackInv(u)
    BY <1>3, <1>4 DEF Mid, StackInv, AskInv, Calmly
  <2>2. ReqInv(u)
    BY <1>1, <1>4 DEF Mid, ReqInv, Timed, Told, Calmly, CalmReq
  <2>3. HeardInv(u)
    BY <1>1, <1>4 DEF Mid, HeardInv, Heard, Calmly, CalmReq, SameTotals
  <2>4. CountInv(u)
    BY <1>2, <1>4, CountSame DEF Mid, Calmly
  <2>. QED  BY <2>1, <2>2, <2>3, <2>4 DEF Mid
<1>5. \A i \in DOMAIN t.req : Begun(t, i) => Begun(u, i)
  BY <1>1 DEF Begun, Calmly, CalmReq, SameTotals
<1>. QED  BY <1>4, <1>5 DEF Inv, Calmly

LEMMA SameKeeps ==
  ASSUME NEW t, NEW u, Page(t), SameReqs(t, u), SameTotals(t, u), u.stack = t.stack
  PROVE  /\ Mid(t) => Mid(u)
         /\ Inv(t) => Inv(u)
         /\ \A i \in DOMAIN t.req : Begun(t, i) => Begun(u, i)
<1>1. Calmly(t, u)
  BY DEF Calmly, CalmReq, SameReqs, SameReq, Page, Request
<1>. QED  BY <1>1, CalmKeeps

(* User code is entered, or a native event. *)
Free(t) == \A k \in DOMAIN t.stack : t.stack[k].pc # "settle"
LEMMA PushKeeps ==
  ASSUME NEW t, NEW u, NEW f, Page(t), Page(u), SameReqs(t, u), SameTotals(t, u),
         Pushed(t, u, f), f.at \in {"user", "native"}, f.pc = "none", f.i \in DOMAIN t.req, Free(t),
         f.role = "beforeSend" => t.stack # <<>> /\ Allows(t.stack[Len(t.stack)])
  PROVE  /\ Mid(t) => Mid(u)
         /\ Inv(t) => Inv(u)
         /\ Free(u)
<1>. DEFINE n == Len(t.stack)
<1>0. /\ n \in Nat /\ DOMAIN t.stack = 1..n
      /\ DOMAIN u.stack = 1..(n + 1) /\ Len(u.stack) = n + 1
      /\ \A k \in 1..n : u.stack[k] = t.stack[k]
      /\ u.stack[n + 1] = f
      /\ f.at # "done" /\ f.at # "ajax" /\ f.pc # "settle"
  BY Types DEF Pushed, Under
<1>. HIDE DEF n
<1>t. \A k \in DOMAIN u.stack :
        (k \in DOMAIN t.stack /\ u.stack[k] = t.stack[k]) \/ (k = n + 1 /\ u.stack[k] = f)
  BY <1>0
<1>1. \A i : /\ DoneOf(u, i) = DoneOf(t, i) /\ AjaxOf(u, i) = AjaxOf(t, i)
             /\ (Settling(u, i) <=> Settling(t, i))
  <2>1. \A i : DoneOf(u, i) = DoneOf(t, i) /\ AjaxOf(u, i) = AjaxOf(t, i)
    BY <1>0 DEF DoneOf, AjaxOf
  <2>. QED  BY <1>0, <2>1 DEF Settling, DoneOf
<1>2. Counted(u) = Counted(t)
  BY <1>1 DEF Counted, SameReqs, SameReq
<1>3. \A g : Fits(t, g) => Fits(u, g)
  BY DEF Fits, DoneFits, AjaxFits, SameReqs, SameReq
<1>4. ASSUME Mid(t) PROVE Mid(u)
  <2>1. StackInv(u)
    <3>1. Fits(u, f)
      BY DEF Fits, SameReqs
    <3>2. \A k \in DOMAIN u.stack : Fits(u, u.stack[k])
      BY <1>t, <1>3, <1>4, <3>1 DEF Mid, StackInv
    <3>3. \A k, l \in DOMAIN u.stack : Alike(u.stack[k], u.stack[l]) => k = l
      BY <1>0, <1>t, <1>4 DEF Mid, StackInv, Alike
    <3>4. \A k \in DOMAIN u.stack : u.stack[k].pc # "settle"
      BY <1>0, <1>t DEF Free
    <3>5. AskInv(u)
      <4>. SUFFICES ASSUME NEW k \in DOMAIN u.stack, Asks(u.stack[k])
                    PROVE  k > 1 /\ Allows(u.stack[k - 1])
        BY DEF AskInv
      <4>1. CASE k \in DOMAIN t.stack /\ u.stack[k] = t.stack[k]
        <5>1. k > 1 /\ Allows(t.stack[k - 1])
          BY <1>4, <4>1 DEF Mid, StackInv, AskInv
        <5>. QED  BY <1>0, <4>1, <5>1
      <4>2. CASE k = n + 1 /\ u.stack[k] = f
        <5>1. t.stack # <<>> /\ Allows(t.stack[n])
          BY <4>2 DEF Asks, n
        <5>2. n > 0
          BY <5>1, Types DEF n
        <5>. QED  BY <1>0, <4>2, <5>1, <5>2
      <4>. QED  BY <1>t, <4>1, <4>2
    <3>. QED  BY <3>2, <3>3, <3>4, <3>5 DEF StackInv
  <2>2. ReqInv(u)
    BY <1>1, <1>4 DEF Mid, ReqInv, Timed, Told, SameReqs, SameReq
  <2>3. HeardInv(u)
    <3>. SUFFICES ASSUME NEW i \in DOMAIN u.req  PROVE Heard(u, i)
      BY DEF HeardInv
    <3>1. Heard(t, i)
      BY <1>4 DEF Mid, HeardInv, SameReqs
    <3>2. \A k \in DoneOf(t, i) : u.stack[k] = t.stack[k]
      BY <1>0 DEF DoneOf
    <3>. QED  BY <1>1, <3>1, <3>2 DEF Heard, SameReqs, SameReq, SameTotals
  <2>4. CountInv(u)
    BY <1>2, <1>4, CountSame DEF Mid
  <2>. QED  BY <2>1, <2>2, <2>3, <2>4 DEF Mid
<1>5. \A i \in DOMAIN t.req : Begun(t, i) => Begun(u, i)
  BY <1>1 DEF Begun, SameReqs, SameReq, SameTotals
<1>6. Free(u)
  BY <1>0, <1>t DEF Free
<1>. QED  BY <1>4, <1>5, <1>6 DEF Inv, SameReqs

(* What is on top returns: user code, a native event, or ajax(). *)
LEMMA PopKeeps ==
  ASSUME NEW t, NEW u, NEW f, Page(t), Page(u), SameReqs(t, u), SameTotals(t, u),
         Pushed(u, t, f), f.at # "done"
  PROVE  /\ Mid(t) => Mid(u)
         /\ \A i \in DOMAIN t.req : Begun(t, i) /\ ~(f.at = "ajax" /\ f.i = i) => Begun(u, i)
         /\ Free(t) => Free(u)
<1>0. /\ Len(u.stack) \in Nat /\ DOMAIN u.stack = 1..Len(u.stack)
      /\ DOMAIN t.stack = 1..(Len(u.stack) + 1) /\ Len(t.stack) = Len(u.stack) + 1
      /\ \A k \in 1..Len(u.stack) : u.stack[k] = t.stack[k]
      /\ t.stack[Len(u.stack) + 1] = f
  BY Types DEF Pushed, Under
<1>1. \A i : /\ DoneOf(u, i) = DoneOf(t, i) /\ (Settling(u, i) <=> Settling(t, i))
             /\ ~(f.at = "ajax" /\ f.i = i) => AjaxOf(u, i) = AjaxOf(t, i)
  <2>1. \A i : DoneOf(u, i) = DoneOf(t, i)
    BY <1>0 DEF DoneOf
  <2>2. \A i : ~(f.at = "ajax" /\ f.i = i) => AjaxOf(u, i) = AjaxOf(t, i)
    BY <1>0, SMTT(30) DEF AjaxOf
  <2>. QED  BY <1>0, <2>1, <2>2, Zenon DEF Settling, DoneOf
<1>2. Counted(u) = Counted(t)
  BY <1>1 DEF Counted, SameReqs, SameReq
<1>3. \A g : Fits(t, g) => Fits(u, g)
  BY DEF Fits, DoneFits, AjaxFits, SameReqs, SameReq
<1>4. ASSUME Mid(t) PROVE Mid(u)
  <2>1. StackInv(u)
    <3>2. \A k \in DOMAIN u.stack : Fits(u, u.stack[k])
      BY <1>0, <1>3, <1>4 DEF Mid, StackInv
    <3>3. \A k, l \in DOMAIN u.stack : Alike(u.stack[k], u.stack[l]) => k = l
      BY <1>0, <1>4 DEF Mid, StackInv
    <3>4. \A k \in DOMAIN u.stack : u.stack[k].pc # "settle"
      BY <1>0, <1>4 DEF Mid, StackInv
    <3>5. AskInv(u)
      BY <1>0, <1>4, SMTT(30) DEF Mid, StackInv, AskInv
    <3>. QED  BY <3>2, <3>3, <3>4, <3>5 DEF StackInv
  <2>2. ReqInv(u)
    BY <1>1, <1>4 DEF Mid, ReqInv, Timed, Told, SameReqs, SameReq
  <2>3. HeardInv(u)
    <3>. SUFFICES ASSUME NEW i \in DOMAIN u.req  PROVE Heard(u, i)
      BY DEF HeardInv
    <3>1. Heard(t, i)
      BY <1>4 DEF Mid, HeardInv, SameReqs
    <3>2. \A k \in DoneOf(u, i) : u.stack[k] = t.stack[k]
      BY <1>0 DEF DoneOf
    <3>. QED  BY <1>1, <3>1, <3>2 DEF Heard, SameReqs, SameReq, SameTotals
  <2>4. CountInv(u)
    BY <1>2, <1>4, CountSame DEF Mid
  <2>. QED  BY <2>1, <2>2, <2>3, <2>4 DEF Mid
<1>5. \A i \in DOMAIN t.req : Begun(t, i) /\ ~(f.at = "ajax" /\ f.i = i) => Begun(u, i)
  BY <1>1 DEF Begun, SameReqs, SameReq, SameTotals
<1>6. Free(t) => Free(u)
  BY <1>0 DEF Free
<1>. QED  BY <1>4, <1>5, <1>6

-----------------------------------------------------------------------------
(* The frame on top goes on, and its request with it. *)
Stands(t, f) == t.stack # <<>> /\ t.stack[Len(t.stack)] = f
GoesOn(t, u, f, g) ==
  /\ Stands(t, f) /\ Swapped(t, u, g)
  /\ f.at \in {"ajax", "done"} /\ g.at = f.at /\ g.i = f.i /\ g.pc # "settle"

LEMMA GoneOnFrames ==
  ASSUME NEW t, NEW u, NEW f, NEW g, Page(t), Page(u), GoesOn(t, u, f, g)
  PROVE  /\ \A i : DoneOf(u, i) = DoneOf(t, i) /\ AjaxOf(u, i) = AjaxOf(t, i)
         /\ DOMAIN u.stack = DOMAIN t.stack /\ Len(u.stack) = Len(t.stack)
         /\ Len(t.stack) \in DOMAIN t.stack
         /\ \A k \in DOMAIN t.stack : k # Len(t.stack) => u.stack[k] = t.stack[k]
         /\ t.stack[Len(t.stack)] = f /\ u.stack[Len(t.stack)] = g
         /\ f \in Frame /\ g \in Frame
<1>1. /\ DOMAIN u.stack = DOMAIN t.stack /\ Len(u.stack) = Len(t.stack)
      /\ Len(t.stack) \in DOMAIN t.stack
      /\ \A k \in DOMAIN t.stack : k # Len(t.stack) => u.stack[k] = t.stack[k]
      /\ t.stack[Len(t.stack)] = f /\ u.stack[Len(t.stack)] = g
      /\ f \in Frame /\ g \in Frame
  BY Types DEF GoesOn, Stands, Swapped, Under
<1>2. f.at = g.at /\ f.i = g.i
  BY DEF GoesOn
<1>3. \A i : \A k \in DOMAIN t.stack : k \in DoneOf(u, i) <=> k \in DoneOf(t, i)
  BY <1>1, <1>2 DEF DoneOf
<1>4. \A i : \A k \in DOMAIN t.stack : k \in AjaxOf(u, i) <=> k \in AjaxOf(t, i)
  BY <1>1, <1>2 DEF AjaxOf
<1>5. \A i : /\ DoneOf(u, i) \subseteq DOMAIN t.stack /\ DoneOf(t, i) \subseteq DOMAIN t.stack
             /\ AjaxOf(u, i) \subseteq DOMAIN t.stack /\ AjaxOf(t, i) \subseteq DOMAIN t.stack
  BY <1>1 DEF DoneOf, AjaxOf
<1>6. ASSUME NEW i PROVE DoneOf(u, i) = DoneOf(t, i) /\ AjaxOf(u, i) = AjaxOf(t, i)
  BY <1>3, <1>4, <1>5
<1>. QED  BY <1>1, <1>6

LEMMA GoneOnKeeps ==
  ASSUME NEW t, NEW u, NEW f, NEW g, Page(t), Page(u), GoesOn(t, u, f, g), Mid(t),
         SameBut(t, u, f.i), u.threw = t.threw, CountInv(u),
         \A h \in Frame :
           h.i = f.i /\ h.at # f.at /\ h.pc # "settle" /\ Fits(t, h) => Fits(u, h),
         Fits(u, g), Timed(u.req[f.i]), Told(u.req[f.i], FALSE), Heard(u, f.i)
  PROVE  /\ Mid(u) /\ Free(u)
         /\ \A j \in DOMAIN t.req : Begun(t, j) /\ j # f.i => Begun(u, j)
<1>0. /\ \A i : DoneOf(u, i) = DoneOf(t, i) /\ AjaxOf(u, i) = AjaxOf(t, i)
      /\ DOMAIN u.stack = DOMAIN t.stack /\ Len(u.stack) = Len(t.stack)
      /\ Len(t.stack) \in DOMAIN t.stack
      /\ \A k \in DOMAIN t.stack : k # Len(t.stack) => u.stack[k] = t.stack[k]
      /\ t.stack[Len(t.stack)] = f /\ u.stack[Len(t.stack)] = g
      /\ f \in Frame /\ g \in Frame
      /\ g.at = f.at /\ g.i = f.i /\ g.pc # "settle" /\ f.at \in {"ajax", "done"}
  BY GoneOnFrames DEF GoesOn
<1>m. StackInv(t)
  BY DEF Mid
<1>1. \A k \in DOMAIN u.stack : u.stack[k].pc # "settle"
  BY <1>0, <1>m DEF StackInv
<1>2. \A k \in DOMAIN u.stack : Fits(u, u.stack[k])
  <2>. SUFFICES ASSUME NEW k \in DOMAIN t.stack, k # Len(t.stack)  PROVE Fits(u, t.stack[k])
    BY <1>0
  <2>1. Fits(t, t.stack[k]) /\ t.stack[k] \in Frame /\ t.stack[k].pc # "settle"
    BY <1>0, <1>1, <1>m, Types, SMTT(30) DEF StackInv
  <2>2. CASE t.stack[k].i # f.i
    BY <2>1, <2>2 DEF Fits, DoneFits, AjaxFits, SameBut, SameReq
  <2>3. CASE t.stack[k].i = f.i
    <3>1. ~Alike(t.stack[k], f)
      BY <1>0, <1>m DEF StackInv
    <3>. QED  BY <1>0, <2>1, <2>3, <3>1 DEF Alike
  <2>. QED  BY <2>2, <2>3
<1>3. StackInv(u)
  <2>1. \A k, l \in DOMAIN u.stack : Alike(u.stack[k], u.stack[l]) => k = l
    <3>1. \A k \in DOMAIN u.stack : u.stack[k].at = t.stack[k].at /\ u.stack[k].i = t.stack[k].i
      BY <1>0
    <3>. QED  BY <1>0, <1>m, <3>1 DEF StackInv, Alike
  <2>2. AskInv(u)
    <3>1. \A k \in DOMAIN u.stack : Asks(u.stack[k]) => k # Len(t.stack)
      BY <1>0 DEF Asks
    <3>2. AskInv(t) /\ Len(t.stack) \in Nat /\ DOMAIN t.stack = 1..Len(t.stack)
      BY <1>m, Types DEF StackInv
    <3>. QED  BY <1>0, <3>1, <3>2 DEF AskInv
  <2>. QED  BY <1>1, <1>2, <2>1, <2>2 DEF StackInv
<1>4. \A i : ~Settling(u, i)
  BY <1>1 DEF Settling, DoneOf
<1>5. ReqInv(u)
  <2>. SUFFICES ASSUME NEW j \in DOMAIN t.req, j # f.i
       PROVE  Timed(u.req[j]) /\ Told(u.req[j], FALSE)
    <3>1. \A j \in DOMAIN u.req : Told(u.req[j], FALSE) => Told(u.req[j], Settling(u, j))
      BY <1>4 DEF Told
    <3>. QED  BY <3>1, Zenon DEF ReqInv, SameBut
  <2>1. Timed(t.req[j]) /\ Told(t.req[j], Settling(t, j)) /\ SameReq(t.req[j], u.req[j])
    BY DEF Mid, ReqInv, SameBut
  <2>2. ~Settling(t, j)
    BY <1>0, <1>m DEF Settling, DoneOf, StackInv
  <2>. QED  BY <2>1, <2>2 DEF Timed, Told, SameReq
<1>6. HeardInv(u)
  <2>. SUFFICES ASSUME NEW j \in DOMAIN t.req, j # f.i  PROVE Heard(u, j)
    BY DEF HeardInv, SameBut
  <2>1. Heard(t, j) /\ SameReq(t.req[j], u.req[j])
    BY DEF Mid, HeardInv, SameBut
  <2>2. \A k \in DoneOf(t, j) : u.stack[k] = t.stack[k]
    BY <1>0 DEF DoneOf
  <2>. QED  BY <1>0, <2>1, <2>2 DEF Heard, SameReq
<1>7. \A j \in DOMAIN t.req : Begun(t, j) /\ j # f.i => Begun(u, j)
  BY <1>0 DEF Begun, SameBut, SameReq
<1>8. Free(u)
  BY <1>1 DEF Free
<1>. QED  BY <1>3, <1>5, <1>6, <1>7, <1>8 DEF Mid

-----------------------------------------------------------------------------
(* Pages stay pages. *)
LEMMA ReshapedSeq ==
  ASSUME NEW D, NEW q \in Seq(D), NEW p, p = [k \in DOMAIN q |-> p[k]]
  PROVE  /\ \E E : p \in Seq(E)
         /\ DOMAIN p = DOMAIN q /\ Len(p) = Len(q)
<1>. DEFINE E == {p[k] : k \in DOMAIN q}
<1>1. q \in [1..Len(q) -> D] /\ Len(q) \in Nat /\ DOMAIN q = 1..Len(q)
  BY LenProperties
<1>2. p \in [1..Len(q) -> E] /\ DOMAIN p = 1..Len(q)
  BY <1>1
<1>3. p \in Seq(E)
  BY <1>1, <1>2, SeqDef
<1>. HIDE DEF E
<1>4. DOMAIN p = 1..Len(p) /\ Len(p) \in Nat
  BY <1>3, LenProperties
<1>5. Len(p) = Len(q)
  BY <1>1, <1>2, <1>4
<1>. QED  BY <1>1, <1>2, <1>3, <1>5

LEMMA Touched ==
  ASSUME NEW t, NEW u, NEW i, Page(t), DOMAIN u = Parts,
         u.req = [k \in DOMAIN t.req |-> u.req[k]],
         \A j \in DOMAIN t.req \ {i} : SameReq(t.req[j], u.req[j]) /\ Request(u.req[j]),
         i \in DOMAIN t.req => Request(u.req[i]),
         u.active \in Int, u.busy \in BOOLEAN, u.threw \in BOOLEAN,
         u.window \in [1..MaxRequests -> 0..MaxRequests], u.stack \in Seq(Frame)
  PROVE  Page(u) /\ SameBut(t, u, i)
<1>1. PICK D : t.req \in Seq(D)
  BY DEF Page
<1>2. /\ \E E : u.req \in Seq(E)
      /\ DOMAIN u.req = DOMAIN t.req /\ Len(u.req) = Len(t.req)
  BY <1>1, ReshapedSeq, Zenon
<1>3. \A j \in DOMAIN u.req : Request(u.req[j])
  BY <1>2, Zenon
<1>4. Len(t.req) <= MaxRequests
  BY DEF Page
<1>. QED  BY <1>2, <1>3, <1>4, Zenon DEF Page, SameBut

(* What matters stays. *)
Quietly(t, u) == Page(u) /\ SameReqs(t, u) /\ SameTotals(t, u) /\ u.stack = t.stack

LEMMA QuietlyOn ==
  ASSUME NEW t, NEW u, NEW v, Quietly(t, u), Quietly(u, v)
  PROVE  Quietly(t, v)
BY DEF Quietly, SameReqs, SameReq, SameTotals

LEMMA QuietlyNone ==
  ASSUME NEW t, Page(t)
  PROVE  Quietly(t, t)
BY DEF Quietly, SameReqs, SameReq, SameTotals

LEMMA QuietlyTouched ==
  ASSUME NEW t, NEW u, NEW i, Page(t), DOMAIN u = Parts,
         u.req = [k \in DOMAIN t.req |-> u.req[k]],
         \A j \in DOMAIN t.req \ {i} : u.req[j] = t.req[j],
         i \in DOMAIN t.req => DOMAIN u.req[i] = Fields /\ SameReq(t.req[i], u.req[i]),
         SameTotals(t, u), u.stack = t.stack,
         u.window \in [1..MaxRequests -> 0..MaxRequests]
  PROVE  Quietly(t, u)
<1>1. \A j \in DOMAIN t.req \ {i} : SameReq(t.req[j], u.req[j]) /\ Request(u.req[j])
  BY Zenon DEF Page, SameReq
<1>2. i \in DOMAIN t.req => Request(u.req[i])
  BY DEF Page, Request, SameReq
<1>3. u.active \in Int /\ u.busy \in BOOLEAN /\ u.threw \in BOOLEAN /\ u.stack \in Seq(Frame)
  BY DEF Page, SameTotals
<1>4. Page(u) /\ SameBut(t, u, i)
  BY <1>1, <1>2, <1>3, Touched, Zenon
<1>5. SameReqs(t, u)
  BY <1>4, Zenon DEF SameBut, SameReqs
<1>. QED  BY <1>4, <1>5 DEF Quietly

LEMMA CleanUpQuiet ==
  ASSUME NEW t, Page(t), NEW i \in DOMAIN t.req
  PROVE  Quietly(t, CleanUp(t, i))
<1>. DEFINE u == CleanUp(t, i)
<1>1. CASE ~Jsonp(t.req[i])
  BY <1>1, QuietlyNone DEF CleanUp
<1>2. CASE Jsonp(t.req[i])
  <2>1. u = [t EXCEPT !.window[t.req[i].name] = None, !.old = Append(@, t.req[i].name),
                      !.req[i].container = None]
    BY <1>2 DEF CleanUp
  <2>. HIDE DEF u
  <2>t. /\ DOMAIN t = Parts /\ DOMAIN t.req[i] = Fields
        /\ t.window \in [1..MaxRequests -> 0..MaxRequests]
    BY DEF Page, Request
  <2>2. /\ DOMAIN u = Parts
        /\ u.req = [k \in DOMAIN t.req |-> u.req[k]]
        /\ \A j \in DOMAIN t.req \ {i} : u.req[j] = t.req[j]
        /\ DOMAIN u.req[i] = Fields
    BY <2>1, <2>t DEF Parts, Fields
  <2>3. SameReq(t.req[i], u.req[i])
    BY <2>1, <2>t DEF SameReq, Parts, Fields
  <2>4. SameTotals(t, u) /\ u.stack = t.stack
    BY <2>1, <2>t DEF SameTotals, Parts
  <2>5. u.window \in [1..MaxRequests -> 0..MaxRequests]
    <3>1. u.window = [t.window EXCEPT ![t.req[i].name] = None]
      BY <2>1, <2>t DEF Parts
    <3>2. None \in 0..MaxRequests
      BY AjaxAssumption DEF None
    <3>. QED  BY <2>t, <3>1, <3>2, Zenon
  <2>. QED  BY <2>2, <2>3, <2>4, <2>5, QuietlyTouched, Zenon DEF u
<1>. QED  BY <1>1, <1>2

LEMMA EvaluatedQuiet ==
  ASSUME NEW t, Page(t), NEW i \in DOMAIN t.req
  PROVE  Quietly(t, [t EXCEPT !.req[i].evaluated = TRUE])
<1>. DEFINE u == [t EXCEPT !.req[i].evaluated = TRUE]
<1>1. u = [t EXCEPT !.req[i].evaluated = TRUE]
  OBVIOUS
<1>. HIDE DEF u
<1>t. /\ DOMAIN t = Parts /\ DOMAIN t.req[i] = Fields
      /\ t.window \in [1..MaxRequests -> 0..MaxRequests]
  BY DEF Page, Request
<1>2. /\ DOMAIN u = Parts
      /\ u.req = [k \in DOMAIN t.req |-> u.req[k]]
      /\ \A j \in DOMAIN t.req \ {i} : u.req[j] = t.req[j]
      /\ DOMAIN u.req[i] = Fields
  BY <1>1, <1>t, Zenon DEF Parts, Fields
<1>3. SameReq(t.req[i], u.req[i]) /\ SameTotals(t, u) /\ u.stack = t.stack /\ u.window = t.window
  BY <1>1, <1>t DEF SameReq, SameTotals, Parts, Fields
<1>. QED  BY <1>t, <1>2, <1>3, QuietlyTouched, Zenon DEF u

LEMMA ContainerQuiet ==
  ASSUME NEW t, Page(t), NEW i, NEW x
  PROVE  Quietly(t, [t EXCEPT !.req[i].container = x])
<1>. DEFINE u == [t EXCEPT !.req[i].container = x]
<1>1. u = [t EXCEPT !.req[i].container = x]
  OBVIOUS
<1>. HIDE DEF u
<1>t. /\ DOMAIN t = Parts /\ (i \in DOMAIN t.req => DOMAIN t.req[i] = Fields)
      /\ t.window \in [1..MaxRequests -> 0..MaxRequests]
  BY DEF Page, Request
<1>2. /\ DOMAIN u = Parts
      /\ u.req = [k \in DOMAIN t.req |-> u.req[k]]
      /\ \A j \in DOMAIN t.req \ {i} : u.req[j] = t.req[j]
  BY <1>1, <1>t DEF Parts
<1>3. i \in DOMAIN t.req => DOMAIN u.req[i] = Fields /\ SameReq(t.req[i], u.req[i])
  BY <1>1, <1>t DEF SameReq, Parts, Fields
<1>4. SameTotals(t, u) /\ u.stack = t.stack /\ u.window = t.window
  BY <1>1, <1>t DEF SameTotals, Parts
<1>. QED  BY <1>t, <1>2, <1>3, <1>4, QuietlyTouched, Zenon DEF u

LEMMA RunScriptQuiet ==
  ASSUME NEW t, Page(t), NEW i \in DOMAIN t.req, NEW a
  PROVE  Quietly(t, RunScript(t, i, a))
<1>. DEFINE u == [t EXCEPT !.req[i].evaluated = TRUE]
            v == [u EXCEPT !.silent = TRUE]
            w == [u EXCEPT !.req[t.window[t.req[i].name]].container = i]
<1>1. Quietly(t, u)
  BY EvaluatedQuiet
<1>2. RunScript(t, i, a) \in {u, v, w}
  BY DEF RunScript
<1>. HIDE DEF u
<1>3. Quietly(u, w)
  BY <1>1, ContainerQuiet, Zenon DEF Quietly
<1>4. Quietly(u, v)
  <2>1. Page(u)
    BY <1>1 DEF Quietly
  <2>2. DOMAIN u = Parts
    BY <2>1 DEF Page
  <2>3. /\ DOMAIN v = Parts /\ v.req = u.req /\ v.stack = u.stack /\ v.window = u.window
        /\ v.active = u.active /\ v.busy = u.busy /\ v.threw = u.threw
    BY <2>2 DEF Parts
  <2>. HIDE DEF v
  <2>4. Page(v)
    BY <2>1, <2>3 DEF Page
  <2>. QED  BY <2>3, <2>4 DEF Quietly, SameReqs, SameReq, SameTotals
<1>5. Quietly(t, v) /\ Quietly(t, w)
  BY <1>1, <1>3, <1>4, QuietlyOn, Zenon
<1>. QED  BY <1>1, <1>2, <1>5, Zenon

LEMMA ConvertedQuiet ==
  ASSUME NEW t, Page(t), NEW i \in DOMAIN t.req, NEW a
  PROVE  Quietly(t, Converted(t, i, a))
<1>. DEFINE u == IF <<"text", "script">> \in Steps(Chain(t.req[i].o, a))
                 THEN RunScript(t, i, a) ELSE t
            v(x, y, z) == [u EXCEPT !.req[i].success = x, !.req[i].data = y, !.req[i].type = z]
<1>1. Quietly(t, u)
  BY RunScriptQuiet, QuietlyNone
<1>. DEFINE chain == Chain(t.req[i].o, a)
            got == u.req[i].container
            byScript == <<"script", "json">> \in Steps(chain)
            error == \/ Last(chain) = "none"
                     \/ <<"text", "json">> \in Steps(chain) /\ ~a.valid
                     \/ byScript /\ got = None
            success == /\ a.status \in {200, 204, 304}
                       /\ a.status = 200 => ~error
            data == IF a.status # 200 THEN None ELSE IF byScript THEN got ELSE i
            type == IF a.status # 200 THEN "none"
                    ELSE IF Len(chain) = 1 THEN a.body ELSE Last(chain)
<1>2. Converted(t, i, a) = v(success, data, type)
  BY Zenon DEF Converted
<1>. HIDE DEF u
<1>3. ASSUME NEW x, NEW y, NEW z  PROVE Quietly(u, v(x, y, z))
  <2>. DEFINE w == v(x, y, z)
  <2>1. w = [u EXCEPT !.req[i].success = x, !.req[i].data = y, !.req[i].type = z]
    OBVIOUS
  <2>. HIDE DEF w
  <2>p. Page(u) /\ i \in DOMAIN u.req
    BY <1>1 DEF Quietly, SameReqs
  <2>t. /\ DOMAIN u = Parts /\ DOMAIN u.req[i] = Fields
        /\ u.window \in [1..MaxRequests -> 0..MaxRequests]
    BY <2>p DEF Page, Request
  <2>2. /\ DOMAIN w = Parts
        /\ w.req = [k \in DOMAIN u.req |-> w.req[k]]
        /\ \A j \in DOMAIN u.req \ {i} : w.req[j] = u.req[j]
        /\ DOMAIN w.req[i] = Fields
    BY <2>1, <2>p, <2>t DEF Parts, Fields
  <2>3. SameReq(u.req[i], w.req[i]) /\ SameTotals(u, w) /\ w.stack = u.stack /\ w.window = u.window
    BY <2>1, <2>p, <2>t DEF SameReq, SameTotals, Parts, Fields
  <2>4. Quietly(u, w)
    BY <2>p, <2>t, <2>2, <2>3, QuietlyTouched, Zenon
  <2>. QED  BY <2>4 DEF w
<1>. HIDE DEF success, data, type
<1>4. Quietly(u, v(success, data, type))
  BY <1>3, Zenon
<1>. HIDE DEF v
<1>. QED  BY <1>1, <1>2, <1>4, QuietlyOn

LEMMA QuietKeeps ==
  ASSUME NEW t, NEW u, Page(t), Quietly(t, u)
  PROVE  /\ Mid(t) => Mid(u)
         /\ Inv(t) => Inv(u)
         /\ \A i \in DOMAIN t.req : Begun(t, i) => Begun(u, i)
         /\ Free(t) => Free(u)
BY SameKeeps DEF Quietly, Free

LEMMA StackAppend ==
  ASSUME NEW t, NEW u, NEW f \in Frame, Page(t), u.stack = Append(t.stack, f)
  PROVE  u.stack \in Seq(Frame) /\ Pushed(t, u, f)
<1>1. t.stack \in Seq(Frame)
  BY DEF Page
<1>. QED  BY <1>1, AppendProperties DEF Pushed, Under

(* The request is settled: done() is entered. *)
SettledReq(q, r) ==
  /\ r.completed = "yes" /\ r.timer = FALSE /\ r.transport = FALSE
  /\ r.listening = q.listening
  /\ r.fire = q.fire /\ r.installed = q.installed
  /\ r.completeFired = q.completeFired /\ r.told = q.told

LEMMA EntersDone ==
  ASSUME NEW t, NEW u, NEW i \in DOMAIN t.req, NEW f, Page(t), Page(u),
         SameBut(t, u, i), SettledReq(t.req[i], u.req[i]), SameTotals(t, u),
         Pushed(t, u, f), f.at = "done", f.i = i, f.pc = "settle",
         t.req[i].completed # "yes", ~t.req[i].listening, Free(t), Mid(t),
         \A j \in DOMAIN t.req \ {i} : Begun(t, j)
  PROVE  Inv(u)
<1>. DEFINE n == Len(t.stack)
<1>0. /\ n \in Nat /\ DOMAIN t.stack = 1..n
      /\ DOMAIN u.stack = 1..(n + 1) /\ Len(u.stack) = n + 1
      /\ \A k \in 1..n : u.stack[k] = t.stack[k]
      /\ u.stack[n + 1] = f
  BY Types DEF Pushed, Under
<1>. HIDE DEF n
<1>t. \A k \in DOMAIN u.stack :
        (k \in DOMAIN t.stack /\ u.stack[k] = t.stack[k]) \/ (k = n + 1 /\ u.stack[k] = f)
  BY <1>0
<1>m. StackInv(t) /\ ReqInv(t) /\ HeardInv(t) /\ CountInv(t)
  BY DEF Mid
<1>1. DoneOf(t, i) = {} /\ ~Settling(t, i)
  BY <1>m DEF DoneOf, StackInv, Fits, DoneFits, Settling
<1>2. n + 1 \in DoneOf(u, i) /\ Settling(u, i)
  BY <1>0 DEF DoneOf, Settling
<1>3. ASSUME NEW j, j # i  PROVE DoneOf(u, j) = DoneOf(t, j)
  BY <1>0, <1>3 DEF DoneOf
<1>4. ASSUME NEW j  PROVE AjaxOf(u, j) = AjaxOf(t, j)
  BY <1>0 DEF AjaxOf
<1>5. StackInv(u)
  <2>1. Fits(u, f)
    <3>1. Told(t.req[i], Settling(t, i))
      BY <1>m DEF ReqInv
    <3>. QED  BY <3>1 DEF Fits, DoneFits, SettledReq, Told, SameBut
  <2>2. \A k \in DOMAIN t.stack : Fits(u, t.stack[k])
    <3>. SUFFICES ASSUME NEW k \in DOMAIN t.stack  PROVE Fits(u, t.stack[k])
      OBVIOUS
    <3>1. Fits(t, t.stack[k])
      BY <1>m DEF StackInv
    <3>2. CASE t.stack[k].i # i
      BY <3>1, <3>2 DEF Fits, DoneFits, AjaxFits, SameBut, SameReq
    <3>3. CASE t.stack[k].i = i
      BY <3>1, <3>3 DEF Fits, DoneFits, AjaxFits, SameBut, SettledReq
    <3>. QED  BY <3>2, <3>3
  <2>3. \A k \in DOMAIN u.stack : Fits(u, u.stack[k])
    BY <1>t, <2>1, <2>2
  <2>4. \A k \in DOMAIN u.stack : u.stack[k].pc = "settle" => k = Len(u.stack)
    BY <1>0, <1>t DEF Free
  <2>5. \A k \in DOMAIN t.stack : ~Alike(t.stack[k], f) /\ ~Alike(f, t.stack[k])
    BY <1>1 DEF Alike, DoneOf
  <2>6. \A k, l \in DOMAIN u.stack : Alike(u.stack[k], u.stack[l]) => k = l
    BY <1>0, <1>t, <1>m, <2>5 DEF StackInv
  <2>7. AskInv(u)
    <3>. SUFFICES ASSUME NEW k \in DOMAIN u.stack, Asks(u.stack[k])
                  PROVE  k > 1 /\ Allows(u.stack[k - 1])
      BY DEF AskInv
    <3>1. k \in 1..n /\ u.stack[k] = t.stack[k]
      BY <1>0, <1>t DEF Asks
    <3>2. k > 1 /\ Allows(t.stack[k - 1])
      BY <1>0, <1>m, <3>1 DEF StackInv, AskInv
    <3>. QED  BY <1>0, <3>1, <3>2
  <2>. QED  BY <2>3, <2>4, <2>6, <2>7 DEF StackInv
<1>6. ReqInv(u)
  <2>. SUFFICES ASSUME NEW j \in DOMAIN t.req
       PROVE  Timed(u.req[j]) /\ Told(u.req[j], Settling(u, j))
    BY DEF ReqInv, SameBut
  <2>1. Timed(t.req[j]) /\ Told(t.req[j], Settling(t, j))
    BY <1>m DEF ReqInv
  <2>2. CASE j = i
    BY <1>2, <2>1, <2>2 DEF Timed, Told, SettledReq
  <2>3. CASE j # i
    <3>1. Settling(u, j) <=> Settling(t, j)
      <4>1. \A k \in DoneOf(t, j) : u.stack[k] = t.stack[k]
        BY <1>0 DEF DoneOf
      <4>. QED  BY <1>3, <2>3, <4>1 DEF Settling
    <3>2. SameReq(t.req[j], u.req[j])
      BY <2>3 DEF SameBut
    <3>. QED  BY <2>1, <3>1, <3>2 DEF Timed, Told, SameReq
  <2>. QED  BY <2>2, <2>3
<1>7. HeardInv(u)
  <2>. SUFFICES ASSUME NEW j \in DOMAIN t.req  PROVE Heard(u, j)
    BY DEF HeardInv, SameBut
  <2>1. CASE j = i
    BY <1>0, <1>2, <2>1 DEF Heard, Unheard
  <2>2. CASE j # i
    <3>1. Heard(t, j) /\ SameReq(t.req[j], u.req[j])
      BY <1>m, <2>2 DEF HeardInv, SameBut
    <3>2. \A k \in DoneOf(t, j) : u.stack[k] = t.stack[k]
      BY <1>0 DEF DoneOf
    <3>. QED  BY <1>3, <2>2, <3>1, <3>2 DEF Heard, SameReq, SameTotals
  <2>. QED  BY <2>1, <2>2
<1>8. CountInv(u)
  <2>1. ASSUME NEW j \in DOMAIN t.req  PROVE j \in Counted(u) <=> j \in Counted(t)
    <3>1. CASE j = i
      BY <1>2, <3>1 DEF Counted, SettledReq, SameBut
    <3>2. CASE j # i
      BY <1>3, <3>2 DEF Counted, SameReq, SameBut
    <3>. QED  BY <3>1, <3>2
  <2>2. Counted(u) = Counted(t)
    BY <2>1 DEF Counted, SameBut
  <2>. QED  BY <1>m, <2>2, CountSame
<1>9. \A j \in DOMAIN u.req : Begun(u, j)
  <2>. SUFFICES ASSUME NEW j \in DOMAIN t.req  PROVE Begun(u, j)
    BY DEF SameBut
  <2>1. CASE j = i
    BY <2>1 DEF Begun, SettledReq
  <2>2. CASE j # i
    BY <1>4, <2>2 DEF Begun, SameBut, SameReq, SameTotals
  <2>. QED  BY <2>1, <2>2
<1>. QED  BY <1>5, <1>6, <1>7, <1>8, <1>9 DEF Inv, Mid

-----------------------------------------------------------------------------
(* The stack's operators. *)
LEMMA PushPage ==
  ASSUME NEW t, Page(t), NEW f \in Frame
  PROVE  LET u == Push(t, f)
         IN Page(u) /\ SameReqs(t, u) /\ SameTotals(t, u) /\ Pushed(t, u, f)
<1>. DEFINE u == Push(t, f)
<1>1. u = [t EXCEPT !.stack = Append(@, f)]
  BY DEF Push
<1>. HIDE DEF u
<1>2. DOMAIN t = Parts
  BY DEF Page
<1>3. /\ DOMAIN u = Parts /\ u.req = t.req /\ u.stack = Append(t.stack, f) /\ u.window = t.window
      /\ u.active = t.active /\ u.busy = t.busy /\ u.threw = t.threw
  BY <1>1, <1>2 DEF Parts
<1>4. u.stack \in Seq(Frame) /\ Pushed(t, u, f)
  BY <1>3, StackAppend, Zenon
<1>5. Page(u)
  BY <1>3, <1>4 DEF Page
<1>. QED  BY <1>3, <1>4, <1>5 DEF u, SameReqs, SameReq, SameTotals

LEMMA PopPage ==
  ASSUME NEW t, Page(t), NEW f, Stands(t, f)
  PROVE  LET u == Pop(t)
         IN Page(u) /\ SameReqs(t, u) /\ SameTotals(t, u) /\ Pushed(u, t, f)
<1>. DEFINE u == Pop(t)
<1>1. u = [t EXCEPT !.stack = SubSeq(@, 1, Len(@) - 1)]
  BY DEF Pop
<1>. HIDE DEF u
<1>2. DOMAIN t = Parts /\ t.stack \in Seq(Frame) /\ t.stack # <<>>
  BY DEF Page, Stands
<1>3. /\ DOMAIN u = Parts /\ u.req = t.req /\ u.stack = SubSeq(t.stack, 1, Len(t.stack) - 1)
      /\ u.window = t.window
      /\ u.active = t.active /\ u.busy = t.busy /\ u.threw = t.threw
  BY <1>1, <1>2 DEF Parts
<1>4. /\ Len(t.stack) \in Nat \ {0}
      /\ u.stack \in Seq(Frame) /\ Len(u.stack) = Len(t.stack) - 1
      /\ \A k \in 1..(Len(t.stack) - 1) : u.stack[k] = t.stack[k]
  BY <1>2, <1>3
<1>5. Page(u)
  BY <1>3, <1>4 DEF Page
<1>6. Pushed(u, t, f)
  BY <1>4 DEF Pushed, Under, Stands
<1>. QED  BY <1>3, <1>5, <1>6 DEF u, SameReqs, SameReq, SameTotals

LEMMA SwapStack ==
  ASSUME NEW t, Page(t), NEW f, Stands(t, f), NEW g \in Frame, NEW u,
         u.stack = [t.stack EXCEPT ![Len(t.stack)] = g]
  PROVE  u.stack \in Seq(Frame) /\ Swapped(t, u, g)
<1>1. t.stack \in Seq(Frame) /\ t.stack # <<>>
  BY DEF Page, Stands
<1>2. /\ u.stack \in Seq(Frame) /\ Len(u.stack) = Len(t.stack)
      /\ \A j \in 1..Len(t.stack) : u.stack[j] = IF j = Len(t.stack) THEN g ELSE t.stack[j]
      /\ Len(t.stack) \in Nat \ {0}
  BY <1>1, ExceptSeq
<1>. QED  BY <1>1, <1>2 DEF Swapped, Under

Turned(f, pc) == [at |-> f.at, i |-> f.i, role |-> f.role, pc |-> pc]

LEMMA GotoPage ==
  ASSUME NEW t, Page(t), NEW f, Stands(t, f), NEW pc \in Pcs
  PROVE  LET u == Goto(t, pc)
         IN /\ Page(u) /\ SameReqs(t, u) /\ SameTotals(t, u) /\ Swapped(t, u, Turned(f, pc))
            /\ u.req = t.req
            /\ Turned(f, pc) \in Frame /\ f \in Frame /\ Stands(u, Turned(f, pc))
<1>. DEFINE u == Goto(t, pc)
<1>1. u = [t EXCEPT !.stack[Len(t.stack)].pc = pc]
  BY DEF Goto
<1>. HIDE DEF u
<1>2. DOMAIN t = Parts /\ t.stack # <<>> /\ t.stack[Len(t.stack)] = f /\ f \in Frame
  BY Types DEF Page, Stands
<1>3. /\ DOMAIN u = Parts /\ u.req = t.req
      /\ u.stack = [t.stack EXCEPT ![Len(t.stack)] = [t.stack[Len(t.stack)] EXCEPT !.pc = pc]]
      /\ u.window = t.window
      /\ u.active = t.active /\ u.busy = t.busy /\ u.threw = t.threw
  BY <1>1, <1>2 DEF Parts
<1>4. [f EXCEPT !.pc = pc] = Turned(f, pc) /\ Turned(f, pc) \in Frame
  BY <1>2 DEF Frame, Turned
<1>5. u.stack \in Seq(Frame) /\ Swapped(t, u, Turned(f, pc))
  <2>1. u.stack = [t.stack EXCEPT ![Len(t.stack)] = Turned(f, pc)]
    BY <1>2, <1>3, <1>4
  <2>. QED  BY <1>4, <2>1, SwapStack, Zenon
<1>6. Page(u)
  BY <1>3, <1>5 DEF Page
<1>7. Stands(u, Turned(f, pc))
  BY <1>5, <1>6, Types DEF Swapped, Stands
<1>. QED  BY <1>2, <1>3, <1>4, <1>5, <1>6, <1>7 DEF u, SameReqs, SameReq, SameTotals

LEMMA UserKeeps ==
  ASSUME NEW t, Page(t), Free(t), NEW i \in DOMAIN t.req, NEW role \in Roles,
         role = "beforeSend" => t.stack # <<>> /\ Allows(t.stack[Len(t.stack)])
  PROVE  LET u == User(t, i, role)
         IN /\ Page(u) /\ SameReqs(t, u) /\ Free(u) /\ u.req = t.req
            /\ Inv(t) => Inv(u)
<1>. DEFINE f == [at |-> "user", i |-> i, role |-> role, pc |-> "none"]
<1>1. f \in Frame /\ f.at = "user" /\ f.i = i /\ f.pc = "none" /\ f.role = role
  BY Types DEF Frame, Pcs
<1>2. User(t, i, role) = Push(t, f)
  BY DEF User
<1>. HIDE DEF f
<1>3. Push(t, f).req = t.req
  BY DEF Push, Page, Parts
<1>. QED  BY <1>1, <1>2, <1>3, PushPage, PushKeeps

-----------------------------------------------------------------------------
(* done(). *)
LEMMA DoneKeeps ==
  ASSUME NEW t, Page(t), NEW i \in DOMAIN t.req, NEW a, Free(t), Mid(t),
         ~t.req[i].listening, \A j \in DOMAIN t.req \ {i} : Begun(t, j)
  PROVE  Page(Done(t, i, a)) /\ Inv(Done(t, i, a))
<1>1. CASE t.req[i].completed = "yes"
  <2>1. Begun(t, i)
    BY <1>1 DEF Begun
  <2>. QED  BY <1>1, <2>1 DEF Done, Inv
<1>2. CASE t.req[i].completed # "yes"
  <2>. DEFINE f == [at |-> "done", i |-> i, role |-> "none", pc |-> "settle"]
              c == Converted(t, i, a)
              u == Push([c EXCEPT !.req[i].completed = "yes", !.req[i].timer = FALSE,
                                  !.req[i].transport = FALSE], f)
  <2>1. Done(t, i, a) = u
    BY <1>2 DEF Done
  <2>2. u = [c EXCEPT !.req[i].completed = "yes", !.req[i].timer = FALSE,
                      !.req[i].transport = FALSE, !.stack = Append(@, f)]
    <3>1. Page(c)
      BY ConvertedQuiet DEF Quietly
    <3>. HIDE DEF c
    <3>. QED  BY <3>1 DEF Push, Page, Parts
  <2>3. f \in Frame /\ f.at = "done" /\ f.i = i /\ f.pc = "settle"
    BY Types DEF Frame, Pcs, Roles, Unheard
  <2>4. Quietly(t, c)
    BY ConvertedQuiet
  <2>. HIDE DEF f, c, u
  <2>5. /\ Page(c) /\ Mid(c) /\ Free(c) /\ i \in DOMAIN c.req
        /\ c.req[i].completed # "yes" /\ ~c.req[i].listening
        /\ \A j \in DOMAIN c.req \ {i} : Begun(c, j)
    BY <1>2, <2>4, QuietKeeps DEF Quietly, SameReqs, SameReq
  <2>t. /\ DOMAIN c = Parts /\ DOMAIN c.req[i] = Fields
        /\ c.window \in [1..MaxRequests -> 0..MaxRequests]
        /\ c.active \in Int /\ c.busy \in BOOLEAN /\ c.threw \in BOOLEAN
        /\ Request(c.req[i])
    BY <2>5 DEF Page, Request
  <2>6. /\ DOMAIN u = Parts
        /\ u.req = [k \in DOMAIN c.req |-> u.req[k]]
        /\ \A j \in DOMAIN c.req \ {i} : u.req[j] = c.req[j]
        /\ DOMAIN u.req[i] = Fields
    BY <2>2, <2>5, <2>t DEF Parts, Fields
  <2>7. SettledReq(c.req[i], u.req[i])
    BY <2>2, <2>5, <2>t DEF SettledReq, Parts, Fields
  <2>8. SameTotals(c, u) /\ u.stack = Append(c.stack, f) /\ u.window = c.window
    BY <2>2, <2>t DEF SameTotals, Parts
  <2>9. u.stack \in Seq(Frame) /\ Pushed(c, u, f)
    BY <2>3, <2>5, <2>8, StackAppend, Zenon
  <2>10. Request(u.req[i])
    BY <2>t, <2>6, <2>7, Zenon DEF Request, SettledReq
  <2>11. \A j \in DOMAIN c.req \ {i} : SameReq(c.req[j], u.req[j]) /\ Request(u.req[j])
    BY <2>5, <2>6, Zenon DEF SameReq, Page
  <2>12. Page(u) /\ SameBut(c, u, i)
    BY <2>5, <2>t, <2>6, <2>8, <2>9, <2>10, <2>11, Touched, Zenon DEF SameTotals
  <2>. QED  BY <2>1, <2>3, <2>5, <2>7, <2>8, <2>9, <2>12, EntersDone
<1>. QED  BY <1>1, <1>2

-----------------------------------------------------------------------------
(* abort(). *)
LEMMA CalmPage ==
  ASSUME NEW t, NEW u, NEW i \in DOMAIN t.req, Page(t),
         \/ u = [t EXCEPT !.req[i].listening = FALSE]
         \/ u = [t EXCEPT !.req[i].timer = FALSE]
         \/ u = [t EXCEPT !.req[i].loading = FALSE, !.req[i].listening = FALSE]
  PROVE  Page(u) /\ Calmly(t, u)
<1>t. DOMAIN t = Parts /\ DOMAIN t.req[i] = Fields /\ Request(t.req[i])
  BY DEF Page, Request
<1>1. /\ DOMAIN u = Parts
      /\ u.req = [k \in DOMAIN t.req |-> u.req[k]]
      /\ \A j \in DOMAIN t.req \ {i} : u.req[j] = t.req[j]
      /\ DOMAIN u.req[i] = Fields
  <2>1. CASE u = [t EXCEPT !.req[i].listening = FALSE]
    BY <1>t, <2>1, Zenon DEF Parts, Fields
  <2>2. CASE u = [t EXCEPT !.req[i].timer = FALSE]
    BY <1>t, <2>2, Zenon DEF Parts, Fields
  <2>3. CASE u = [t EXCEPT !.req[i].loading = FALSE, !.req[i].listening = FALSE]
    BY <1>t, <2>3 DEF Parts, Fields
  <2>. QED  BY <2>1, <2>2, <2>3
<1>2. /\ u.stack = t.stack /\ u.window = t.window
      /\ u.active = t.active /\ u.busy = t.busy /\ u.threw = t.threw
  BY <1>t, Zenon DEF Parts
<1>3. CalmReq(t.req[i], u.req[i])
  <2>1. CASE u = [t EXCEPT !.req[i].listening = FALSE]
    BY <1>t, <2>1 DEF CalmReq, Parts, Fields, Request
  <2>2. CASE u = [t EXCEPT !.req[i].timer = FALSE]
    BY <1>t, <2>2 DEF CalmReq, Parts, Fields, Request
  <2>3. CASE u = [t EXCEPT !.req[i].loading = FALSE, !.req[i].listening = FALSE]
    BY <1>t, <2>3 DEF CalmReq, Parts, Fields, Request
  <2>. QED  BY <2>1, <2>2, <2>3
<1>5. \A j \in DOMAIN t.req \ {i} : SameReq(t.req[j], u.req[j]) /\ Request(u.req[j])
  BY <1>1, Zenon DEF Page, SameReq
<1>6. Request(u.req[i])
  BY <1>t, <1>1, <1>3 DEF Request, CalmReq
<1>7. Page(u) /\ SameBut(t, u, i)
  BY <1>1, <1>2, <1>5, <1>6, Touched, ZenonT(30) DEF Page
<1>8. Calmly(t, u)
  BY <1>2, <1>3, <1>5, <1>7 DEF Calmly, CalmReq, SameBut, SameReq, SameTotals, Page, Request
<1>. QED  BY <1>7, <1>8

LEMMA AbortKeeps ==
  ASSUME NEW t, Page(t), NEW i \in DOMAIN t.req, Free(t), Mid(t),
         \A j \in DOMAIN t.req \ {i} : Begun(t, j)
  PROVE  Page(AbortRequest(t, i)) /\ Inv(AbortRequest(t, i))
<1>. DEFINE u == Silence(t, i)
<1>1. /\ Page(u) /\ Mid(u) /\ Free(u) /\ i \in DOMAIN u.req /\ ~u.req[i].listening
      /\ \A j \in DOMAIN u.req \ {i} : Begun(u, j)
  <2>1. CASE t.req[i].transport
    <3>1. u = [t EXCEPT !.req[i].listening = FALSE]
      BY <2>1 DEF Silence
    <3>. HIDE DEF u
    <3>2. Page(u) /\ Calmly(t, u)
      BY <3>1, CalmPage, Zenon
    <3>3. u.req[i].listening = FALSE
      BY <3>1 DEF Page, Request, Parts, Fields
    <3>. QED  BY <3>2, <3>3, CalmKeeps DEF Calmly, Free
  <2>2. CASE ~t.req[i].transport
    <3>1. u = t
      BY <2>2 DEF Silence
    <3>2. Timed(t.req[i])
      BY DEF Mid, ReqInv
    <3>. QED  BY <2>2, <3>1, <3>2 DEF Timed
  <2>. QED  BY <2>1, <2>2
<1>. HIDE DEF u
<1>2. Page(Done(u, i, NoAnswer)) /\ Inv(Done(u, i, NoAnswer))
  BY <1>1, DoneKeeps
<1>. QED  BY <1>2 DEF AbortRequest, u

-----------------------------------------------------------------------------
(* How often a request was told something. *)
LEMMA TimesEmpty ==
  ASSUME NEW W
  PROVE  Times(<<>>, W) = 0
<1>1. {k \in DOMAIN <<>> : <<>>[k] \in W} = {}
  OBVIOUS
<1>. QED  BY <1>1, FS_EmptySet DEF Times

LEMMA TimesAppend ==
  ASSUME NEW S, NEW q \in Seq(S), NEW x \in S, NEW W
  PROVE  /\ Times(q, W) \in Nat
         /\ x \in W => Times(Append(q, x), W) = Times(q, W) + 1
         /\ x \notin W => Times(Append(q, x), W) = Times(q, W)
<1>. DEFINE n == Len(q)
            Q == {k \in DOMAIN q : q[k] \in W}
            r == Append(q, x)
            R == {k \in DOMAIN r : r[k] \in W}
<1>1. n \in Nat /\ DOMAIN q = 1..n /\ DOMAIN r = 1..(n + 1)
      /\ (\A k \in 1..n : r[k] = q[k]) /\ r[n + 1] = x
  BY AppendProperties
<1>. HIDE DEF n, r
<1>2. IsFiniteSet(Q) /\ Cardinality(Q) \in Nat
  <2>1. IsFiniteSet(DOMAIN q)
    BY <1>1, FS_Interval
  <2>2. Q \subseteq DOMAIN q
    OBVIOUS
  <2>. QED  BY <2>1, <2>2, FS_Subset, FS_CardinalityType
<1>3. n + 1 \notin Q
  BY <1>1
<1>4. x \in W => R = Q \cup {n + 1}
  BY <1>1
<1>5. x \notin W => R = Q
  BY <1>1
<1>. HIDE DEF Q, R
<1>6. Cardinality(Q \cup {n + 1}) = Cardinality(Q) + 1
  BY <1>2, <1>3, FS_AddElement, Zenon
<1>. QED  BY <1>2, <1>4, <1>5, <1>6, Zenon DEF Times, Q, R, r

-----------------------------------------------------------------------------
(* What is on top goes on, its request unchanged. *)
LEMMA FreeTop ==
  ASSUME NEW t, Page(t), NEW f, Stands(t, f), f.pc # "settle", StackInv(t)
  PROVE  Free(t)
BY Types DEF Free, Stands, StackInv

LEMMA FreeIdle ==
  ASSUME NEW t, Page(t), t.stack = <<>>
  PROVE  Free(t)
BY Types DEF Free

LEMMA TopFits ==
  ASSUME NEW t, Page(t), NEW f, Stands(t, f), StackInv(t)
  PROVE  /\ Fits(t, f) /\ f \in Frame /\ f.i \in DOMAIN t.req /\ Request(t.req[f.i])
         /\ f.at = "done" => DoneOf(t, f.i) = {Len(t.stack)}
         /\ f.at = "ajax" => AjaxOf(t, f.i) = {Len(t.stack)}
<1>1. /\ Len(t.stack) \in DOMAIN t.stack /\ t.stack[Len(t.stack)] = f
  BY Types DEF Stands
<1>2. Fits(t, f) /\ f \in Frame
  BY <1>1, Types DEF StackInv
<1>3. f.i \in DOMAIN t.req /\ Request(t.req[f.i])
  BY <1>2 DEF Fits, Page
<1>4. \A k \in DOMAIN t.stack : Alike(t.stack[k], f) => k = Len(t.stack)
  BY <1>1 DEF StackInv
<1>5. f.at = "done" => DoneOf(t, f.i) = {Len(t.stack)}
  BY <1>1, <1>4 DEF Alike, DoneOf
<1>6. f.at = "ajax" => AjaxOf(t, f.i) = {Len(t.stack)}
  BY <1>1, <1>4 DEF Alike, AjaxOf
<1>. QED  BY <1>2, <1>3, <1>5, <1>6

LEMMA GotoKeeps ==
  ASSUME NEW t, Page(t), NEW f, Stands(t, f), Inv(t), f.at \in {"ajax", "done"},
         f.pc # "settle", NEW pc \in Pcs, pc # "settle",
         f.at = "done" => (f.pc \in Unheard <=> pc \in Unheard),
         f.at = "ajax" => AjaxFits(t.req[f.i], Turned(f, pc))
  PROVE  Page(Goto(t, pc)) /\ Inv(Goto(t, pc)) /\ Free(Goto(t, pc)) /\ Goto(t, pc).req = t.req
<1>. DEFINE u == Goto(t, pc)
            g == Turned(f, pc)
<1>1. /\ Page(u) /\ SameReqs(t, u) /\ SameTotals(t, u) /\ Swapped(t, u, g)
      /\ u.req = t.req /\ g \in Frame /\ Stands(u, g)
  BY GotoPage
<1>2. g.at = f.at /\ g.i = f.i /\ g.pc = pc
  BY DEF Turned
<1>3. AjaxFits(t.req[f.i], g) \/ f.at = "done"
  OBVIOUS
<1>. HIDE DEF u, g
<1>4. GoesOn(t, u, f, g)
  BY <1>1, <1>2 DEF GoesOn
<1>m. Mid(t) /\ StackInv(t) /\ CountInv(t)
  BY DEF Inv, Mid
<1>5. Fits(t, f) /\ f \in Frame /\ f.i \in DOMAIN t.req
  BY <1>m, TopFits
<1>6. Fits(u, g)
  BY <1>1, <1>2, <1>3, <1>5 DEF Fits, DoneFits
<1>7. /\ \A i : DoneOf(u, i) = DoneOf(t, i) /\ AjaxOf(u, i) = AjaxOf(t, i)
      /\ \A k \in DOMAIN t.stack : k # Len(t.stack) => u.stack[k] = t.stack[k]
      /\ t.stack[Len(t.stack)] = f /\ u.stack[Len(t.stack)] = g
      /\ Len(t.stack) \in DOMAIN t.stack
  BY <1>1, <1>4, GoneOnFrames
<1>8. CountInv(u)
  <2>1. Counted(u) = Counted(t)
    BY <1>1, <1>7 DEF Counted
  <2>. QED  BY <1>1, <1>m, <2>1, CountSame
<1>9. Timed(u.req[f.i]) /\ Told(u.req[f.i], FALSE)
  <2>1. Timed(t.req[f.i]) /\ Told(t.req[f.i], Settling(t, f.i))
    BY <1>m, <1>5 DEF Mid, ReqInv
  <2>2. ~Settling(t, f.i)
    BY <1>m, FreeTop DEF Free, Settling, DoneOf
  <2>. QED  BY <1>1, <2>1, <2>2 DEF Told
<1>10. Heard(u, f.i)
  <2>1. Heard(t, f.i)
    BY <1>m, <1>5 DEF Mid, HeardInv
  <2>2. \A k \in DoneOf(t, f.i) : t.stack[k].pc \in Unheard => u.stack[k].pc \in Unheard
    BY <1>2, <1>7 DEF DoneOf
  <2>. QED  BY <1>1, <1>7, <2>1, <2>2 DEF Heard, SameTotals
<1>11. \A h : Fits(t, h) => Fits(u, h)
  BY <1>1 DEF Fits
<1>12. SameBut(t, u, f.i) /\ u.threw = t.threw
  BY <1>1 DEF SameBut, SameReqs, SameTotals
<1>13. Mid(u) /\ Free(u)
  BY <1>1, <1>4, <1>m, <1>6, <1>8, <1>9, <1>10, <1>11, <1>12, GoneOnKeeps, Zenon
<1>14. \A j \in DOMAIN u.req : Begun(u, j)
  BY <1>1, <1>7 DEF Inv, Begun, SameTotals
<1>. QED  BY <1>1, <1>13, <1>14 DEF Inv, u

(* Fields of the request on top that are changed on the way. *)
SameStage(q, r) ==
  /\ r.completed = q.completed /\ r.transport = q.transport /\ r.listening = q.listening
  /\ r.fire = q.fire /\ r.timer = q.timer /\ r.installed = q.installed

LEMMA TellPage ==
  ASSUME NEW t, Page(t), NEW i \in DOMAIN t.req, NEW x \in Tidings
  PROVE  LET u == [t EXCEPT !.req[i].told = Append(@, x)]
         IN
         /\ Page(u) /\ SameBut(t, u, i) /\ SameTotals(t, u) /\ u.stack = t.stack
         /\ u.req[i].told = Append(t.req[i].told, x)
         /\ SameStage(t.req[i], u.req[i]) /\ u.req[i].completeFired = t.req[i].completeFired
<1>. DEFINE u == [t EXCEPT !.req[i].told = Append(@, x)]
<1>e. u = [t EXCEPT !.req[i].told = Append(@, x)]
  OBVIOUS
<1>. HIDE DEF u
<1>t. DOMAIN t = Parts /\ DOMAIN t.req[i] = Fields /\ Request(t.req[i])
  BY DEF Page, Request
<1>1. /\ DOMAIN u = Parts
      /\ u.req = [k \in DOMAIN t.req |-> u.req[k]]
      /\ \A j \in DOMAIN t.req \ {i} : u.req[j] = t.req[j]
      /\ DOMAIN u.req[i] = Fields
  BY <1>e, <1>t, Zenon DEF Parts, Fields
<1>2. /\ u.stack = t.stack /\ u.window = t.window
      /\ u.active = t.active /\ u.busy = t.busy /\ u.threw = t.threw
  BY <1>e, <1>t DEF Parts
<1>3. /\ u.req[i].told = Append(t.req[i].told, x)
      /\ SameStage(t.req[i], u.req[i]) /\ u.req[i].completeFired = t.req[i].completeFired
  BY <1>e, <1>t DEF SameStage, Parts, Fields
<1>4. Append(t.req[i].told, x) \in Seq(Tidings)
  BY <1>t DEF Request
<1>5. Request(u.req[i])
  BY <1>t, <1>1, <1>3, <1>4, Zenon DEF Request, SameStage
<1>6. \A j \in DOMAIN t.req \ {i} : SameReq(t.req[j], u.req[j]) /\ Request(u.req[j])
  BY <1>1, Zenon DEF Page, SameReq
<1>p. /\ u.active \in Int /\ u.busy \in BOOLEAN /\ u.threw \in BOOLEAN
      /\ u.window \in [1..MaxRequests -> 0..MaxRequests] /\ u.stack \in Seq(Frame)
  BY <1>2 DEF Page
<1>7. Page(u) /\ SameBut(t, u, i)
  BY <1>1, <1>5, <1>6, <1>p, Touched, Zenon
<1>. QED  BY <1>2, <1>3, <1>7 DEF SameTotals, u

-----------------------------------------------------------------------------
(* done() goes on. *)
LEMMA DoneStep ==
  ASSUME NEW t, NEW u, NEW f, NEW g, Page(t), Page(u), Inv(t), GoesOn(t, u, f, g),
         f.at = "done", SameBut(t, u, f.i), SameTotals(t, u),
         SameStage(t.req[f.i], u.req[f.i]),
         g.pc \in Unheard => ~u.req[f.i].completeFired,
         g.pc \in Unheard \/ u.req[f.i].completeFired, Told(u.req[f.i], FALSE),
         \A h : AjaxFits(t.req[f.i], h) => AjaxFits(u.req[f.i], h)
  PROVE  Inv(u) /\ Free(u)
<1>m. Mid(t) /\ StackInv(t) /\ CountInv(t) /\ Stands(t, f)
  BY DEF Inv, Mid, GoesOn
<1>0. /\ Fits(t, f) /\ f \in Frame /\ f.i \in DOMAIN t.req /\ Request(t.req[f.i])
      /\ DoneOf(t, f.i) = {Len(t.stack)}
  BY <1>m, TopFits
<1>1. /\ \A i : DoneOf(u, i) = DoneOf(t, i) /\ AjaxOf(u, i) = AjaxOf(t, i)
      /\ u.stack[Len(t.stack)] = g
      /\ g.at = "done" /\ g.i = f.i /\ g.pc # "settle"
  BY GoneOnFrames DEF GoesOn
<1>2. t.req[f.i].completed = "yes" /\ u.req[f.i].completed = "yes"
  BY <1>0 DEF Fits, DoneFits, SameStage
<1>3. CountInv(u)
  <2>1. ASSUME NEW j \in DOMAIN t.req  PROVE j \in Counted(u) <=> j \in Counted(t)
    <3>1. CASE j = f.i
      BY <1>1, <3>1 DEF Counted, SameStage, SameBut
    <3>2. CASE j # f.i
      BY <1>1, <3>2 DEF Counted, SameReq, SameBut
    <3>. QED  BY <3>1, <3>2
  <2>2. Counted(u) = Counted(t)
    BY <2>1 DEF Counted, SameBut
  <2>. QED  BY <1>m, <2>2, CountSame
<1>4. Fits(u, g)
  BY <1>0, <1>1, <1>2 DEF Fits, DoneFits, SameBut
<1>5. \A h \in Frame : h.i = f.i /\ h.at # f.at /\ h.pc # "settle" /\ Fits(t, h) => Fits(u, h)
  BY <1>0 DEF Fits, SameBut
<1>6. Timed(u.req[f.i])
  <2>1. Timed(t.req[f.i])
    BY <1>m, <1>0 DEF Mid, ReqInv
  <2>. QED  BY <2>1 DEF Timed, SameStage
<1>7. Heard(u, f.i)
  BY <1>0, <1>1 DEF Heard
<1>8. /\ Mid(u) /\ Free(u)
      /\ \A j \in DOMAIN t.req : Begun(t, j) /\ j # f.i => Begun(u, j)
  BY <1>m, <1>3, <1>4, <1>5, <1>6, <1>7, GoneOnKeeps, Zenon DEF SameTotals
<1>9. Begun(u, f.i)
  BY <1>2 DEF Begun
<1>. QED  BY <1>8, <1>9 DEF Inv, SameBut

LEMMA SettleKeeps ==
  ASSUME NEW t, Page(t), Inv(t), NEW f, Stands(t, f), f.at = "done", f.pc = "settle",
         NEW x \in Outcomes
  PROVE  LET m == Goto(CleanUp(t, f.i), "global")
             u == IF t.req[f.i].installed THEN Tell(m, f.i, x) ELSE m
         IN Page(u) /\ Inv(u)
<1>. DEFINE i == f.i
            c == CleanUp(t, i)
            m == Goto(c, "global")
            g == Turned(f, "global")
            v == [m EXCEPT !.req[i].told = Append(@, x)]
<1>0. i \in DOMAIN t.req
  BY TopFits DEF Inv, Mid
<1>1. Page(c) /\ Inv(c) /\ Stands(c, f) /\ i \in DOMAIN c.req /\ SameReq(t.req[i], c.req[i])
  BY <1>0, CleanUpQuiet, QuietKeeps DEF Quietly, SameReqs, Stands
<1>. HIDE DEF c
<1>2. /\ Page(m) /\ SameReqs(c, m) /\ SameTotals(c, m) /\ Swapped(c, m, g)
      /\ m.req = c.req /\ g \in Frame
  <2>1. "global" \in Pcs
    BY DEF Pcs, Unheard
  <2>. QED  BY <1>1, <2>1, GotoPage
<1>3. g.at = "done" /\ g.i = f.i /\ g.pc = "global"
  BY DEF Turned
<1>. HIDE DEF g, m
<1>4. GoesOn(c, m, f, g)
  BY <1>1, <1>2, <1>3 DEF GoesOn
<1>5. c.req[i].told = <<>> /\ ~c.req[i].completeFired
  BY <1>1, TopFits DEF Inv, Mid, Fits, DoneFits, Unheard
<1>6. CASE ~t.req[i].installed
  <2>1. ~m.req[i].installed /\ m.req[i] = c.req[i]
    BY <1>1, <1>2, <1>6 DEF SameReq
  <2>2. Told(m.req[i], FALSE)
    BY <1>5, <2>1, TimesEmpty DEF Told
  <2>3. SameStage(c.req[i], m.req[i]) /\ SameBut(c, m, i)
    BY <1>2, <2>1 DEF SameStage, SameBut, SameReqs
  <2>4. Inv(m)
    BY <1>1, <1>2, <1>3, <1>4, <1>5, <2>1, <2>2, <2>3, DoneStep, Zenon DEF Unheard
  <2>. QED  BY <1>2, <1>6, <2>4 DEF m, c
<1>7. CASE t.req[i].installed
  <2>0. i \in DOMAIN m.req /\ x \in Tidings /\ x \in Roles /\ x # "beforeSend"
    BY <1>1, <1>2 DEF Tidings, Roles, Outcomes
  <2>1. /\ Page(v) /\ SameBut(m, v, i) /\ SameTotals(m, v) /\ v.stack = m.stack
        /\ v.req[i].told = Append(m.req[i].told, x)
        /\ SameStage(m.req[i], v.req[i]) /\ v.req[i].completeFired = m.req[i].completeFired
    BY <1>2, <2>0, TellPage, Zenon
  <2>2. Tell(m, i, x) = User(v, i, x)
    BY DEF Tell
  <2>. HIDE DEF v
  <2>3. GoesOn(c, v, f, g)
    BY <1>4, <2>1 DEF GoesOn, Swapped, Under
  <2>4. SameBut(c, v, i) /\ SameTotals(c, v) /\ SameStage(c.req[i], v.req[i])
    BY <1>2, <2>1 DEF SameBut, SameTotals, SameStage
  <2>5. /\ v.req[i].installed /\ ~v.req[i].completeFired /\ v.req[i].completed = "yes"
        /\ v.req[i].told = Append(<<>>, x)
    <3>1. c.req[i].completed = "yes"
      BY <1>1, TopFits DEF Inv, Mid, Fits, DoneFits
    <3>. QED  BY <1>1, <1>2, <1>5, <1>7, <2>1, <2>4, <3>1, Zenon DEF SameStage, SameReq
  <2>6. /\ Times(v.req[i].told, Outcomes) = 1 /\ Times(v.req[i].told, {"complete"}) = 0
    <3>1. <<>> \in Seq(Tidings) /\ x \in Tidings /\ x \notin {"complete"}
      BY DEF Tidings, Outcomes
    <3>2. Times(Append(<<>>, x), Outcomes) = Times(<<>>, Outcomes) + 1
      BY <3>1, TimesAppend, Zenon
    <3>3. Times(Append(<<>>, x), {"complete"}) = Times(<<>>, {"complete"})
      BY <3>1, TimesAppend, Zenon
    <3>. QED  BY <2>5, <3>2, <3>3, TimesEmpty
  <2>7. Told(v.req[i], FALSE)
    BY <2>5, <2>6 DEF Told
  <2>f. \A h : AjaxFits(c.req[i], h) => AjaxFits(v.req[i], h)
    <3>1. c.req[i].installed
      BY <1>1, <1>7 DEF SameReq
    <3>. QED  BY <2>4, <2>5, <3>1 DEF AjaxFits, SameStage
  <2>8. Inv(v) /\ Free(v)
    BY <1>1, <1>3, <2>1, <2>3, <2>4, <2>5, <2>7, <2>f, DoneStep, Zenon DEF Unheard
  <2>9. i \in DOMAIN v.req
    BY <2>0, <2>1 DEF SameBut
  <2>10. Page(User(v, i, x)) /\ Inv(User(v, i, x))
    BY <2>0, <2>1, <2>8, <2>9, UserKeeps
  <2>. QED  BY <1>7, <2>2, <2>10 DEF m, c
<1>. QED  BY <1>6, <1>7

LEMMA FlagPage ==
  ASSUME NEW t, Page(t), NEW i \in DOMAIN t.req,
         NEW flag \in {"transport", "installed", "completeFired", "fire"}
  PROVE  LET u == [t EXCEPT !.req[i][flag] = TRUE]
         IN /\ Page(u) /\ SameBut(t, u, i) /\ SameTotals(t, u) /\ u.stack = t.stack
            /\ u.req[i][flag] = TRUE
            /\ \A field \in Fields \ {flag} : u.req[i][field] = t.req[i][field]
<1>. DEFINE u == [t EXCEPT !.req[i][flag] = TRUE]
<1>e. u = [t EXCEPT !.req[i][flag] = TRUE]
  OBVIOUS
<1>. HIDE DEF u
<1>t. /\ DOMAIN t = Parts /\ DOMAIN t.req[i] = Fields /\ Request(t.req[i]) /\ flag \in Fields
  BY DEF Page, Request, Fields
<1>1. /\ DOMAIN u = Parts
      /\ u.req = [k \in DOMAIN t.req |-> u.req[k]]
      /\ \A j \in DOMAIN t.req \ {i} : u.req[j] = t.req[j]
      /\ u.req[i] = [t.req[i] EXCEPT ![flag] = TRUE]
  BY <1>e, <1>t, Zenon DEF Parts
<1>2. /\ u.stack = t.stack /\ u.window = t.window
      /\ u.active = t.active /\ u.busy = t.busy /\ u.threw = t.threw
  BY <1>e, <1>t DEF Parts
<1>3. /\ DOMAIN u.req[i] = Fields /\ u.req[i][flag] = TRUE
      /\ \A field \in Fields \ {flag} : u.req[i][field] = t.req[i][field]
  BY <1>t, <1>1
<1>5. Request(u.req[i])
  BY <1>t, <1>3, Zenon DEF Request, Fields
<1>6. \A j \in DOMAIN t.req \ {i} : SameReq(t.req[j], u.req[j]) /\ Request(u.req[j])
  BY <1>1, Zenon DEF Page, SameReq
<1>p. /\ u.active \in Int /\ u.busy \in BOOLEAN /\ u.threw \in BOOLEAN
      /\ u.window \in [1..MaxRequests -> 0..MaxRequests] /\ u.stack \in Seq(Frame)
  BY <1>2 DEF Page
<1>7. Page(u) /\ SameBut(t, u, i)
  BY <1>1, <1>5, <1>6, <1>p, Touched, Zenon
<1>. QED  BY <1>2, <1>3, <1>7 DEF SameTotals, u

LEMMA CompleteKeeps ==
  ASSUME NEW t, Page(t), Inv(t), NEW f, Stands(t, f), f.at = "done", f.pc = "complete"
  PROVE  LET m == [Goto(t, "ajaxComplete") EXCEPT !.req[f.i].completeFired = TRUE]
             u == IF t.req[f.i].installed THEN Tell(m, f.i, "complete") ELSE m
         IN Page(u) /\ Inv(u)
<1>. DEFINE i == f.i
            p == Goto(t, "ajaxComplete")
            m == [p EXCEPT !.req[i].completeFired = TRUE]
            g == Turned(f, "ajaxComplete")
            v == [m EXCEPT !.req[i].told = Append(@, "complete")]
<1>m. Mid(t) /\ StackInv(t)
  BY DEF Inv, Mid
<1>0. /\ i \in DOMAIN t.req /\ Request(t.req[i])
      /\ t.req[i].completed = "yes" /\ ~t.req[i].completeFired
      /\ Told(t.req[i], FALSE)
  <2>1. Fits(t, f) /\ i \in DOMAIN t.req /\ Request(t.req[i])
    BY <1>m, TopFits
  <2>2. ~Settling(t, i)
    BY <1>m, FreeTop DEF Free, Settling, DoneOf
  <2>3. Told(t.req[i], Settling(t, i))
    BY <1>m, <2>1 DEF Mid, ReqInv
  <2>. QED  BY <2>1, <2>2, <2>3 DEF Fits, DoneFits, Unheard, Told
<1>2. /\ Page(p) /\ SameReqs(t, p) /\ SameTotals(t, p) /\ Swapped(t, p, g)
      /\ p.req = t.req /\ g \in Frame
  <2>1. "ajaxComplete" \in Pcs
    BY DEF Pcs
  <2>. QED  BY <2>1, GotoPage
<1>3. g.at = "done" /\ g.i = f.i /\ g.pc = "ajaxComplete" /\ g.pc \notin Unheard
  BY DEF Turned, Unheard
<1>4. i \in DOMAIN p.req
  BY <1>0, <1>2
<1>. HIDE DEF g, p
<1>5. /\ Page(m) /\ SameBut(p, m, i) /\ SameTotals(p, m) /\ m.stack = p.stack
      /\ m.req[i].completeFired = TRUE /\ m.req[i].told = p.req[i].told
      /\ SameStage(p.req[i], m.req[i])
  <2>1. "completeFired" \in {"transport", "installed", "completeFired", "fire"}
    OBVIOUS
  <2>2. /\ Page(m) /\ SameBut(p, m, i) /\ SameTotals(p, m) /\ m.stack = p.stack
        /\ m.req[i].completeFired = TRUE
        /\ \A field \in Fields \ {"completeFired"} : m.req[i][field] = p.req[i][field]
    BY <1>2, <1>4, <2>1, FlagPage, ZenonT(30)
  <2>. HIDE DEF m
  <2>. QED  BY <2>2 DEF SameStage, Fields
<1>. HIDE DEF m
<1>6. GoesOn(t, m, f, g)
  BY <1>2, <1>3, <1>5 DEF GoesOn, Swapped, Under
<1>7. /\ SameBut(t, m, i) /\ SameTotals(t, m) /\ SameStage(t.req[i], m.req[i])
      /\ m.req[i].told = t.req[i].told
  BY <1>2, <1>5 DEF SameBut, SameTotals
<1>8. CASE ~t.req[i].installed
  <2>1. Told(m.req[i], FALSE)
    BY <1>0, <1>5, <1>7, <1>8, TimesEmpty DEF Told, SameStage
  <2>f. \A h : AjaxFits(t.req[i], h) => AjaxFits(m.req[i], h)
    BY <1>0, <1>7 DEF AjaxFits, SameStage
  <2>2. Inv(m)
    BY <1>3, <1>5, <1>6, <1>7, <2>1, <2>f, DoneStep, Zenon
  <2>. QED  BY <1>5, <1>8, <2>2 DEF m, p
<1>9. CASE t.req[i].installed
  <2>0. i \in DOMAIN m.req /\ "complete" \in Tidings /\ "complete" \in Roles
    BY <1>0, <1>7 DEF Tidings, Roles, SameBut
  <2>p. Page(m)
    BY <1>5
  <2>1. /\ Page(v) /\ SameBut(m, v, i) /\ SameTotals(m, v) /\ v.stack = m.stack
        /\ v.req[i].told = Append(m.req[i].told, "complete")
        /\ SameStage(m.req[i], v.req[i]) /\ v.req[i].completeFired = m.req[i].completeFired
    BY <2>p, <2>0, TellPage, Zenon
  <2>2. Tell(m, i, "complete") = User(v, i, "complete")
    BY DEF Tell
  <2>. HIDE DEF v
  <2>3. GoesOn(t, v, f, g)
    BY <1>6, <2>1 DEF GoesOn, Swapped, Under
  <2>4. SameBut(t, v, i) /\ SameTotals(t, v) /\ SameStage(t.req[i], v.req[i])
    <3>1. SameTotals(t, v)
      BY <1>7, <2>1 DEF SameTotals
    <3>2. SameStage(t.req[i], v.req[i])
      BY <1>7, <2>1, SMTT(30) DEF SameStage
    <3>3. SameBut(t, v, i)
      BY <1>7, <2>1, SMTT(30) DEF SameBut, SameReq
    <3>. QED  BY <3>1, <3>2, <3>3
  <2>5. /\ v.req[i].installed /\ v.req[i].completeFired /\ v.req[i].completed = "yes"
        /\ v.req[i].told = Append(t.req[i].told, "complete")
    BY <1>0, <1>5, <1>7, <1>9, <2>1, <2>4 DEF SameStage
  <2>6. /\ Times(v.req[i].told, Outcomes) = 1 /\ Times(v.req[i].told, {"complete"}) = 1
    <3>1. t.req[i].told \in Seq(Tidings) /\ "complete" \in Tidings /\ "complete" \notin Outcomes
      BY <1>0 DEF Tidings, Outcomes, Request
    <3>2. Times(Append(t.req[i].told, "complete"), Outcomes) = Times(t.req[i].told, Outcomes)
      BY <3>1, TimesAppend
    <3>3. Times(Append(t.req[i].told, "complete"), {"complete"})
            = Times(t.req[i].told, {"complete"}) + 1
      BY <3>1, TimesAppend
    <3>4. Times(t.req[i].told, Outcomes) = 1 /\ Times(t.req[i].told, {"complete"}) = 0
      BY <1>0, <1>9 DEF Told
    <3>. QED  BY <2>5, <3>2, <3>3, <3>4
  <2>7. Told(v.req[i], FALSE)
    BY <2>5, <2>6 DEF Told
  <2>f. \A h : AjaxFits(t.req[i], h) => AjaxFits(v.req[i], h)
    BY <1>9, <2>4 DEF AjaxFits, SameStage
  <2>8. Inv(v) /\ Free(v)
    BY <1>3, <2>1, <2>3, <2>4, <2>5, <2>7, <2>f, DoneStep, Zenon
  <2>9. i \in DOMAIN v.req
    BY <2>0, <2>1 DEF SameBut
  <2>10. Page(User(v, i, "complete")) /\ Inv(User(v, i, "complete"))
    BY <2>0, <2>1, <2>8, <2>9, UserKeeps
  <2>. QED  BY <1>9, <2>2, <2>10 DEF m, p
<1>. QED  BY <1>8, <1>9

(* done() ends: the request is counted out. *)
LEMMA LeavesDone ==
  ASSUME NEW t, NEW u, NEW f, Page(t), Page(u), Inv(t), SameReqs(t, u), u.threw = t.threw,
         Stands(t, f), Pushed(u, t, f), f.at = "done", f.pc = "count",
         ~t.req[f.i].fire => u.active = t.active /\ u.busy = t.busy,
         t.req[f.i].fire => /\ u.active = t.active - 1
                            /\ u.busy = (IF u.active = 0 THEN FALSE ELSE t.busy)
  PROVE  Inv(u) /\ Free(u)
<1>. DEFINE i == f.i
<1>m. Mid(t) /\ StackInv(t) /\ CountInv(t)
  BY DEF Inv, Mid
<1>0. /\ Len(u.stack) \in Nat /\ DOMAIN u.stack = 1..Len(u.stack)
      /\ DOMAIN t.stack = 1..(Len(u.stack) + 1) /\ Len(t.stack) = Len(u.stack) + 1
      /\ \A k \in 1..Len(u.stack) : u.stack[k] = t.stack[k]
      /\ t.stack[Len(u.stack) + 1] = f
  BY Types DEF Pushed, Under
<1>1. /\ i \in DOMAIN t.req /\ Request(t.req[i]) /\ t.req[i].completed = "yes"
      /\ DoneOf(t, i) = {Len(u.stack) + 1}
  <2>1. Fits(t, f) /\ i \in DOMAIN t.req /\ Request(t.req[i]) /\ DoneOf(t, i) = {Len(t.stack)}
    BY <1>m, TopFits
  <2>. QED  BY <1>0, <2>1 DEF Fits, DoneFits
<1>2. /\ \A j : AjaxOf(u, j) = AjaxOf(t, j)
      /\ DoneOf(u, i) = {}
  <2>1. \A j : AjaxOf(u, j) = AjaxOf(t, j)
    BY <1>0 DEF AjaxOf
  <2>2. \A k \in DoneOf(u, i) : k \in DoneOf(t, i)
    BY <1>0 DEF DoneOf
  <2>3. \A k \in DoneOf(u, i) : k # Len(u.stack) + 1
    BY <1>0 DEF DoneOf
  <2>. QED  BY <1>1, <2>1, <2>2, <2>3
<1>3. ASSUME NEW j, j # i  PROVE DoneOf(u, j) = DoneOf(t, j)
  BY <1>0, <1>3 DEF DoneOf
<1>4. Free(t) /\ Free(u)
  <2>1. Free(t)
    BY <1>m, FreeTop
  <2>. QED  BY <1>0, <2>1 DEF Free
<1>5. StackInv(u)
  <2>1. \A g : Fits(t, g) => Fits(u, g)
    BY DEF Fits, DoneFits, AjaxFits, SameReqs, SameReq
  <2>2. \A k \in DOMAIN u.stack : Fits(u, u.stack[k])
    BY <1>0, <1>m, <2>1 DEF StackInv
  <2>3. \A k, l \in DOMAIN u.stack : Alike(u.stack[k], u.stack[l]) => k = l
    BY <1>0, <1>m DEF StackInv
  <2>4. AskInv(u)
    <3>. SUFFICES ASSUME NEW k \in DOMAIN u.stack, Asks(u.stack[k])
                  PROVE  k > 1 /\ Allows(u.stack[k - 1])
      BY DEF AskInv
    <3>1. k \in DOMAIN t.stack /\ u.stack[k] = t.stack[k]
      BY <1>0
    <3>2. k > 1 /\ Allows(t.stack[k - 1])
      BY <1>m, <3>1 DEF StackInv, AskInv
    <3>. QED  BY <1>0, <3>1, <3>2
  <2>. QED  BY <1>4, <2>2, <2>3, <2>4 DEF StackInv, Free
<1>6. ReqInv(u)
  <2>. SUFFICES ASSUME NEW j \in DOMAIN t.req
       PROVE  Timed(u.req[j]) /\ Told(u.req[j], Settling(u, j))
    BY DEF ReqInv, SameReqs
  <2>1. Timed(t.req[j]) /\ Told(t.req[j], Settling(t, j))
    BY <1>m DEF Mid, ReqInv
  <2>2. ~Settling(t, j) /\ ~Settling(u, j)
    BY <1>4 DEF Free, Settling, DoneOf
  <2>3. SameReq(t.req[j], u.req[j])
    BY DEF SameReqs
  <2>. QED  BY <2>1, <2>2, <2>3 DEF Timed, Told, SameReq
<1>7. HeardInv(u)
  <2>. SUFFICES ASSUME NEW j \in DOMAIN t.req  PROVE Heard(u, j)
    BY DEF HeardInv, SameReqs
  <2>1. Heard(t, j) /\ SameReq(t.req[j], u.req[j])
    BY <1>m DEF Mid, HeardInv, SameReqs
  <2>2. CASE j = i
    <3>1. \A k \in DoneOf(t, i) : t.stack[k].pc \notin Unheard
      BY <1>0, <1>1 DEF Unheard
    <3>. QED  BY <2>1, <2>2, <3>1 DEF Heard, SameReq
  <2>3. CASE j # i
    <3>1. \A k \in DoneOf(u, j) : u.stack[k] = t.stack[k]
      BY <1>0 DEF DoneOf
    <3>. QED  BY <1>3, <2>1, <2>3, <3>1 DEF Heard, SameReq
  <2>. QED  BY <2>2, <2>3
<1>8. CountInv(u)
  <2>. SUFFICES ASSUME ~t.threw
       PROVE  u.active = Cardinality(Counted(u)) /\ (u.busy <=> Counted(u) # {})
    BY DEF CountInv
  <2>1. t.active = Cardinality(Counted(t)) /\ (t.busy <=> Counted(t) # {})
    BY <1>m DEF CountInv
  <2>2. ASSUME NEW j \in DOMAIN t.req, j # i  PROVE j \in Counted(u) <=> j \in Counted(t)
    BY <1>3, <2>2 DEF Counted, SameReqs, SameReq
  <2>3. i \notin Counted(u)
    BY <1>1, <1>2 DEF Counted, SameReqs, SameReq
  <2>4. i \in Counted(t) <=> t.req[i].fire
    BY <1>1, Zenon DEF Counted, Request
  <2>5. Counted(u) = Counted(t) \ {i}
    BY <2>2, <2>3 DEF Counted, SameReqs
  <2>6. CASE ~t.req[i].fire
    <3>1. Counted(u) = Counted(t)
      BY <2>4, <2>5, <2>6
    <3>. QED  BY <2>1, <2>6, <3>1
  <2>7. CASE t.req[i].fire
    <3>1. IsFiniteSet(Counted(t)) /\ IsFiniteSet(Counted(u))
      BY Types
    <3>2. Cardinality(Counted(u)) = Cardinality(Counted(t)) - 1
      BY <2>4, <2>5, <2>7, <3>1, FS_RemoveElement
    <3>3. Cardinality(Counted(u)) = 0 <=> Counted(u) = {}
      BY <3>1, FS_EmptySet
    <3>4. t.busy = TRUE
      BY <2>1, <2>4, <2>7 DEF Page
    <3>. QED  BY <2>1, <2>7, <3>2, <3>3, <3>4, Zenon
  <2>. QED  BY <2>6, <2>7
<1>9. \A j \in DOMAIN u.req : Begun(u, j)
  BY <1>2 DEF Inv, Begun, SameReqs, SameReq
<1>. QED  BY <1>4, <1>5, <1>6, <1>7, <1>8, <1>9 DEF Inv, Mid

LEMMA CountOutKeeps ==
  ASSUME NEW t, Page(t), Inv(t), NEW f, Stands(t, f), f.at = "done", f.pc = "count"
  PROVE  LET v == [Pop(t) EXCEPT !.active = @ - 1]
             u == IF ~t.req[f.i].fire THEN Pop(t)
                  ELSE IF v.active = 0 THEN User([v EXCEPT !.busy = FALSE], f.i, "ajaxStop")
                  ELSE v
         IN Page(u) /\ Inv(u)
<1>. DEFINE i == f.i
            p == Pop(t)
            v == [p EXCEPT !.active = @ - 1]
            w == [v EXCEPT !.busy = FALSE]
<1>1. Page(p) /\ SameReqs(t, p) /\ SameTotals(t, p) /\ Pushed(p, t, f)
  BY PopPage
<1>2. i \in DOMAIN t.req
  BY TopFits DEF Inv, Mid
<1>. HIDE DEF p
<1>3. /\ Page(v) /\ SameReqs(t, v) /\ Pushed(v, t, f) /\ v.threw = t.threw
      /\ v.active = t.active - 1 /\ v.busy = t.busy
  <2>1. /\ DOMAIN v = Parts /\ v.req = p.req /\ v.stack = p.stack /\ v.window = p.window
        /\ v.active = p.active - 1 /\ v.busy = p.busy /\ v.threw = p.threw
    BY <1>1 DEF Page, Parts
  <2>. HIDE DEF v
  <2>2. Page(v)
    BY <1>1, <2>1 DEF Page
  <2>. QED  BY <1>1, <2>1, <2>2 DEF SameReqs, SameTotals, Pushed, Under
<1>. HIDE DEF v
<1>4. /\ Page(w) /\ SameReqs(t, w) /\ Pushed(w, t, f) /\ w.threw = t.threw
      /\ w.active = t.active - 1 /\ w.busy = FALSE
  <2>1. /\ DOMAIN w = Parts /\ w.req = v.req /\ w.stack = v.stack /\ w.window = v.window
        /\ w.active = v.active /\ w.busy = FALSE /\ w.threw = v.threw
    BY <1>3 DEF Page, Parts
  <2>. HIDE DEF w
  <2>2. Page(w)
    BY <1>3, <2>1, Zenon DEF Page
  <2>. QED  BY <1>3, <2>1, <2>2 DEF SameReqs, Pushed, Under
<1>. HIDE DEF w
<1>5. CASE ~t.req[i].fire
  <2>1. Inv(p)
    BY <1>1, <1>5, LeavesDone, Zenon DEF SameTotals
  <2>. QED  BY <1>1, <1>5, <2>1 DEF p
<1>6. CASE t.req[i].fire /\ v.active = 0
  <2>1. Inv(w) /\ Free(w)
    BY <1>3, <1>4, <1>6, LeavesDone, Zenon
  <2>2. i \in DOMAIN w.req /\ "ajaxStop" \in Roles
    BY <1>2, <1>4 DEF SameReqs, Roles
  <2>3. Page(User(w, i, "ajaxStop")) /\ Inv(User(w, i, "ajaxStop"))
    BY <1>4, <2>1, <2>2, UserKeeps
  <2>. QED  BY <1>6, <2>3 DEF w, v, p
<1>7. CASE t.req[i].fire /\ v.active # 0
  <2>1. Inv(v)
    BY <1>3, <1>7, LeavesDone, Zenon
  <2>. QED  BY <1>3, <1>7, <2>1 DEF v, p
<1>. QED  BY <1>5, <1>6, <1>7

(* An event of done(), for the listeners of the page. *)
LEMMA EventKeeps ==
  ASSUME NEW t, Page(t), Inv(t), NEW f, Stands(t, f), f.at = "done", f.pc # "settle",
         NEW pc \in Pcs, pc # "settle", f.pc \in Unheard <=> pc \in Unheard,
         NEW role \in Roles, role # "beforeSend"
  PROVE  LET m == Goto(t, pc)
             u == IF t.req[f.i].fire THEN User(m, f.i, role) ELSE m
         IN Page(u) /\ Inv(u)
<1>. DEFINE m == Goto(t, pc)
<1>1. Page(m) /\ Inv(m) /\ Free(m) /\ m.req = t.req
  BY GotoKeeps
<1>. HIDE DEF m
<1>2. f.i \in DOMAIN m.req
  BY <1>1, TopFits DEF Inv, Mid
<1>3. Page(User(m, f.i, role)) /\ Inv(User(m, f.i, role))
  BY <1>1, <1>2, UserKeeps
<1>. QED  BY <1>1, <1>3 DEF m

-----------------------------------------------------------------------------
(* ajax(). *)
LEMMA AjaxStep ==
  ASSUME NEW t, NEW u, NEW f, NEW g, Page(t), Page(u), Inv(t), GoesOn(t, u, f, g),
         f.at = "ajax", f.pc # "settle", SameBut(t, u, f.i), SameTotals(t, u),
         u.req[f.i].completed = t.req[f.i].completed,
         u.req[f.i].listening = t.req[f.i].listening, u.req[f.i].fire = t.req[f.i].fire,
         u.req[f.i].timer = t.req[f.i].timer,
         u.req[f.i].completeFired = t.req[f.i].completeFired,
         t.req[f.i].transport => u.req[f.i].transport,
         Told(u.req[f.i], FALSE), AjaxFits(u.req[f.i], g)
  PROVE  Inv(u) /\ Free(u)
<1>m. Mid(t) /\ StackInv(t) /\ CountInv(t) /\ Stands(t, f)
  BY DEF Inv, Mid, GoesOn
<1>0. Fits(t, f) /\ f \in Frame /\ f.i \in DOMAIN t.req /\ Request(t.req[f.i])
  BY <1>m, TopFits
<1>1. /\ \A i : DoneOf(u, i) = DoneOf(t, i) /\ AjaxOf(u, i) = AjaxOf(t, i)
      /\ g.at = "ajax" /\ g.i = f.i /\ g.pc # "settle"
      /\ t.stack[Len(t.stack)] = f
      /\ \A k \in DOMAIN t.stack : k # Len(t.stack) => u.stack[k] = t.stack[k]
  BY GoneOnFrames DEF GoesOn
<1>3. CountInv(u)
  <2>1. ASSUME NEW j \in DOMAIN t.req  PROVE j \in Counted(u) <=> j \in Counted(t)
    <3>1. CASE j = f.i
      BY <1>1, <3>1 DEF Counted, SameBut
    <3>2. CASE j # f.i
      BY <1>1, <3>2 DEF Counted, SameReq, SameBut
    <3>. QED  BY <3>1, <3>2
  <2>2. Counted(u) = Counted(t)
    BY <2>1 DEF Counted, SameBut
  <2>. QED  BY <1>m, <2>2, CountSame
<1>4. Fits(u, g)
  BY <1>0, <1>1 DEF Fits, SameBut
<1>5. \A h \in Frame : h.i = f.i /\ h.at # f.at /\ h.pc # "settle" /\ Fits(t, h) => Fits(u, h)
  BY <1>0 DEF Fits, DoneFits, SameBut
<1>6. Timed(u.req[f.i])
  <2>1. Timed(t.req[f.i])
    BY <1>m, <1>0 DEF Mid, ReqInv
  <2>. QED  BY <2>1 DEF Timed
<1>7. Heard(u, f.i)
  <2>1. Heard(t, f.i)
    BY <1>m, <1>0 DEF Mid, HeardInv
  <2>2. \A k \in DoneOf(t, f.i) : u.stack[k] = t.stack[k]
    BY <1>1 DEF DoneOf
  <2>. QED  BY <1>1, <2>1, <2>2 DEF Heard, SameTotals
<1>8. /\ Mid(u) /\ Free(u)
      /\ \A j \in DOMAIN t.req : Begun(t, j) /\ j # f.i => Begun(u, j)
  BY <1>m, <1>3, <1>4, <1>5, <1>6, <1>7, GoneOnKeeps, Zenon DEF SameTotals
<1>9. Begun(u, f.i)
  BY <1>0, <1>1, Zenon DEF Inv, Begun, SameTotals
<1>. QED  BY <1>8, <1>9 DEF Inv, SameBut

(* The request is counted in. *)
LEMMA CountsIn ==
  ASSUME NEW t, NEW u, NEW f, NEW g, Page(t), Page(u), Inv(t), GoesOn(t, u, f, g),
         f.at = "ajax", f.pc = "prefiltered", g.pc = "started", SameBut(t, u, f.i),
         SameStage([t.req[f.i] EXCEPT !.fire = TRUE], u.req[f.i]),
         u.req[f.i].completeFired = t.req[f.i].completeFired,
         u.req[f.i].told = t.req[f.i].told,
         t.req[f.i].completed # "yes", u.threw = t.threw, u.active = t.active + 1,
         u.busy = (IF t.active = 0 THEN TRUE ELSE t.busy)
  PROVE  Inv(u) /\ Free(u)
<1>m. Mid(t) /\ StackInv(t) /\ CountInv(t) /\ Stands(t, f)
  BY DEF Inv, Mid, GoesOn
<1>0. Fits(t, f) /\ f \in Frame /\ f.i \in DOMAIN t.req /\ Request(t.req[f.i])
  BY <1>m, TopFits
<1>s. /\ u.req[f.i].completed = t.req[f.i].completed
      /\ u.req[f.i].transport = t.req[f.i].transport
      /\ u.req[f.i].listening = t.req[f.i].listening /\ u.req[f.i].fire = TRUE
      /\ u.req[f.i].timer = t.req[f.i].timer /\ u.req[f.i].installed = t.req[f.i].installed
  BY <1>0 DEF SameStage, Request, Fields
<1>1. /\ \A i : DoneOf(u, i) = DoneOf(t, i) /\ AjaxOf(u, i) = AjaxOf(t, i)
      /\ g.at = "ajax" /\ g.i = f.i /\ g.pc # "settle"
      /\ t.stack[Len(t.stack)] = f
      /\ \A k \in DOMAIN t.stack : k # Len(t.stack) => u.stack[k] = t.stack[k]
  BY GoneOnFrames DEF GoesOn
<1>2. ~t.req[f.i].fire /\ ~t.req[f.i].installed /\ t.req[f.i].told = <<>>
  BY <1>0 DEF Fits, AjaxFits, Early
<1>3. CountInv(u)
  <2>. SUFFICES ASSUME ~t.threw
       PROVE  u.active = Cardinality(Counted(u)) /\ (u.busy <=> Counted(u) # {})
    BY DEF CountInv
  <2>1. t.active = Cardinality(Counted(t)) /\ (t.busy <=> Counted(t) # {})
    BY <1>m DEF CountInv
  <2>2. ASSUME NEW j \in DOMAIN t.req, j # f.i  PROVE j \in Counted(u) <=> j \in Counted(t)
    BY <1>1, <2>2 DEF Counted, SameBut, SameReq
  <2>3. f.i \in Counted(u)
    BY <1>0, <1>s DEF Counted, SameBut
  <2>4. f.i \notin Counted(t)
    BY <1>2 DEF Counted
  <2>5. Counted(u) = Counted(t) \cup {f.i}
    BY <1>0, <2>2, <2>3 DEF Counted, SameBut
  <2>6. IsFiniteSet(Counted(t)) /\ Cardinality(Counted(t)) \in Nat
    BY Types, FS_CardinalityType
  <2>7. Cardinality(Counted(u)) = Cardinality(Counted(t)) + 1
    BY <2>4, <2>5, <2>6, FS_AddElement, Zenon
  <2>8. u.busy = TRUE
    <3>1. Cardinality(Counted(t)) = 0 <=> Counted(t) = {}
      BY <2>6, FS_EmptySet
    <3>2. t.busy \in BOOLEAN
      BY DEF Page
    <3>. QED  BY <2>1, <3>1, <3>2
  <2>. QED  BY <2>1, <2>3, <2>7, <2>8
<1>4. Fits(u, g)
  <2>1. AjaxFits(t.req[f.i], f) /\ g.i \in DOMAIN u.req /\ g.i = f.i
    BY <1>0, <1>1 DEF Fits, SameBut
  <2>2. AjaxFits(u.req[f.i], g)
    BY <1>2, <1>s, <2>1 DEF AjaxFits
  <2>. QED  BY <1>1, <2>1, <2>2 DEF Fits
<1>5. \A h \in Frame : h.i = f.i /\ h.at # f.at /\ h.pc # "settle" /\ Fits(t, h) => Fits(u, h)
  BY <1>0, <1>s DEF Fits, DoneFits, SameBut
<1>6. Timed(u.req[f.i]) /\ Told(u.req[f.i], FALSE)
  <2>1. Timed(t.req[f.i]) /\ Told(t.req[f.i], Settling(t, f.i))
    BY <1>m, <1>0 DEF Mid, ReqInv
  <2>. QED  BY <1>2, <1>s, <2>1 DEF Timed, Told
<1>7. Heard(u, f.i)
  BY <1>s DEF Heard
<1>8. /\ Mid(u) /\ Free(u)
      /\ \A j \in DOMAIN t.req : Begun(t, j) /\ j # f.i => Begun(u, j)
  BY <1>m, <1>3, <1>4, <1>5, <1>6, <1>7, GoneOnKeeps, Zenon
<1>9. Begun(u, f.i)
  BY <1>0, <1>1, <1>s, Zenon DEF Inv, Begun
<1>. QED  BY <1>8, <1>9 DEF Inv, SameBut

(* The request is sent. *)
LEMMA SentKeeps ==
  ASSUME NEW t, NEW u, NEW f, Page(t), Page(u), Inv(t), Stands(t, f), Pushed(u, t, f),
         f.at = "ajax", f.pc = "send", SameBut(t, u, f.i), SameTotals(t, u),
         t.req[f.i].completed # "yes", u.req[f.i].completed = "no",
         u.req[f.i].transport = t.req[f.i].transport, u.req[f.i].fire = t.req[f.i].fire,
         u.req[f.i].installed = t.req[f.i].installed,
         u.req[f.i].completeFired = t.req[f.i].completeFired,
         u.req[f.i].told = t.req[f.i].told
  PROVE  Inv(u) /\ Free(u)
<1>. DEFINE i == f.i
<1>m. Mid(t) /\ StackInv(t) /\ CountInv(t)
  BY DEF Inv, Mid
<1>0. /\ Len(u.stack) \in Nat /\ DOMAIN u.stack = 1..Len(u.stack)
      /\ DOMAIN t.stack = 1..(Len(u.stack) + 1) /\ Len(t.stack) = Len(u.stack) + 1
      /\ \A k \in 1..Len(u.stack) : u.stack[k] = t.stack[k]
      /\ t.stack[Len(u.stack) + 1] = f
  BY Types DEF Pushed, Under
<1>1. /\ Fits(t, f) /\ i \in DOMAIN t.req /\ Request(t.req[i])
      /\ AjaxOf(t, i) = {Len(u.stack) + 1}
  <2>1. Fits(t, f) /\ i \in DOMAIN t.req /\ Request(t.req[i]) /\ AjaxOf(t, i) = {Len(t.stack)}
    BY <1>m, TopFits
  <2>. QED  BY <1>0, <2>1
<1>2. t.req[i].transport /\ t.req[i].completed = "null"
  BY <1>1 DEF Fits, AjaxFits, Request
<1>3. \A j : DoneOf(u, j) = DoneOf(t, j)
  BY <1>0 DEF DoneOf
<1>4. ASSUME NEW j, j # i  PROVE AjaxOf(u, j) = AjaxOf(t, j)
  BY <1>0, <1>4 DEF AjaxOf
<1>5. Free(t) /\ Free(u)
  <2>1. Free(t)
    BY <1>m, FreeTop
  <2>. QED  BY <1>0, <2>1 DEF Free
<1>6. \A k \in DOMAIN u.stack :
        t.stack[k].i = i => t.stack[k].at \notin {"ajax", "done"}
  <2>. SUFFICES ASSUME NEW k \in DOMAIN u.stack, t.stack[k].i = i
                PROVE  t.stack[k].at # "ajax" /\ t.stack[k].at # "done"
    OBVIOUS
  <2>1. t.stack[k].at # "ajax"
    BY <1>0, <1>1 DEF AjaxOf
  <2>2. Fits(t, t.stack[k])
    BY <1>0, <1>m DEF StackInv
  <2>. QED  BY <1>2, <2>1, <2>2 DEF Fits, DoneFits
<1>7. StackInv(u)
  <2>1. ASSUME NEW k \in DOMAIN u.stack  PROVE Fits(u, u.stack[k])
    <3>1. Fits(t, t.stack[k]) /\ u.stack[k] = t.stack[k]
      BY <1>0, <1>m DEF StackInv
    <3>2. CASE t.stack[k].i = i
      BY <1>6, <3>1, <3>2 DEF Fits, SameBut
    <3>3. CASE t.stack[k].i # i
      <4>1. t.stack[k].i \in DOMAIN t.req
        BY <3>1 DEF Fits
      <4>2. SameReq(t.req[t.stack[k].i], u.req[t.stack[k].i])
        BY <3>3, <4>1 DEF SameBut
      <4>. QED  BY <3>1, <4>1, <4>2 DEF Fits, DoneFits, AjaxFits, SameBut, SameReq
    <3>. QED  BY <3>2, <3>3
  <2>2. \A k, l \in DOMAIN u.stack : Alike(u.stack[k], u.stack[l]) => k = l
    BY <1>0, <1>m DEF StackInv
  <2>3. AskInv(u)
    <3>. SUFFICES ASSUME NEW k \in DOMAIN u.stack, Asks(u.stack[k])
                  PROVE  k > 1 /\ Allows(u.stack[k - 1])
      BY DEF AskInv
    <3>1. k \in DOMAIN t.stack /\ u.stack[k] = t.stack[k]
      BY <1>0
    <3>2. k > 1 /\ Allows(t.stack[k - 1])
      BY <1>m, <3>1 DEF StackInv, AskInv
    <3>. QED  BY <1>0, <3>1, <3>2
  <2>. QED  BY <1>5, <2>1, <2>2, <2>3 DEF StackInv, Free
<1>8. HeardInv(u)
  <2>. SUFFICES ASSUME NEW j \in DOMAIN t.req  PROVE Heard(u, j)
    BY DEF HeardInv, SameBut
  <2>1. CASE j = i
    BY <2>1 DEF Heard
  <2>2. CASE j # i
    <3>1. Heard(t, j) /\ SameReq(t.req[j], u.req[j])
      BY <1>m, <2>2 DEF Mid, HeardInv, SameBut
    <3>2. \A k \in DoneOf(u, j) : u.stack[k] = t.stack[k]
      BY <1>0 DEF DoneOf
    <3>. QED  BY <1>3, <3>1, <3>2 DEF Heard, SameReq, SameTotals
  <2>. QED  BY <2>1, <2>2
<1>9. CountInv(u)
  <2>1. ASSUME NEW j \in DOMAIN t.req  PROVE j \in Counted(u) <=> j \in Counted(t)
    <3>1. CASE j = i
      BY <1>2, <1>3, <3>1 DEF Counted, SameBut
    <3>2. CASE j # i
      BY <1>3, <3>2 DEF Counted, SameReq, SameBut
    <3>. QED  BY <3>1, <3>2
  <2>2. Counted(u) = Counted(t)
    BY <2>1 DEF Counted, SameBut
  <2>. QED  BY <1>m, <2>2, CountSame
<1>10. \A j \in DOMAIN u.req : Begun(u, j)
  <2>. SUFFICES ASSUME NEW j \in DOMAIN t.req  PROVE Begun(u, j)
    BY DEF SameBut
  <2>1. CASE j = i
    BY <2>1 DEF Begun
  <2>2. CASE j # i
    BY <1>4, <2>2 DEF Inv, Begun, SameBut, SameReq, SameTotals
  <2>. QED  BY <2>1, <2>2
<1>11. ReqInv(u)
  <2>. SUFFICES ASSUME NEW j \in DOMAIN t.req
       PROVE  Timed(u.req[j]) /\ Told(u.req[j], Settling(u, j))
    BY DEF ReqInv, SameBut
  <2>1. Timed(t.req[j]) /\ Told(t.req[j], Settling(t, j))
    BY <1>m DEF Mid, ReqInv
  <2>2. ~Settling(t, j) /\ ~Settling(u, j)
    BY <1>5 DEF Free, Settling, DoneOf
  <2>3. CASE j = i
    BY <1>2, <2>1, <2>2, <2>3, Zenon DEF Timed, Told
  <2>4. CASE j # i
    BY <2>1, <2>2, <2>4 DEF Timed, Told, SameReq, SameBut
  <2>. QED  BY <2>3, <2>4
<1>. QED  BY <1>5, <1>7, <1>8, <1>9, <1>10, <1>11 DEF Inv, Mid

LEMMA PopDone ==
  ASSUME NEW t, Page(t), Inv(t), NEW f, Stands(t, f), f.at = "ajax",
         t.req[f.i].completed = "yes"
  PROVE  Page(Pop(t)) /\ Inv(Pop(t))
<1>. DEFINE u == Pop(t)
<1>1. Page(u) /\ SameReqs(t, u) /\ SameTotals(t, u) /\ Pushed(u, t, f)
  BY PopPage
<1>. HIDE DEF u
<1>2. Mid(u) /\ \A j \in DOMAIN t.req : Begun(t, j) /\ ~(f.at = "ajax" /\ f.i = j) => Begun(u, j)
  BY <1>1, PopKeeps DEF Inv
<1>3. \A j \in DOMAIN u.req : Begun(u, j)
  <2>. SUFFICES ASSUME NEW j \in DOMAIN t.req  PROVE Begun(u, j)
    BY <1>1 DEF SameReqs
  <2>1. CASE j = f.i
    BY <1>1, <2>1 DEF Begun, SameReqs, SameReq
  <2>2. CASE j # f.i
    BY <1>2, <2>2 DEF Inv
  <2>. QED  BY <2>1, <2>2
<1>. QED  BY <1>1, <1>2, <1>3 DEF Inv, u

LEMMA CountInKeeps ==
  ASSUME NEW t, Page(t), Inv(t), NEW f, Stands(t, f), f.at = "ajax", f.pc = "prefiltered"
  PROVE  LET m == [Goto(t, "started") EXCEPT !.req[f.i].fire = TRUE, !.active = @ + 1]
             u == IF t.req[f.i].completed = "yes" THEN Pop(t)
                  ELSE IF ~t.req[f.i].o.global THEN Goto(t, "started")
                  ELSE IF t.active = 0 THEN User([m EXCEPT !.busy = TRUE], f.i, "ajaxStart")
                  ELSE m
         IN Page(u) /\ Inv(u)
<1>. DEFINE i == f.i
            p == Goto(t, "started")
            q == [p EXCEPT !.req[i].fire = TRUE]
            m == [p EXCEPT !.req[i].fire = TRUE, !.active = @ + 1]
            w == [m EXCEPT !.busy = TRUE]
            g == Turned(f, "started")
<1>0. i \in DOMAIN t.req /\ Fits(t, f)
  BY TopFits DEF Inv, Mid
<1>1. /\ Page(p) /\ SameReqs(t, p) /\ SameTotals(t, p) /\ Swapped(t, p, g)
      /\ p.req = t.req /\ "started" \in Pcs
  <2>1. "started" \in Pcs
    BY DEF Pcs, Early
  <2>. QED  BY <2>1, GotoPage
<1>2. g.at = "ajax" /\ g.i = f.i /\ g.pc = "started"
  BY DEF Turned
<1>3. Page(p) /\ Inv(p)
  <2>1. AjaxFits(t.req[i], g)
    BY <1>0, <1>2 DEF Fits, AjaxFits, Early
  <2>. QED  BY <1>1, <2>1, GotoKeeps
<1>. HIDE DEF p, g
<1>4. /\ Page(q) /\ SameBut(p, q, i) /\ SameTotals(p, q) /\ q.stack = p.stack
      /\ q.req[i].fire = TRUE
      /\ \A field \in Fields \ {"fire"} : q.req[i][field] = p.req[i][field]
  <2>1. "fire" \in {"transport", "installed", "completeFired", "fire"} /\ i \in DOMAIN p.req
    BY <1>0, <1>1
  <2>. QED  BY <1>1, <2>1, FlagPage, ZenonT(30)
<1>5. m = [q EXCEPT !.active = @ + 1]
  BY <1>1 DEF Page, Parts
<1>. HIDE DEF q
<1>6. /\ DOMAIN m = Parts /\ m.req = q.req /\ m.stack = q.stack /\ m.window = q.window
      /\ m.active = q.active + 1 /\ m.busy = q.busy /\ m.threw = q.threw
  BY <1>4, <1>5, Zenon DEF Page, Parts
<1>. HIDE DEF m
<1>7. Page(m)
  BY <1>4, <1>6 DEF Page
<1>8. /\ DOMAIN w = Parts /\ w.req = q.req /\ w.stack = q.stack /\ w.window = q.window
      /\ w.active = q.active + 1 /\ w.busy = TRUE /\ w.threw = q.threw
  BY <1>6 DEF Parts
<1>. HIDE DEF w
<1>9. Page(w)
  <2>0. w.busy \in BOOLEAN
    BY <1>8, ZenonT(30)
  <2>1. w.active \in Int
    BY <1>4, <1>8 DEF Page
  <2>. QED  BY <1>4, <1>8, <2>0, <2>1 DEF Page
<1>10. GoesOn(t, m, f, g) /\ GoesOn(t, w, f, g)
  BY <1>1, <1>2, <1>4, <1>6, <1>8 DEF GoesOn, Swapped, Under
<1>11. /\ SameStage([t.req[i] EXCEPT !.fire = TRUE], q.req[i])
       /\ q.req[i].completeFired = t.req[i].completeFired
       /\ q.req[i].told = t.req[i].told
       /\ q.active = t.active /\ q.busy = t.busy /\ q.threw = t.threw
  <2>1. DOMAIN t.req[i] = Fields
    BY <1>0 DEF Page, Request
  <2>2. \A field \in Fields \ {"fire"} : q.req[i][field] = t.req[i][field]
    BY <1>1, <1>4
  <2>. DEFINE e == [t.req[i] EXCEPT !.fire = TRUE]
  <2>3. /\ e.completed = t.req[i].completed /\ e.transport = t.req[i].transport
        /\ e.listening = t.req[i].listening /\ e.fire = TRUE /\ e.timer = t.req[i].timer
        /\ e.installed = t.req[i].installed
    BY <2>1 DEF Fields
  <2>. HIDE DEF e
  <2>4. SameStage(e, q.req[i])
    BY <1>4, <2>2, <2>3, Zenon DEF SameStage, Fields
  <2>. QED  BY <1>1, <1>4, <2>2, <2>4 DEF Fields, SameTotals, e
<1>12. SameBut(t, m, i) /\ SameBut(t, w, i)
  BY <1>1, <1>4, <1>6, <1>8 DEF SameBut
<1>13. CASE t.req[i].completed = "yes"
  BY <1>13, PopDone
<1>14. CASE t.req[i].completed # "yes" /\ t.active = 0
  <2>1. Inv(w) /\ Free(w)
    BY <1>2, <1>8, <1>9, <1>10, <1>11, <1>12, <1>14, CountsIn, Zenon
  <2>2. i \in DOMAIN w.req /\ "ajaxStart" \in Roles
    BY <1>0, <1>12 DEF SameBut, Roles
  <2>3. Page(User(w, i, "ajaxStart")) /\ Inv(User(w, i, "ajaxStart"))
    BY <1>9, <2>1, <2>2, UserKeeps
  <2>. QED  BY <1>3, <1>14, <2>3 DEF w, m, p
<1>15. CASE t.req[i].completed # "yes" /\ t.active # 0
  <2>1. Inv(m)
    BY <1>2, <1>6, <1>7, <1>10, <1>11, <1>12, <1>15, CountsIn, Zenon
  <2>. QED  BY <1>3, <1>7, <1>15, <2>1 DEF m, p
<1>. QED  BY <1>13, <1>14, <1>15

LEMMA BeforeSendKeeps ==
  ASSUME NEW t, Page(t), Inv(t), NEW f, Stands(t, f), f.at = "ajax", f.pc = "started"
  PROVE  LET u == IF t.req[f.i].o.before THEN User(Goto(t, "allowed"), f.i, "beforeSend")
                  ELSE Goto(t, "install")
         IN Page(u) /\ Inv(u)
<1>. DEFINE i == f.i
            p == Goto(t, "allowed")
            g == Turned(f, "allowed")
<1>0. i \in DOMAIN t.req /\ Fits(t, f)
  BY TopFits DEF Inv, Mid
<1>1. "allowed" \in Pcs /\ "install" \in Pcs /\ "beforeSend" \in Roles
  BY DEF Pcs, Early, Roles
<1>2. Page(Goto(t, "install")) /\ Inv(Goto(t, "install"))
  <2>1. AjaxFits(t.req[i], Turned(f, "install"))
    BY <1>0 DEF Fits, AjaxFits, Early, Turned
  <2>. QED  BY <1>1, <2>1, GotoKeeps
<1>3. Page(p) /\ Inv(p) /\ Free(p) /\ p.req = t.req
  <2>1. AjaxFits(t.req[i], g)
    BY <1>0 DEF Fits, AjaxFits, Early, Turned
  <2>. QED  BY <1>1, <2>1, GotoKeeps
<1>4. p.stack # <<>> /\ Allows(p.stack[Len(p.stack)])
  <2>1. Stands(p, g)
    BY <1>1, GotoPage
  <2>. QED  BY <2>1 DEF Stands, Turned, Allows
<1>. HIDE DEF p, g
<1>5. Page(User(p, i, "beforeSend")) /\ Inv(User(p, i, "beforeSend"))
  BY <1>0, <1>1, <1>3, <1>4, UserKeeps
<1>. QED  BY <1>2, <1>5 DEF p

LEMMA BeforeSendReturnedKeeps ==
  ASSUME NEW t, Page(t), Inv(t), NEW f, Stands(t, f), f.at = "ajax", f.pc \in {"allowed", "vetoed"}
  PROVE  LET u == IF f.pc = "vetoed" \/ t.req[f.i].completed = "yes"
                  THEN AbortRequest(Pop(t), f.i) ELSE Goto(t, "install")
         IN Page(u) /\ Inv(u)
<1>. DEFINE i == f.i
            p == Pop(t)
<1>0. i \in DOMAIN t.req /\ Fits(t, f) /\ Free(t)
  BY TopFits, FreeTop DEF Inv, Mid
<1>1. Page(Goto(t, "install")) /\ Inv(Goto(t, "install"))
  <2>1. AjaxFits(t.req[i], Turned(f, "install"))
    BY <1>0 DEF Fits, AjaxFits, Early, Turned
  <2>2. "install" \in Pcs
    BY DEF Pcs, Early
  <2>. QED  BY <2>1, <2>2, GotoKeeps
<1>2. Page(p) /\ SameReqs(t, p) /\ SameTotals(t, p) /\ Pushed(p, t, f)
  BY PopPage
<1>. HIDE DEF p
<1>3. Mid(p) /\ Free(p) /\ \A j \in DOMAIN t.req : Begun(t, j) /\ j # i => Begun(p, j)
  BY <1>0, <1>2, PopKeeps DEF Inv
<1>4. Page(AbortRequest(p, i)) /\ Inv(AbortRequest(p, i))
  <2>1. i \in DOMAIN p.req /\ \A j \in DOMAIN p.req \ {i} : Begun(p, j)
    BY <1>0, <1>2, <1>3 DEF Inv, SameReqs
  <2>. QED  BY <1>2, <1>3, <2>1, AbortKeeps
<1>. QED  BY <1>1, <1>4 DEF p

(* What has been told stays told while nothing is settled. *)
LEMMA ToldOnTop ==
  ASSUME NEW t, Page(t), Inv(t), NEW f, Stands(t, f), f.pc # "settle"
  PROVE  Told(t.req[f.i], FALSE) /\ f.i \in DOMAIN t.req /\ Fits(t, f) /\ Request(t.req[f.i])
<1>1. f.i \in DOMAIN t.req /\ Free(t) /\ Fits(t, f) /\ Request(t.req[f.i])
  BY TopFits, FreeTop DEF Inv, Mid
<1>2. ~Settling(t, f.i)
  BY <1>1 DEF Free, Settling, DoneOf
<1>3. Told(t.req[f.i], Settling(t, f.i))
  BY <1>1 DEF Inv, Mid, ReqInv
<1>. QED  BY <1>1, <1>2, <1>3 DEF Told

LEMMA SendEventKeeps ==
  ASSUME NEW t, Page(t), Inv(t), NEW f, Stands(t, f), f.at = "ajax", f.pc = "transport"
  PROVE  LET m == [Goto(t, "send") EXCEPT !.req[f.i].transport = TRUE]
             u == IF t.req[f.i].fire THEN User(m, f.i, "ajaxSend") ELSE m
         IN Page(u) /\ Inv(u)
<1>. DEFINE i == f.i
            p == Goto(t, "send")
            m == [p EXCEPT !.req[i].transport = TRUE]
            g == Turned(f, "send")
<1>0. i \in DOMAIN t.req /\ Fits(t, f) /\ Told(t.req[i], FALSE)
  BY ToldOnTop, Zenon
<1>1. /\ Page(p) /\ SameReqs(t, p) /\ SameTotals(t, p) /\ Swapped(t, p, g) /\ p.req = t.req
  <2>1. "send" \in Pcs
    BY DEF Pcs
  <2>. QED  BY <2>1, GotoPage
<1>2. g.at = "ajax" /\ g.i = f.i /\ g.pc = "send"
  BY DEF Turned
<1>. HIDE DEF p, g
<1>3. /\ Page(m) /\ SameBut(p, m, i) /\ SameTotals(p, m) /\ m.stack = p.stack
      /\ m.req[i].transport = TRUE
      /\ \A field \in Fields \ {"transport"} : m.req[i][field] = p.req[i][field]
  <2>1. "transport" \in {"transport", "installed", "completeFired", "fire"} /\ i \in DOMAIN p.req
    BY <1>0, <1>1
  <2>. QED  BY <1>1, <2>1, FlagPage, ZenonT(30)
<1>. HIDE DEF m
<1>4. GoesOn(t, m, f, g)
  BY <1>1, <1>2, <1>3 DEF GoesOn, Swapped, Under
<1>5. SameBut(t, m, i) /\ SameTotals(t, m)
  BY <1>1, <1>3 DEF SameBut, SameTotals
<1>6. /\ m.req[i].completed = t.req[i].completed /\ m.req[i].listening = t.req[i].listening
      /\ m.req[i].fire = t.req[i].fire /\ m.req[i].timer = t.req[i].timer
      /\ m.req[i].installed = t.req[i].installed
      /\ m.req[i].completeFired = t.req[i].completeFired /\ m.req[i].told = t.req[i].told
  BY <1>1, <1>3 DEF Fields
<1>7. Told(m.req[i], FALSE) /\ AjaxFits(m.req[i], g)
  BY <1>0, <1>2, <1>3, <1>6 DEF Told, Fits, AjaxFits, Early
<1>8. Inv(m) /\ Free(m)
  BY <1>2, <1>3, <1>4, <1>5, <1>6, <1>7, AjaxStep, Zenon
<1>9. i \in DOMAIN m.req /\ "ajaxSend" \in Roles
  BY <1>0, <1>5 DEF SameBut, Roles
<1>10. Page(User(m, i, "ajaxSend")) /\ Inv(User(m, i, "ajaxSend"))
  BY <1>3, <1>8, <1>9, UserKeeps
<1>. QED  BY <1>3, <1>8, <1>10 DEF m, p

(* A request that is over tells what it has to as soon as it can be heard. *)
LEMMA InstallStep ==
  ASSUME NEW t, Page(t), Inv(t), NEW f, Stands(t, f), f.at = "ajax",
         f.pc \in {"install", "installing"},
         NEW g, g.at = "ajax", g.i = f.i, g.pc = "transport",
         NEW u, Page(u), Swapped(t, u, g), SameBut(t, u, f.i), SameTotals(t, u),
         SameStage([t.req[f.i] EXCEPT !.installed = TRUE], u.req[f.i]),
         u.req[f.i].completeFired = t.req[f.i].completeFired,
         Times(u.req[f.i].told, Outcomes) = (IF t.req[f.i].completed = "yes" THEN 1 ELSE 0),
         Times(u.req[f.i].told, {"complete"}) = (IF t.req[f.i].completeFired THEN 1 ELSE 0),
         t.req[f.i].completed # "yes" => u.req[f.i].told = <<>>
  PROVE  Inv(u) /\ Free(u)
<1>. DEFINE i == f.i
<1>0. i \in DOMAIN t.req /\ Fits(t, f) /\ Told(t.req[i], FALSE) /\ Request(t.req[i])
  BY ToldOnTop, Zenon
<1>1. /\ u.req[i].completed = t.req[i].completed /\ u.req[i].transport = t.req[i].transport
      /\ u.req[i].listening = t.req[i].listening /\ u.req[i].fire = t.req[i].fire
      /\ u.req[i].timer = t.req[i].timer /\ u.req[i].installed = TRUE
  BY <1>0 DEF SameStage, Request, Fields
<1>2. Told(u.req[i], FALSE)
  BY <1>0, <1>1 DEF Told
<1>3. AjaxFits(u.req[i], g)
  BY <1>0, <1>1 DEF Fits, AjaxFits, Early
<1>4. GoesOn(t, u, f, g)
  BY DEF GoesOn
<1>. QED  BY <1>1, <1>2, <1>3, <1>4, AjaxStep, Zenon

LEMMA InstalledPage ==
  ASSUME NEW t, Page(t), Inv(t), NEW f, Stands(t, f), f.at = "ajax",
         f.pc \in {"install", "installing"}
  PROVE  LET m == [Goto(t, "transport") EXCEPT !.req[f.i].installed = TRUE]
             g == Turned(f, "transport")
         IN /\ Page(m) /\ SameBut(t, m, f.i) /\ SameTotals(t, m) /\ Swapped(t, m, g)
            /\ SameStage([t.req[f.i] EXCEPT !.installed = TRUE], m.req[f.i])
            /\ m.req[f.i].completeFired = t.req[f.i].completeFired
            /\ m.req[f.i].told = t.req[f.i].told /\ f.i \in DOMAIN m.req
            /\ g.at = "ajax" /\ g.i = f.i /\ g.pc = "transport"
<1>. DEFINE i == f.i
            p == Goto(t, "transport")
            m == [p EXCEPT !.req[i].installed = TRUE]
            g == Turned(f, "transport")
<1>0. i \in DOMAIN t.req /\ Fits(t, f) /\ Told(t.req[i], FALSE) /\ Request(t.req[i])
  BY ToldOnTop, Zenon
<1>1. /\ Page(p) /\ SameReqs(t, p) /\ SameTotals(t, p) /\ Swapped(t, p, g) /\ p.req = t.req
  <2>1. "transport" \in Pcs
    BY DEF Pcs
  <2>. QED  BY <2>1, GotoPage
<1>2. g.at = "ajax" /\ g.i = f.i /\ g.pc = "transport"
  BY DEF Turned
<1>. HIDE DEF p, g
<1>3. /\ Page(m) /\ SameBut(p, m, i) /\ SameTotals(p, m) /\ m.stack = p.stack
      /\ m.req[i].installed = TRUE
      /\ \A field \in Fields \ {"installed"} : m.req[i][field] = p.req[i][field]
  <2>1. "installed" \in {"transport", "installed", "completeFired", "fire"} /\ i \in DOMAIN p.req
    BY <1>0, <1>1
  <2>. QED  BY <1>1, <2>1, FlagPage, ZenonT(30)
<1>. HIDE DEF m
<1>4. /\ SameBut(t, m, i) /\ SameTotals(t, m) /\ Swapped(t, m, g) /\ i \in DOMAIN m.req
  BY <1>0, <1>1, <1>3 DEF SameBut, SameTotals, Swapped, Under
<1>5. \A field \in Fields \ {"installed"} : m.req[i][field] = t.req[i][field]
  BY <1>1, <1>3
<1>6. m.req[i].told = t.req[i].told /\ m.req[i].completeFired = t.req[i].completeFired
  BY <1>5 DEF Fields
<1>7. SameStage([t.req[i] EXCEPT !.installed = TRUE], m.req[i])
  <2>1. DOMAIN t.req[i] = Fields
    BY <1>0 DEF Request
  <2>. DEFINE e == [t.req[i] EXCEPT !.installed = TRUE]
  <2>2. /\ e.completed = t.req[i].completed /\ e.transport = t.req[i].transport
        /\ e.listening = t.req[i].listening /\ e.fire = t.req[i].fire /\ e.timer = t.req[i].timer
        /\ e.installed = TRUE
    BY <2>1 DEF Fields
  <2>. HIDE DEF e
  <2>3. SameStage(e, m.req[i])
    BY <1>3, <1>5, <2>2, Zenon DEF SameStage, Fields
  <2>. QED  BY <2>3 DEF e
<1>. QED  BY <1>2, <1>3, <1>4, <1>6, <1>7 DEF m, p, g

LEMMA InstallKeeps ==
  ASSUME NEW t, Page(t), Inv(t), NEW f, Stands(t, f), f.at = "ajax", f.pc = "install",
         NEW x \in Outcomes
  PROVE  LET m == [Goto(t, "transport") EXCEPT !.req[f.i].installed = TRUE]
             u == IF t.req[f.i].completeFired THEN Tell(Goto(t, "installing"), f.i, "complete")
                  ELSE IF t.req[f.i].completed = "yes" THEN Tell(m, f.i, x) ELSE m
         IN Page(u) /\ Inv(u)
<1>. DEFINE i == f.i
            m == [Goto(t, "transport") EXCEPT !.req[i].installed = TRUE]
            g == Turned(f, "transport")
            w == [m EXCEPT !.req[i].told = Append(@, x)]
<1>0. i \in DOMAIN t.req /\ Told(t.req[i], FALSE) /\ Fits(t, f) /\ Request(t.req[i])
  BY ToldOnTop, Zenon
<1>i. ~t.req[i].installed /\ t.req[i].told = <<>>
  BY <1>0 DEF Fits, AjaxFits, Early
<1>1. /\ Page(m) /\ SameBut(t, m, i) /\ SameTotals(t, m) /\ Swapped(t, m, g)
      /\ SameStage([t.req[i] EXCEPT !.installed = TRUE], m.req[i])
      /\ m.req[i].completeFired = t.req[i].completeFired
      /\ m.req[i].told = <<>> /\ i \in DOMAIN m.req
      /\ g.at = "ajax" /\ g.i = i /\ g.pc = "transport"
  <2>1. f.pc \in {"install", "installing"}
    OBVIOUS
  <2>. QED  BY <1>i, <2>1, InstalledPage, Zenon
<1>. HIDE DEF m, g
<1>t. /\ "complete" \in Tidings /\ x \in Tidings /\ "complete" \notin Outcomes
      /\ x \notin {"complete"} /\ x \in Roles /\ "complete" \in Roles /\ x # "beforeSend"
      /\ <<>> \in Seq(Tidings)
  BY DEF Tidings, Roles, Outcomes
<1>2. CASE ~t.req[i].completeFired /\ t.req[i].completed # "yes"
  <2>1. Times(m.req[i].told, Outcomes) = 0 /\ Times(m.req[i].told, {"complete"}) = 0
    BY <1>1, TimesEmpty
  <2>2. Inv(m)
    BY <1>1, <1>2, <2>1, InstallStep
  <2>. QED  BY <1>1, <1>2, <2>2 DEF m
<1>3. CASE ~t.req[i].completeFired /\ t.req[i].completed = "yes"
  <2>1. /\ Page(w) /\ SameBut(m, w, i) /\ SameTotals(m, w) /\ w.stack = m.stack
        /\ w.req[i].told = Append(m.req[i].told, x)
        /\ SameStage(m.req[i], w.req[i]) /\ w.req[i].completeFired = m.req[i].completeFired
    BY <1>1, <1>t, TellPage, ZenonT(30)
  <2>2. Tell(m, i, x) = User(w, i, x)
    BY DEF Tell
  <2>. HIDE DEF w
  <2>3. SameBut(t, w, i) /\ SameTotals(t, w) /\ Swapped(t, w, g)
    BY <1>1, <2>1 DEF SameBut, SameReq, SameTotals, Swapped, Under
  <2>4. SameStage([t.req[i] EXCEPT !.installed = TRUE], w.req[i])
    BY <1>1, <2>1 DEF SameStage
  <2>5. Times(w.req[i].told, Outcomes) = 1 /\ Times(w.req[i].told, {"complete"}) = 0
    <3>1. Times(Append(<<>>, x), Outcomes) = Times(<<>>, Outcomes) + 1
      BY <1>t, TimesAppend, Zenon
    <3>2. Times(Append(<<>>, x), {"complete"}) = Times(<<>>, {"complete"})
      BY <1>t, TimesAppend, Zenon
    <3>. QED  BY <1>1, <2>1, <3>1, <3>2, TimesEmpty
  <2>6. Inv(w) /\ Free(w)
    BY <1>1, <1>3, <2>1, <2>3, <2>4, <2>5, InstallStep
  <2>7. i \in DOMAIN w.req
    BY <1>1, <2>1 DEF SameBut
  <2>8. Page(User(w, i, x)) /\ Inv(User(w, i, x))
    BY <1>t, <2>1, <2>6, <2>7, UserKeeps
  <2>. QED  BY <1>3, <2>2, <2>8 DEF m
<1>4. CASE t.req[i].completeFired
  <2>. DEFINE p == Goto(t, "installing")
              h == Turned(f, "installing")
              v == [p EXCEPT !.req[i].told = Append(@, "complete")]
  <2>0. t.req[i].completed = "yes"
    BY <1>0, <1>4 DEF Told
  <2>1. /\ Page(p) /\ SameReqs(t, p) /\ SameTotals(t, p) /\ Swapped(t, p, h) /\ p.req = t.req
    <3>1. "installing" \in Pcs
      BY DEF Pcs
    <3>. QED  BY <3>1, GotoPage
  <2>2. h.at = "ajax" /\ h.i = f.i /\ h.pc = "installing"
    BY DEF Turned
  <2>3. Tell(p, i, "complete") = User(v, i, "complete")
    BY DEF Tell
  <2>. HIDE DEF p, h
  <2>4. /\ Page(v) /\ SameBut(p, v, i) /\ SameTotals(p, v) /\ v.stack = p.stack
        /\ v.req[i].told = Append(p.req[i].told, "complete")
        /\ SameStage(p.req[i], v.req[i]) /\ v.req[i].completeFired = p.req[i].completeFired
    <3>1. Page(p) /\ i \in DOMAIN p.req /\ "complete" \in Tidings
      BY <1>0, <1>t, <2>1
    <3>. QED  BY <3>1, TellPage, ZenonT(30)
  <2>. HIDE DEF v
  <2>5. /\ SameBut(t, v, i) /\ SameTotals(t, v) /\ GoesOn(t, v, f, h)
        /\ SameStage(t.req[i], v.req[i]) /\ v.req[i].completeFired
    BY <1>4, <2>1, <2>2, <2>4 DEF SameBut, SameTotals, GoesOn, Swapped, Under
  <2>6. v.req[i].told = <<"complete">>
    BY <1>i, <2>1, <2>4
  <2>7. ~v.req[i].installed /\ v.req[i].completed = "yes"
    BY <1>i, <2>0, <2>5 DEF SameStage
  <2>8. Told(v.req[i], FALSE) /\ AjaxFits(v.req[i], h)
    BY <2>2, <2>5, <2>6, <2>7 DEF Told, AjaxFits, Early
  <2>9. /\ v.req[i].completed = t.req[i].completed /\ v.req[i].listening = t.req[i].listening
        /\ v.req[i].fire = t.req[i].fire /\ v.req[i].timer = t.req[i].timer
        /\ v.req[i].completeFired = t.req[i].completeFired
        /\ t.req[i].transport => v.req[i].transport
    BY <2>1, <2>4, <2>5 DEF SameStage
  <2>10. Inv(v) /\ Free(v)
    BY <2>4, <2>5, <2>8, <2>9, AjaxStep, Zenon
  <2>11. i \in DOMAIN v.req
    BY <1>0, <2>5 DEF SameBut
  <2>12. Page(User(v, i, "complete")) /\ Inv(User(v, i, "complete"))
    BY <1>t, <2>4, <2>10, <2>11, UserKeeps
  <2>. QED  BY <1>4, <2>3, <2>12 DEF p
<1>. QED  BY <1>2, <1>3, <1>4

LEMMA InstallOthersKeeps ==
  ASSUME NEW t, Page(t), Inv(t), NEW f, Stands(t, f), f.at = "ajax", f.pc = "installing",
         NEW x \in Outcomes
  PROVE  LET u == Tell([Goto(t, "transport") EXCEPT !.req[f.i].installed = TRUE], f.i, x)
         IN Page(u) /\ Inv(u)
<1>. DEFINE i == f.i
            m == [Goto(t, "transport") EXCEPT !.req[i].installed = TRUE]
            g == Turned(f, "transport")
            w == [m EXCEPT !.req[i].told = Append(@, x)]
<1>0. i \in DOMAIN t.req /\ Told(t.req[i], FALSE) /\ Fits(t, f) /\ Request(t.req[i])
  BY ToldOnTop, Zenon
<1>i. /\ t.req[i].completed = "yes" /\ t.req[i].completeFired
      /\ t.req[i].told = <<"complete">>
  BY <1>0 DEF Fits, AjaxFits
<1>p. f.pc \in {"install", "installing"}
  OBVIOUS
<1>1. /\ Page(m) /\ SameBut(t, m, i) /\ SameTotals(t, m) /\ Swapped(t, m, g)
      /\ SameStage([t.req[i] EXCEPT !.installed = TRUE], m.req[i])
      /\ m.req[i].completeFired = t.req[i].completeFired
      /\ m.req[i].told = t.req[i].told /\ i \in DOMAIN m.req
      /\ g.at = "ajax" /\ g.i = i /\ g.pc = "transport"
  BY <1>p, InstalledPage, Zenon
<1>. HIDE DEF m, g
<1>t. /\ "complete" \in Tidings /\ x \in Tidings /\ "complete" \notin Outcomes
      /\ x \notin {"complete"} /\ x \in Roles /\ x # "beforeSend"
      /\ <<>> \in Seq(Tidings)
  BY DEF Tidings, Roles, Outcomes
<1>2. /\ Page(w) /\ SameBut(m, w, i) /\ SameTotals(m, w) /\ w.stack = m.stack
      /\ w.req[i].told = Append(m.req[i].told, x)
      /\ SameStage(m.req[i], w.req[i]) /\ w.req[i].completeFired = m.req[i].completeFired
  BY <1>1, <1>t, TellPage, ZenonT(30)
<1>3. Tell(m, i, x) = User(w, i, x)
  BY DEF Tell
<1>. HIDE DEF w
<1>4. SameBut(t, w, i) /\ SameTotals(t, w) /\ Swapped(t, w, g)
  BY <1>1, <1>2 DEF SameBut, SameReq, SameTotals, Swapped, Under
<1>5. SameStage([t.req[i] EXCEPT !.installed = TRUE], w.req[i])
  BY <1>1, <1>2 DEF SameStage
<1>6. Times(w.req[i].told, Outcomes) = 1 /\ Times(w.req[i].told, {"complete"}) = 1
  <2>. DEFINE c == Append(<<>>, "complete")
  <2>1. /\ Times(c, Outcomes) = Times(<<>>, Outcomes)
        /\ Times(c, {"complete"}) = Times(<<>>, {"complete"}) + 1
    BY <1>t, TimesAppend, Zenon
  <2>2. c \in Seq(Tidings) /\ c = <<"complete">>
    BY <1>t
  <2>3. Times(c, Outcomes) = 0 /\ Times(c, {"complete"}) = 1
    BY <2>1, TimesEmpty
  <2>. HIDE DEF c
  <2>4. Times(Append(c, x), Outcomes) = Times(c, Outcomes) + 1
    BY <1>t, <2>2, TimesAppend, Zenon
  <2>5. Times(Append(c, x), {"complete"}) = Times(c, {"complete"})
    <3>. DEFINE W == {"complete"}
    <3>1. x \notin W /\ c \in Seq(Tidings) /\ x \in Tidings
      BY <1>t, <2>2
    <3>. HIDE DEF W
    <3>2. Times(Append(c, x), W) = Times(c, W)
      BY <3>1, TimesAppend, Zenon
    <3>. QED  BY <3>2 DEF W
  <2>6. w.req[i].told = Append(c, x)
    BY <1>i, <1>1, <1>2, <2>2
  <2>. QED  BY <2>3, <2>4, <2>5, <2>6
<1>7. Inv(w) /\ Free(w)
  BY <1>i, <1>p, <1>1, <1>2, <1>4, <1>5, <1>6, InstallStep, Zenon
<1>8. i \in DOMAIN w.req
  BY <1>1, <1>2 DEF SameBut
<1>9. Page(User(w, i, x)) /\ Inv(User(w, i, x))
  BY <1>t, <1>2, <1>7, <1>8, UserKeeps
<1>. QED  BY <1>3, <1>9 DEF m

-----------------------------------------------------------------------------
(* The transport sends. *)
SentAs(t, u, i) ==
  /\ Page(u) /\ SameBut(t, u, i) /\ SameTotals(t, u) /\ u.stack = t.stack
  /\ u.req[i].completed = "no" /\ u.req[i].transport = t.req[i].transport
  /\ u.req[i].fire = t.req[i].fire /\ u.req[i].installed = t.req[i].installed
  /\ u.req[i].completeFired = t.req[i].completeFired /\ u.req[i].told = t.req[i].told
Away(t, i, x) == [t EXCEPT !.req[i].completed = "no", !.req[i].timer = x]
Awaited(t, i, y) == [t EXCEPT !.req[i].listening = TRUE, !.req[i].loading = y]

LEMMA SentPage ==
  ASSUME NEW t, Page(t), NEW i \in DOMAIN t.req, t.req[i].listening = FALSE, NEW x, NEW y
  PROVE  LET m == Away(t, i, x)
         IN SentAs(t, m, i) /\ SentAs(t, Awaited(m, i, y), i) /\ m.req[i].listening = FALSE
<1>. DEFINE m == Away(t, i, x)
            n == Awaited(m, i, y)
<1>t. DOMAIN t = Parts /\ DOMAIN t.req[i] = Fields /\ Request(t.req[i])
  BY DEF Page, Request
<1>m. /\ DOMAIN m = Parts
      /\ m.req = [k \in DOMAIN t.req |-> m.req[k]]
      /\ \A j \in DOMAIN t.req \ {i} : m.req[j] = t.req[j]
      /\ DOMAIN m.req[i] = Fields
      /\ m.stack = t.stack /\ m.window = t.window
      /\ m.active = t.active /\ m.busy = t.busy /\ m.threw = t.threw
      /\ m.req[i].listening = FALSE
      /\ m.req[i].completed = "no" /\ m.req[i].transport = t.req[i].transport
      /\ m.req[i].fire = t.req[i].fire /\ m.req[i].installed = t.req[i].installed
      /\ m.req[i].completeFired = t.req[i].completeFired
      /\ m.req[i].told = t.req[i].told
  BY <1>t DEF Parts, Fields, Away
<1>e. n = [m EXCEPT !.req[i].listening = TRUE, !.req[i].loading = y]
  BY SMTT(30) DEF Awaited
<1>. HIDE DEF m, n
<1>n. /\ DOMAIN n = Parts
      /\ n.req = [k \in DOMAIN t.req |-> n.req[k]]
      /\ \A j \in DOMAIN t.req \ {i} : n.req[j] = t.req[j]
      /\ DOMAIN n.req[i] = Fields
      /\ n.stack = t.stack /\ n.window = t.window
      /\ n.active = t.active /\ n.busy = t.busy /\ n.threw = t.threw
      /\ n.req[i].listening = TRUE
      /\ n.req[i].completed = "no" /\ n.req[i].transport = t.req[i].transport
      /\ n.req[i].fire = t.req[i].fire /\ n.req[i].installed = t.req[i].installed
      /\ n.req[i].completeFired = t.req[i].completeFired
      /\ n.req[i].told = t.req[i].told
  BY <1>t, <1>m, <1>e DEF Parts, Fields
<1>p. /\ t.active \in Int /\ t.busy \in BOOLEAN /\ t.threw \in BOOLEAN
      /\ t.window \in [1..MaxRequests -> 0..MaxRequests] /\ t.stack \in Seq(Frame)
      /\ \A j \in DOMAIN t.req : Request(t.req[j])
  BY DEF Page
<1>1. Request(m.req[i]) /\ Request(n.req[i])
  BY <1>t, <1>m, <1>n, Zenon DEF Request
<1>2. /\ \A j \in DOMAIN t.req \ {i} : SameReq(t.req[j], m.req[j]) /\ Request(m.req[j])
      /\ \A j \in DOMAIN t.req \ {i} : SameReq(t.req[j], n.req[j]) /\ Request(n.req[j])
  BY <1>m, <1>n, <1>p, Zenon DEF SameReq
<1>3. Page(m) /\ SameBut(t, m, i)
  BY <1>m, <1>p, <1>1, <1>2, Touched, Zenon
<1>4. Page(n) /\ SameBut(t, n, i)
  BY <1>n, <1>p, <1>1, <1>2, Touched, Zenon
<1>5. SameTotals(t, m) /\ SameTotals(t, n)
  BY <1>m, <1>n, SMTT(30) DEF SameTotals
<1>6. SentAs(t, m, i) /\ SentAs(t, n, i)
  BY <1>m, <1>n, <1>3, <1>4, <1>5, SMTT(30) DEF SentAs
<1>. QED  BY <1>m, <1>6 DEF m, n

LEMMA SendKeeps ==
  ASSUME NEW t, Page(t), Inv(t), NEW f, Stands(t, f), f.at = "ajax", f.pc = "send",
         t.req[f.i].completed # "yes", NEW x, NEW y
  PROVE  LET m == [Pop(t) EXCEPT !.req[f.i].completed = "no", !.req[f.i].timer = x]
             n == [m EXCEPT !.req[f.i].listening = TRUE, !.req[f.i].loading = y]
             h == [at |-> "native", i |-> f.i, role |-> "none", pc |-> "none"]
         IN /\ Page(n) /\ Inv(n)
            /\ \A a : Page(Done(Push(m, h), f.i, a)) /\ Inv(Done(Push(m, h), f.i, a))
            /\ Page(Done(m, f.i, NoAnswer)) /\ Inv(Done(m, f.i, NoAnswer))
<1>. DEFINE i == f.i
            p == Pop(t)
            m == Away(p, i, x)
            n == Awaited(m, i, y)
            h == [at |-> "native", i |-> i, role |-> "none", pc |-> "none"]
            w == Push(m, h)
<1>0. i \in DOMAIN t.req /\ Fits(t, f) /\ Request(t.req[i])
  BY ToldOnTop, Zenon
<1>1. Page(p) /\ SameReqs(t, p) /\ SameTotals(t, p) /\ Pushed(p, t, f)
  BY PopPage
<1>. HIDE DEF p
<1>2. i \in DOMAIN p.req /\ p.req[i].listening = FALSE
  <2>1. Timed(t.req[i])
    BY <1>0 DEF Inv, Mid, ReqInv
  <2>2. t.req[i].completed # "no"
    BY <1>0 DEF Fits, AjaxFits
  <2>3. p.req[i].listening \in BOOLEAN
    BY <1>0, <1>1 DEF SameReqs, Page, Request
  <2>. QED  BY <1>0, <1>1, <2>1, <2>2, <2>3 DEF Timed, SameReqs, SameReq
<1>3. SentAs(p, m, i) /\ SentAs(p, n, i) /\ m.req[i].listening = FALSE
  BY <1>1, <1>2, SentPage, ZenonT(30)
<1>. HIDE DEF m, n
<1>4. ASSUME NEW u \in {m, n}  PROVE Inv(u) /\ Free(u)
  <2>1. /\ Page(u) /\ SameBut(p, u, i) /\ SameTotals(p, u) /\ u.stack = p.stack
        /\ u.req[i].completed = "no" /\ u.req[i].transport = p.req[i].transport
        /\ u.req[i].fire = p.req[i].fire /\ u.req[i].installed = p.req[i].installed
        /\ u.req[i].completeFired = p.req[i].completeFired
        /\ u.req[i].told = p.req[i].told
    BY <1>3 DEF SentAs
  <2>2. Pushed(u, t, f) /\ SameTotals(t, u)
    BY <1>1, <2>1 DEF Pushed, Under, SameTotals
  <2>3. SameBut(t, u, i)
    BY <1>1, <2>1 DEF SameBut, SameReqs, SameReq
  <2>4. SameReq(t.req[i], p.req[i])
    BY <1>0, <1>1 DEF SameReqs
  <2>5. /\ u.req[i].transport = t.req[i].transport
        /\ u.req[i].fire = t.req[i].fire /\ u.req[i].installed = t.req[i].installed
        /\ u.req[i].completeFired = t.req[i].completeFired
        /\ u.req[i].told = t.req[i].told
    BY <2>1, <2>4 DEF SameReq
  <2>. QED  BY <2>1, <2>2, <2>3, <2>5, SentKeeps
<1>5. Page(n) /\ Inv(n)
  BY <1>3, <1>4 DEF SentAs
<1>6. /\ Page(m) /\ Inv(m) /\ Free(m) /\ i \in DOMAIN m.req /\ ~m.req[i].listening
  BY <1>2, <1>3, <1>4 DEF SameBut, SentAs
<1>7. Page(Done(m, i, NoAnswer)) /\ Inv(Done(m, i, NoAnswer))
  BY <1>6, DoneKeeps DEF Inv
<1>8. h \in Frame /\ h.at = "native" /\ h.i = i /\ h.pc = "none" /\ h.role = "none"
  BY <1>6, Types DEF Frame, Pcs, Roles
<1>. HIDE DEF h
<1>9. Page(w) /\ SameReqs(m, w) /\ SameTotals(m, w) /\ Pushed(m, w, h)
  BY <1>6, <1>8, PushPage
<1>. HIDE DEF w
<1>10. Inv(w) /\ Free(w)
  BY <1>6, <1>8, <1>9, PushKeeps
<1>11. i \in DOMAIN w.req /\ ~w.req[i].listening
  BY <1>6, <1>9 DEF SameReqs, SameReq
<1>12. \A a : Page(Done(w, i, a)) /\ Inv(Done(w, i, a))
  BY <1>9, <1>10, <1>11, DoneKeeps DEF Inv
<1>. QED  BY <1>5, <1>7, <1>12 DEF m, n, p, h, w, Away, Awaited

-----------------------------------------------------------------------------
(* User code and what the browser calls end. *)
LEMMA EndKeeps ==
  ASSUME NEW t, Page(t), Inv(t), NEW f, Stands(t, f), f.at \in {"user", "native"}
  PROVE  Page(Pop(t)) /\ Inv(Pop(t))
<1>. DEFINE u == Pop(t)
<1>1. Page(u) /\ SameReqs(t, u) /\ SameTotals(t, u) /\ Pushed(u, t, f)
  BY PopPage
<1>. HIDE DEF u
<1>2. Mid(u) /\ \A j \in DOMAIN t.req : Begun(t, j) => Begun(u, j)
  BY <1>1, PopKeeps DEF Inv
<1>. QED  BY <1>1, <1>2 DEF Inv, SameReqs, u

LEMMA VetoKeeps ==
  ASSUME NEW t, Page(t), Inv(t), NEW f, Stands(t, f), Asks(f)
  PROVE  Page(Goto(Pop(t), "vetoed")) /\ Inv(Goto(Pop(t), "vetoed"))
<1>. DEFINE u == Pop(t)
<1>1. Page(u) /\ SameReqs(t, u) /\ SameTotals(t, u) /\ Pushed(u, t, f)
  BY PopPage
<1>2. Page(u) /\ Inv(u)
  BY EndKeeps DEF Asks
<1>. HIDE DEF u
<1>3. /\ Len(t.stack) \in DOMAIN t.stack /\ t.stack[Len(t.stack)] = f
      /\ Len(u.stack) = Len(t.stack) - 1 /\ Len(u.stack) \in Nat
      /\ DOMAIN u.stack = 1..Len(u.stack)
      /\ \A k \in 1..Len(u.stack) : u.stack[k] = t.stack[k]
  BY <1>1, Types DEF Stands, Pushed, Under
<1>4. Len(t.stack) > 1 /\ Allows(t.stack[Len(t.stack) - 1])
  BY <1>3, Zenon DEF Inv, Mid, StackInv, AskInv
<1>. DEFINE a == u.stack[Len(u.stack)]
<1>5. Stands(u, a) /\ Allows(a)
  BY <1>2, <1>3, <1>4, Types DEF Stands
<1>. HIDE DEF a
<1>6. Fits(u, a)
  BY <1>2, <1>5, TopFits DEF Inv, Mid
<1>7. AjaxFits(u.req[a.i], Turned(a, "vetoed")) /\ "vetoed" \in Pcs
  BY <1>5, <1>6 DEF Fits, Allows, AjaxFits, Early, Turned, Pcs
<1>8. Page(Goto(u, "vetoed")) /\ Inv(Goto(u, "vetoed"))
  BY <1>2, <1>5, <1>7, GotoKeeps DEF Allows
<1>. QED  BY <1>8 DEF u

(* There is a last native event: a set of numbers has a least element. *)
Less == {ss \in Nat \X Nat : ss[1] < ss[2]}

LEMMA NatMin ==
  ASSUME NEW T, T \subseteq Nat, T # {}
  PROVE \E x \in T : \A y \in T : x <= y
<1>1. OpToRel(<, Nat) = Less
  BY Zenon DEF OpToRel, Less
<1>2. IsWellFoundedOn(Less, Nat)
  BY <1>1, NatLessThanWellFounded, Zenon
<1>3. PICK x \in T : \A y \in T : ~(<<y,x>> \in Less)
  BY <1>2, WFMin, Zenon
<1>4. \A a, b \in Nat : a < b => <<a, b>> \in Less
  <2>. TAKE a, b \in Nat
  <2>. HAVE a < b
  <2>1. <<a, b>> \in Nat \X Nat /\ <<a, b>>[1] < <<a, b>>[2]
    OBVIOUS
  <2>. QED  BY <2>1, Zenon DEF Less
<1>5. \A y \in T : ~(y < x)
  BY <1>3, <1>4, Zenon
<1>. QED  BY <1>5

LEMMA LastThere ==
  ASSUME NEW n \in Nat, NEW B, B \subseteq 1..n, B # {}
  PROVE  \E k \in B : \A j \in B : j <= k
<1>. DEFINE T == {n - k : k \in B}
<1>1. T \subseteq Nat
  OBVIOUS
<1>2. T # {}
  OBVIOUS
<1>. HIDE DEF T
<1>3. PICK x \in T : \A y \in T : x <= y
  BY <1>1, <1>2, NatMin, Zenon
<1>4. PICK k \in B : x = n - k
  BY DEF T
<1>5. ASSUME NEW j \in B  PROVE j <= k
  <2>1. n - j \in T
    BY DEF T
  <2>2. n - k <= n - j
    BY <1>3, <1>4, <2>1
  <2>. QED  BY <2>2
<1>. QED  BY <1>5

LEMMA ThrowKeeps ==
  ASSUME NEW t, Page(t), Inv(t), NEW f, Stands(t, f), f.at = "user"
  PROVE  LET below == {k \in DOMAIN t.stack : t.stack[k].at = "native"}
             last == CHOOSE k \in below : \A j \in below : j <= k
             u == [t EXCEPT !.threw = TRUE,
                            !.stack = IF below = {} THEN <<>> ELSE SubSeq(@, 1, last)]
         IN Page(u) /\ Inv(u)
<1>. DEFINE below == {k \in DOMAIN t.stack : t.stack[k].at = "native"}
            last == CHOOSE k \in below : \A j \in below : j <= k
            q == IF below = {} THEN <<>> ELSE SubSeq(t.stack, 1, last)
            u == [t EXCEPT !.threw = TRUE,
                           !.stack = IF below = {} THEN <<>> ELSE SubSeq(@, 1, last)]
<1>t. /\ DOMAIN t = Parts /\ t.stack \in Seq(Frame) /\ Len(t.stack) \in Nat
      /\ DOMAIN t.stack = 1..Len(t.stack)
  BY Types DEF Page
<1>1. /\ DOMAIN u = Parts /\ u.req = t.req /\ u.stack = q /\ u.window = t.window
      /\ u.active = t.active /\ u.busy = t.busy /\ u.threw = TRUE
  BY <1>t DEF Parts
<1>. HIDE DEF u
<1>2. /\ q \in Seq(Frame) /\ Len(q) \in Nat /\ Len(q) <= Len(t.stack) /\ DOMAIN q = 1..Len(q)
      /\ \A k \in 1..Len(q) : q[k] = t.stack[k]
  <2>1. CASE below = {}
    BY <1>t, <2>1
  <2>2. CASE below # {}
    <3>1. \E k \in below : \A j \in below : j <= k
      <4>1. below \subseteq 1..Len(t.stack)
        BY <1>t
      <4>. HIDE DEF below
      <4>. QED  BY <1>t, <2>2, <4>1, LastThere, Zenon
    <3>2. last \in below
      <4>. HIDE DEF below
      <4>. QED  BY <3>1
    <3>3. last \in 1..Len(t.stack) /\ q = SubSeq(t.stack, 1, last)
      BY <1>t, <2>2, <3>2, Zenon
    <3>. HIDE DEF last, q
    <3>. QED  BY <1>t, <3>3
  <2>. QED  BY <2>1, <2>2, Zenon
<1>. HIDE DEF q
<1>3. Page(u)
  <2>1. u.threw \in BOOLEAN
    BY <1>1, ZenonT(30)
  <2>. QED  BY <1>1, <1>2, <2>1 DEF Page
<1>m. Mid(t) /\ StackInv(t) /\ AskInv(t) /\ ReqInv(t)
  BY DEF Inv, Mid, StackInv
<1>4. Free(t) /\ Free(u)
  <2>1. f.pc # "settle"
    BY <1>m, TopFits DEF Fits
  <2>2. Free(t)
    BY <1>m, <2>1, FreeTop
  <2>. QED  BY <1>t, <1>1, <1>2, <2>2 DEF Free
<1>5. StackInv(u)
  <2>1. \A g : Fits(t, g) => Fits(u, g)
    BY <1>1 DEF Fits
  <2>2. \A k \in DOMAIN u.stack : Fits(u, u.stack[k])
    BY <1>t, <1>1, <1>2, <1>m, <2>1 DEF StackInv
  <2>3. \A k, l \in DOMAIN u.stack : Alike(u.stack[k], u.stack[l]) => k = l
    BY <1>t, <1>1, <1>2, <1>m DEF StackInv
  <2>4. AskInv(u)
    <3>. SUFFICES ASSUME NEW k \in DOMAIN u.stack, Asks(u.stack[k])
                  PROVE  k > 1 /\ Allows(u.stack[k - 1])
      BY DEF AskInv
    <3>1. k \in DOMAIN t.stack /\ u.stack[k] = t.stack[k]
      BY <1>t, <1>1, <1>2
    <3>2. k > 1 /\ Allows(t.stack[k - 1])
      BY <1>m, <3>1 DEF AskInv
    <3>. QED  BY <1>t, <1>1, <1>2, <3>1, <3>2
  <2>. QED  BY <1>4, <2>2, <2>3, <2>4 DEF StackInv, Free
<1>6. ReqInv(u)
  <2>1. \A i : ~Settling(t, i) /\ ~Settling(u, i)
    BY <1>4 DEF Free, Settling, DoneOf
  <2>. QED  BY <1>1, <1>m, <2>1 DEF ReqInv, Told
<1>7. /\ HeardInv(u) /\ CountInv(u)
      /\ \A j \in DOMAIN u.req : Begun(u, j)
  BY <1>1 DEF HeardInv, Heard, CountInv, Begun
<1>. QED  BY <1>3, <1>5, <1>6, <1>7, Zenon DEF Inv, Mid, u

-----------------------------------------------------------------------------
(* Answers, timers and calls. *)
LEMMA FreeCall ==
  ASSUME NEW t, Page(t), Inv(t), t.stack = <<>> \/ t.stack[Len(t.stack)].at = "user"
  PROVE  Free(t)
<1>1. CASE t.stack = <<>>
  BY <1>1, FreeIdle
<1>2. CASE t.stack # <<>> /\ t.stack[Len(t.stack)].at = "user"
  <2>. DEFINE f == t.stack[Len(t.stack)]
  <2>1. Stands(t, f) /\ f.at = "user"
    BY <1>2 DEF Stands
  <2>. HIDE DEF f
  <2>2. f.pc # "settle"
    BY <2>1, TopFits DEF Fits, Inv, Mid
  <2>. QED  BY <2>1, <2>2, FreeTop DEF Inv, Mid
<1>. QED  BY <1>1, <1>2

LEMMA CalmDone ==
  ASSUME NEW t, Page(t), Inv(t), t.stack = <<>>, NEW i \in DOMAIN t.req, NEW u, NEW a,
         \/ u = [t EXCEPT !.req[i].listening = FALSE]
         \/ u = [t EXCEPT !.req[i].loading = FALSE, !.req[i].listening = FALSE]
  PROVE  Page(u) /\ Inv(u) /\ Page(Done(u, i, a)) /\ Inv(Done(u, i, a))
<1>1. Page(u) /\ Calmly(t, u)
  BY CalmPage, Zenon
<1>2. Inv(u)
  BY <1>1, CalmKeeps
<1>3. Free(u) /\ i \in DOMAIN u.req
  BY <1>1, FreeIdle DEF Calmly
<1>4. u.req[i].listening = FALSE
  <2>1. DOMAIN t = Parts /\ DOMAIN t.req[i] = Fields
    BY DEF Page, Request
  <2>2. CASE u = [t EXCEPT !.req[i].listening = FALSE]
    BY <2>1, <2>2 DEF Parts, Fields
  <2>3. CASE u = [t EXCEPT !.req[i].loading = FALSE, !.req[i].listening = FALSE]
    BY <2>1, <2>3 DEF Parts, Fields
  <2>. QED  BY <2>2, <2>3, Zenon
<1>5. ~u.req[i].listening
  BY <1>4
<1>. QED  BY <1>1, <1>2, <1>3, <1>5, DoneKeeps DEF Inv

LEMMA ScriptLoadsKeeps ==
  ASSUME NEW t, Page(t), Inv(t), t.stack = <<>>, NEW i \in DOMAIN t.req, NEW a
  PROVE  LET u == [RunScript(t, i, a) EXCEPT !.req[i].loading = FALSE,
                                             !.req[i].listening = FALSE]
         IN Page(u) /\ Inv(u) /\ Page(Done(u, i, a)) /\ Inv(Done(u, i, a))
<1>. DEFINE r == RunScript(t, i, a)
<1>1. Quietly(t, r)
  BY RunScriptQuiet
<1>. HIDE DEF r
<1>2. Page(r) /\ Inv(r) /\ r.stack = <<>> /\ i \in DOMAIN r.req
  BY <1>1, QuietKeeps DEF Quietly, SameReqs
<1>. DEFINE u == [r EXCEPT !.req[i].loading = FALSE, !.req[i].listening = FALSE]
<1>3. u = [r EXCEPT !.req[i].loading = FALSE, !.req[i].listening = FALSE]
  OBVIOUS
<1>. HIDE DEF u
<1>4. Page(u) /\ Inv(u) /\ Page(Done(u, i, a)) /\ Inv(Done(u, i, a))
  BY <1>2, <1>3, CalmDone, Zenon
<1>. QED  BY <1>4 DEF u, r

LEMMA TimeoutKeeps ==
  ASSUME NEW t, Page(t), Inv(t), t.stack = <<>>, NEW i \in DOMAIN t.req
  PROVE  LET u == AbortRequest([t EXCEPT !.req[i].timer = FALSE], i)
         IN Page(u) /\ Inv(u)
<1>. DEFINE m == [t EXCEPT !.req[i].timer = FALSE]
<1>e. m = [t EXCEPT !.req[i].timer = FALSE]
  OBVIOUS
<1>. HIDE DEF m
<1>1. Page(m) /\ Calmly(t, m)
  BY <1>e, CalmPage, Zenon
<1>2. Inv(m) /\ Free(m) /\ i \in DOMAIN m.req
  BY <1>1, CalmKeeps, FreeIdle DEF Calmly
<1>3. Page(AbortRequest(m, i)) /\ Inv(AbortRequest(m, i))
  BY <1>1, <1>2, AbortKeeps DEF Inv
<1>. QED  BY <1>3 DEF m

(* A request that is new. *)
New(r) ==
  /\ r.completed = "null" /\ r.listening = FALSE /\ r.fire = FALSE /\ r.timer = FALSE
  /\ r.installed = FALSE /\ r.completeFired = FALSE /\ r.told = <<>>
Added(t, u) ==
  /\ DOMAIN u.req = 1..(Len(t.req) + 1)
  /\ \A j \in DOMAIN t.req : SameReq(t.req[j], u.req[j])
  /\ New(u.req[Len(t.req) + 1])

LEMMA NewPage ==
  ASSUME NEW t, Page(t), Len(t.req) < MaxRequests, NEW o
  PROVE  LET u == [t EXCEPT !.req = Append(@, NewRequest(o))]
         IN Page(u) /\ Added(t, u) /\ SameTotals(t, u) /\ u.stack = t.stack
<1>. DEFINE u == [t EXCEPT !.req = Append(@, NewRequest(o))]
            r == NewRequest(o)
            i == Len(t.req) + 1
<1>t. DOMAIN t = Parts /\ Len(t.req) \in Nat /\ DOMAIN t.req = 1..Len(t.req)
  BY Types DEF Page
<1>1. /\ DOMAIN u = Parts /\ u.req = Append(t.req, r) /\ u.stack = t.stack /\ u.window = t.window
      /\ u.active = t.active /\ u.busy = t.busy /\ u.threw = t.threw
  BY <1>t DEF Parts
<1>. HIDE DEF u
<1>2. /\ DOMAIN r = Fields /\ New(r)
      /\ r.transport = FALSE
  BY DEF NewRequest, Fields, New
<1>3. Request(r)
  <2>1. <<>> \in Seq(Tidings)
    OBVIOUS
  <2>2. FALSE \in BOOLEAN
    OBVIOUS
  <2>. QED  BY <1>2, <2>1, <2>2, Zenon DEF Request, New
<1>. HIDE DEF r
<1>4. PICK D : t.req \in Seq(D)
  BY DEF Page
<1>5. t.req \in Seq(D \cup {r}) /\ r \in D \cup {r}
  BY <1>4
<1>6. /\ u.req \in Seq(D \cup {r}) /\ DOMAIN u.req = 1..i /\ Len(u.req) = i
      /\ \A j \in DOMAIN t.req : u.req[j] = t.req[j]
      /\ u.req[i] = r
  BY <1>t, <1>1, <1>5, AppendProperties
<1>7. Len(u.req) <= MaxRequests
  BY <1>t, <1>6, AjaxAssumption
<1>8. \A j \in DOMAIN u.req : Request(u.req[j])
  <2>. SUFFICES ASSUME NEW j \in DOMAIN u.req  PROVE Request(u.req[j])
    OBVIOUS
  <2>1. j \in DOMAIN t.req \/ j = i
    BY <1>t, <1>6
  <2>. QED  BY <1>3, <1>6, <2>1 DEF Page
<1>9. Page(u)
  BY <1>1, <1>6, <1>7, <1>8 DEF Page
<1>10. Added(t, u)
  BY <1>2, <1>6 DEF Added, SameReq
<1>. QED  BY <1>1, <1>9, <1>10 DEF SameTotals, u

LEMMA InstalledQuiet ==
  ASSUME NEW t, Page(t), NEW i \in DOMAIN t.req
  PROVE  Quietly(t, Install(t, i))
<1>1. CASE ~Jsonp(t.req[i])
  BY <1>1, QuietlyNone DEF Install
<1>2. CASE Jsonp(t.req[i])
  <2>. DEFINE free == t.old # <<>>
              n == IF free THEN Last(t.old) ELSE t.made + 1
              made == IF free THEN t.made ELSE n
              old == IF free THEN SubSeq(t.old, 1, Len(t.old) - 1) ELSE t.old
              u == Install(t, i)
  <2>t. /\ DOMAIN t = Parts /\ DOMAIN t.req[i] = Fields
        /\ t.window \in [1..MaxRequests -> 0..MaxRequests]
    BY DEF Page, Request
  <2>1. u = [t EXCEPT !.req[i].name = n, !.window[n] = i, !.made = made, !.old = old]
    BY <1>2, <2>t DEF Install, Parts
  <2>. HIDE DEF n, made, old, u
  <2>2. /\ DOMAIN u = Parts
        /\ u.req = [k \in DOMAIN t.req |-> u.req[k]]
        /\ \A j \in DOMAIN t.req \ {i} : u.req[j] = t.req[j]
        /\ DOMAIN u.req[i] = Fields
    BY <2>1, <2>t DEF Parts, Fields
  <2>3. SameReq(t.req[i], u.req[i])
    BY <2>1, <2>t DEF SameReq, Parts, Fields
  <2>4. SameTotals(t, u) /\ u.stack = t.stack
    BY <2>1, <2>t DEF SameTotals, Parts
  <2>5. u.window \in [1..MaxRequests -> 0..MaxRequests]
    <3>1. u.window = [t.window EXCEPT ![n] = i]
      BY <2>1, <2>t DEF Parts
    <3>2. i \in 0..MaxRequests
      <4>1. Len(t.req) \in Nat /\ DOMAIN t.req = 1..Len(t.req) /\ Len(t.req) <= MaxRequests
        BY Types DEF Page
      <4>. QED  BY <4>1, AjaxAssumption
    <3>. QED  BY <2>t, <3>1, <3>2, Zenon
  <2>6. Quietly(t, u)
    BY <2>2, <2>3, <2>4, <2>5, QuietlyTouched, Zenon
  <2>. QED  BY <2>6 DEF u
<1>. QED  BY <1>1, <1>2

LEMMA AddedKeeps ==
  ASSUME NEW t, NEW u, NEW f, Page(t), Page(u), Inv(t), Free(t), Added(t, u),
         SameTotals(t, u), Pushed(t, u, f), f.at = "ajax", f.i = Len(t.req) + 1,
         f.pc = "prefiltered"
  PROVE  Inv(u) /\ Free(u)
<1>. DEFINE i == f.i
            n == Len(t.stack)
<1>m. Mid(t) /\ StackInv(t) /\ AskInv(t) /\ CountInv(t)
  BY DEF Inv, Mid, StackInv
<1>0. /\ n \in Nat /\ DOMAIN t.stack = 1..n /\ DOMAIN u.stack = 1..(n + 1) /\ Len(u.stack) = n + 1
      /\ \A k \in 1..n : u.stack[k] = t.stack[k]
      /\ u.stack[n + 1] = f
      /\ Len(t.req) \in Nat /\ DOMAIN t.req = 1..Len(t.req)
      /\ DOMAIN u.req = DOMAIN t.req \cup {i} /\ i \notin DOMAIN t.req /\ i \in DOMAIN u.req
  BY Types DEF Pushed, Under, Added
<1>1. /\ \A j \in DOMAIN t.req : SameReq(t.req[j], u.req[j])
      /\ New(u.req[i])
  BY DEF Added
<1>2. \A k \in DOMAIN t.stack : t.stack[k].i \in DOMAIN t.req /\ Fits(t, t.stack[k])
  BY <1>m DEF StackInv, Fits
<1>3. /\ \A j : DoneOf(u, j) = DoneOf(t, j)
      /\ DoneOf(u, i) = {}
      /\ \A j : AjaxOf(t, j) \subseteq AjaxOf(u, j)
      /\ n + 1 \in AjaxOf(u, i)
  <2>1. ASSUME NEW j  PROVE DoneOf(u, j) = DoneOf(t, j)
    BY <1>0 DEF DoneOf
  <2>2. DoneOf(t, i) = {}
    BY <1>0, <1>2 DEF DoneOf
  <2>3. ASSUME NEW j  PROVE AjaxOf(t, j) \subseteq AjaxOf(u, j)
    BY <1>0 DEF AjaxOf
  <2>4. n + 1 \in AjaxOf(u, i)
    BY <1>0 DEF AjaxOf
  <2>. QED  BY <2>1, <2>2, <2>3, <2>4
<1>4. Free(u)
  BY <1>0, SMTT(30) DEF Free
<1>5. StackInv(u)
  <2>1. ASSUME NEW k \in DOMAIN u.stack  PROVE Fits(u, u.stack[k])
    <3>1. CASE k = n + 1
      BY <1>0, <1>1, <3>1, ZenonT(30) DEF Fits, AjaxFits, New
    <3>2. CASE k # n + 1
      <4>1. k \in DOMAIN t.stack /\ u.stack[k] = t.stack[k]
        BY <1>0, <3>2
      <4>2. Fits(t, t.stack[k]) /\ t.stack[k].i \in DOMAIN t.req
        BY <1>2, <4>1
      <4>3. SameReq(t.req[t.stack[k].i], u.req[t.stack[k].i])
        BY <1>1, <4>2
      <4>. QED  BY <1>0, <4>1, <4>2, <4>3 DEF Fits, DoneFits, AjaxFits, SameReq
    <3>. QED  BY <3>1, <3>2
  <2>2. ASSUME NEW k \in DOMAIN u.stack, NEW l \in DOMAIN u.stack, Alike(u.stack[k], u.stack[l])
        PROVE  k = l
    <3>1. ASSUME NEW j \in DOMAIN u.stack, j # n + 1  PROVE u.stack[j].i # i
      <4>1. j \in DOMAIN t.stack /\ u.stack[j] = t.stack[j]
        BY <1>0, <3>1
      <4>2. t.stack[j].i \in DOMAIN t.req
        BY <1>2, <4>1
      <4>3. i \notin DOMAIN t.req
        BY <1>0
      <4>. QED  BY <4>1, <4>2, <4>3
    <3>2. u.stack[n + 1].i = i
      BY <1>0
    <3>3. u.stack[k].i = u.stack[l].i
      BY <2>2 DEF Alike
    <3>4. CASE k = n + 1
      BY <3>1, <3>2, <3>3, <3>4
    <3>5. CASE l = n + 1
      BY <3>1, <3>2, <3>3, <3>5
    <3>6. CASE k # n + 1 /\ l # n + 1
      <4>1. k \in DOMAIN t.stack /\ l \in DOMAIN t.stack
        BY <1>0, <3>6
      <4>2. Alike(t.stack[k], t.stack[l])
        BY <1>0, <2>2, <4>1, Zenon
      <4>3. \A x, y \in DOMAIN t.stack : Alike(t.stack[x], t.stack[y]) => x = y
        BY <1>m DEF StackInv
      <4>. QED  BY <4>1, <4>2, <4>3
    <3>. QED  BY <3>4, <3>5, <3>6
  <2>3. AskInv(u)
    <3>. SUFFICES ASSUME NEW k \in DOMAIN u.stack, Asks(u.stack[k])
                  PROVE  k > 1 /\ Allows(u.stack[k - 1])
      BY DEF AskInv
    <3>1. k \in DOMAIN t.stack /\ u.stack[k] = t.stack[k]
      BY <1>0 DEF Asks
    <3>2. k > 1 /\ Allows(t.stack[k - 1])
      BY <1>m, <3>1 DEF AskInv
    <3>. QED  BY <1>0, <3>1, <3>2
  <2>. QED  BY <1>4, <2>1, <2>2, <2>3 DEF StackInv, Free
<1>6. ReqInv(u)
  <2>. SUFFICES ASSUME NEW j \in DOMAIN u.req
       PROVE  Timed(u.req[j]) /\ Told(u.req[j], Settling(u, j))
    BY DEF ReqInv
  <2>1. ~Settling(t, j) /\ ~Settling(u, j)
    BY <1>4 DEF Free, Settling, DoneOf
  <2>2. CASE j = i
    BY <1>1, <2>2, TimesEmpty DEF New, Timed, Told
  <2>3. CASE j # i
    <3>1. j \in DOMAIN t.req /\ SameReq(t.req[j], u.req[j])
      BY <1>0, <1>1, <2>3
    <3>2. Timed(t.req[j]) /\ Told(t.req[j], Settling(t, j))
      BY <1>m, <3>1 DEF Mid, ReqInv
    <3>. QED  BY <2>1, <3>1, <3>2 DEF Timed, Told, SameReq
  <2>. QED  BY <2>2, <2>3
<1>7. HeardInv(u)
  <2>. SUFFICES ASSUME NEW j \in DOMAIN u.req  PROVE Heard(u, j)
    BY DEF HeardInv
  <2>1. CASE j = i
    BY <1>1, <2>1 DEF New, Heard
  <2>2. CASE j # i
    <3>1. j \in DOMAIN t.req /\ SameReq(t.req[j], u.req[j])
      BY <1>0, <1>1, <2>2
    <3>2. Heard(t, j)
      BY <1>m, <3>1 DEF Mid, HeardInv
    <3>3. \A k \in DoneOf(t, j) : u.stack[k] = t.stack[k]
      BY <1>0 DEF DoneOf
    <3>. QED  BY <1>3, <3>1, <3>2, <3>3 DEF Heard, SameReq, SameTotals
  <2>. QED  BY <2>1, <2>2
<1>8. CountInv(u)
  <2>1. ASSUME NEW j \in DOMAIN t.req  PROVE j \in Counted(u) <=> j \in Counted(t)
    BY <1>0, <1>1, <1>3 DEF Counted, SameReq
  <2>2. i \notin Counted(u)
    BY <1>1 DEF Counted, New
  <2>3. Counted(u) = Counted(t)
    BY <1>0, <2>1, <2>2 DEF Counted
  <2>. QED  BY <1>m, <2>3, CountSame
<1>9. \A j \in DOMAIN u.req : Begun(u, j)
  <2>. SUFFICES ASSUME NEW j \in DOMAIN u.req  PROVE Begun(u, j)
    OBVIOUS
  <2>1. CASE j = i
    BY <1>3, <2>1 DEF Begun
  <2>2. CASE j # i
    <3>1. j \in DOMAIN t.req /\ SameReq(t.req[j], u.req[j])
      BY <1>0, <1>1, <2>2
    <3>2. Begun(t, j)
      BY <3>1 DEF Inv
    <3>. QED  BY <1>3, <3>1, <3>2 DEF Begun, SameReq, SameTotals
  <2>. QED  BY <2>1, <2>2
<1>. QED  BY <1>4, <1>5, <1>6, <1>7, <1>8, <1>9 DEF Inv, Mid

LEMMA StartKeeps ==
  ASSUME NEW t, Page(t), Inv(t), Free(t), Len(t.req) < MaxRequests, NEW o
  PROVE  LET i == Len(t.req) + 1
             m == Install([t EXCEPT !.req = Append(@, NewRequest(o))], i)
             u == User(Push(m, [at |-> "ajax", i |-> i, role |-> "none", pc |-> "prefiltered"]),
                       i, "prefilter")
         IN Page(u) /\ Inv(u)
<1>. DEFINE i == Len(t.req) + 1
            b == [t EXCEPT !.req = Append(@, NewRequest(o))]
            m == Install(b, i)
            f == [at |-> "ajax", i |-> i, role |-> "none", pc |-> "prefiltered"]
            w == Push(m, f)
<1>1. Page(b) /\ Added(t, b) /\ SameTotals(t, b) /\ b.stack = t.stack
  BY NewPage
<1>. HIDE DEF b
<1>2. i \in DOMAIN b.req /\ i \in Nat
  BY <1>1, Types DEF Added
<1>3. Quietly(b, m)
  BY <1>1, <1>2, InstalledQuiet
<1>. HIDE DEF m
<1>4. f \in Frame /\ f.at = "ajax" /\ f.i = i /\ f.pc = "prefiltered"
  BY <1>2 DEF Frame, Roles, Pcs, Early
<1>. HIDE DEF f
<1>5. Page(w) /\ SameReqs(m, w) /\ SameTotals(m, w) /\ Pushed(m, w, f)
  BY <1>3, <1>4, PushPage DEF Quietly
<1>. HIDE DEF w
<1>6. SameReqs(b, w) /\ SameTotals(b, w)
  BY <1>3, <1>5 DEF Quietly, SameReqs, SameReq, SameTotals
<1>7. Added(t, w)
  <2>1. DOMAIN w.req = 1..i
    BY <1>1, <1>6 DEF Added, SameReqs
  <2>2. ASSUME NEW j \in DOMAIN t.req  PROVE SameReq(t.req[j], w.req[j])
    <3>1. j \in DOMAIN b.req
      BY <1>1, Types DEF Added
    <3>2. SameReq(t.req[j], b.req[j]) /\ SameReq(b.req[j], w.req[j])
      BY <1>1, <1>6, <3>1 DEF Added, SameReqs
    <3>. QED  BY <3>2 DEF SameReq
  <2>3. New(w.req[i])
    <3>1. New(b.req[i]) /\ SameReq(b.req[i], w.req[i])
      BY <1>1, <1>2, <1>6 DEF Added, SameReqs
    <3>. QED  BY <3>1 DEF New, SameReq
  <2>. QED  BY <2>1, <2>2, <2>3 DEF Added
<1>8. SameTotals(t, w) /\ Pushed(t, w, f)
  BY <1>1, <1>3, <1>5, <1>6 DEF Quietly, SameTotals, Pushed, Under
<1>9. Inv(w) /\ Free(w)
  BY <1>4, <1>5, <1>7, <1>8, AddedKeeps
<1>10. i \in DOMAIN w.req /\ "prefilter" \in Roles
  BY <1>2, <1>6 DEF SameReqs, Roles
<1>11. Page(User(w, i, "prefilter")) /\ Inv(User(w, i, "prefilter"))
  BY <1>5, <1>9, <1>10, UserKeeps
<1>. QED  BY <1>11 DEF w, m, b, f

-----------------------------------------------------------------------------
(* The state of the page, whatever is called, answered or thrown. *)
RequestsInv == Page(s) /\ Inv(s)

LEMMA RequestsInit == Init => RequestsInv
<1>. SUFFICES ASSUME Init  PROVE RequestsInv
  OBVIOUS
<1>. DEFINE w == [n \in 1..MaxRequests |-> None]
<1>1. s = [req |-> <<>>, active |-> 0, window |-> w, old |-> <<>>, made |-> 0, busy |-> FALSE,
           stack |-> <<>>, threw |-> FALSE, silent |-> FALSE]
  BY DEF Init
<1>2. w \in [1..MaxRequests -> 0..MaxRequests]
  <2>1. None \in 0..MaxRequests
    BY AjaxAssumption DEF None
  <2>. QED  BY <2>1
<1>. HIDE DEF w
<1>3. /\ DOMAIN s = Parts /\ s.req = <<>> /\ s.active = 0 /\ s.window = w /\ s.busy = FALSE
      /\ s.stack = <<>> /\ s.threw = FALSE
  BY <1>1 DEF Parts
<1>4. /\ s.req \in Seq({}) /\ s.stack \in Seq(Frame) /\ Len(s.req) = 0
      /\ DOMAIN s.req = {} /\ DOMAIN s.stack = {}
  BY <1>3
<1>5. Page(s)
  <2>1. s.busy \in BOOLEAN /\ s.threw \in BOOLEAN
    BY <1>3, ZenonT(30)
  <2>2. \E D : s.req \in Seq(D)
    BY <1>4
  <2>3. Len(s.req) <= MaxRequests /\ s.active \in Int
    BY <1>3, <1>4, AjaxAssumption
  <2>4. \A i \in DOMAIN s.req : Request(s.req[i])
    BY <1>4
  <2>. QED  BY <1>2, <1>3, <1>4, <2>1, <2>2, <2>3, <2>4 DEF Page
<1>6. StackInv(s) /\ ReqInv(s) /\ HeardInv(s) /\ \A i \in DOMAIN s.req : Begun(s, i)
  BY <1>4 DEF StackInv, AskInv, ReqInv, HeardInv
<1>7. CountInv(s)
  <2>1. Counted(s) = {}
    BY <1>4 DEF Counted
  <2>. QED  BY <1>3, <2>1, FS_EmptySet DEF CountInv
<1>. QED  BY <1>5, <1>6, <1>7 DEF RequestsInv, Inv, Mid

LEMMA OnTop ==
  ASSUME s.stack # <<>>
  PROVE  Stands(s, Top)
BY DEF Stands, Top

LEMMA DoneActions ==
  ASSUME RequestsInv, Settle \/ GlobalEvent \/ Complete \/ CompleteEvent \/ CountOut
  PROVE  RequestsInv'
<1>. DEFINE f == Top
<1>s. Page(s) /\ Inv(s)
  BY DEF RequestsInv
<1>1. CASE Settle
  <2>1. Stands(s, f) /\ f.at = "done" /\ f.pc = "settle"
    BY <1>1, OnTop DEF Settle, At
  <2>2. Outcome(s, f.i) \in Outcomes
    BY DEF Outcome, Outcomes
  <2>3. s' = (LET m == Goto(CleanUp(s, f.i), "global")
              IN IF s.req[f.i].installed THEN Tell(m, f.i, Outcome(s, f.i)) ELSE m)
    BY <1>1 DEF Settle
  <2>. HIDE DEF f
  <2>4. Page(s') /\ Inv(s')
    BY <1>s, <2>1, <2>2, <2>3, SettleKeeps
  <2>. QED  BY <2>4 DEF RequestsInv
<1>2. CASE GlobalEvent
  <2>1. Stands(s, f) /\ f.at = "done" /\ f.pc = "global"
    BY <1>2, OnTop DEF GlobalEvent, At
  <2>2. /\ "complete" \in Pcs /\ "ajaxSuccess" \in Roles
        /\ "global" \in Unheard /\ "complete" \in Unheard
    BY DEF Pcs, Unheard, Roles
  <2>3. s' = (LET m == Goto(s, "complete")
              IN IF s.req[f.i].fire THEN User(m, f.i, "ajaxSuccess") ELSE m)
    BY <1>2 DEF GlobalEvent
  <2>. HIDE DEF f
  <2>4. Page(s') /\ Inv(s')
    BY <1>s, <2>1, <2>2, <2>3, EventKeeps
  <2>. QED  BY <2>4 DEF RequestsInv
<1>3. CASE Complete
  <2>1. Stands(s, f) /\ f.at = "done" /\ f.pc = "complete"
    BY <1>3, OnTop DEF Complete, At
  <2>2. s' = (LET m == [Goto(s, "ajaxComplete") EXCEPT !.req[f.i].completeFired = TRUE]
              IN IF s.req[f.i].installed THEN Tell(m, f.i, "complete") ELSE m)
    BY <1>3 DEF Complete
  <2>. HIDE DEF f
  <2>3. Page(s') /\ Inv(s')
    BY <1>s, <2>1, <2>2, CompleteKeeps
  <2>. QED  BY <2>3 DEF RequestsInv
<1>4. CASE CompleteEvent
  <2>1. Stands(s, f) /\ f.at = "done" /\ f.pc = "ajaxComplete"
    BY <1>4, OnTop DEF CompleteEvent, At
  <2>2. /\ "count" \in Pcs /\ "ajaxComplete" \in Roles
        /\ "ajaxComplete" \notin Unheard /\ "count" \notin Unheard
    BY DEF Pcs, Unheard, Roles
  <2>3. s' = (LET m == Goto(s, "count")
              IN IF s.req[f.i].fire THEN User(m, f.i, "ajaxComplete") ELSE m)
    BY <1>4 DEF CompleteEvent
  <2>. HIDE DEF f
  <2>4. Page(s') /\ Inv(s')
    BY <1>s, <2>1, <2>2, <2>3, EventKeeps
  <2>. QED  BY <2>4 DEF RequestsInv
<1>5. CASE CountOut
  <2>1. Stands(s, f) /\ f.at = "done" /\ f.pc = "count"
    BY <1>5, OnTop DEF CountOut, At
  <2>2. s' = (LET v == [Pop(s) EXCEPT !.active = @ - 1]
              IN IF ~s.req[f.i].fire THEN Pop(s)
                 ELSE IF v.active = 0 THEN User([v EXCEPT !.busy = FALSE], f.i, "ajaxStop")
                 ELSE v)
    BY <1>5 DEF CountOut
  <2>. HIDE DEF f
  <2>3. Page(s') /\ Inv(s')
    BY <1>s, <2>1, <2>2, CountOutKeeps, Zenon
  <2>. QED  BY <2>3 DEF RequestsInv
<1>. QED  BY <1>1, <1>2, <1>3, <1>4, <1>5

LEMMA AjaxActions ==
  ASSUME RequestsInv,
         CountIn \/ BeforeSend \/ BeforeSendReturned \/ InstallCallbacks \/ InstallOthers
           \/ SendEvent
  PROVE  RequestsInv'
<1>. DEFINE f == Top
<1>s. Page(s) /\ Inv(s)
  BY DEF RequestsInv
<1>1. CASE CountIn
  <2>1. Stands(s, f) /\ f.at = "ajax" /\ f.pc = "prefiltered"
    BY <1>1, OnTop DEF CountIn, At
  <2>2. s' = (LET m == [Goto(s, "started") EXCEPT !.req[f.i].fire = TRUE, !.active = @ + 1]
              IN IF s.req[f.i].completed = "yes" THEN Pop(s)
                 ELSE IF ~s.req[f.i].o.global THEN Goto(s, "started")
                 ELSE IF s.active = 0 THEN User([m EXCEPT !.busy = TRUE], f.i, "ajaxStart")
                 ELSE m)
    BY <1>1 DEF CountIn
  <2>. HIDE DEF f
  <2>3. Page(s') /\ Inv(s')
    BY <1>s, <2>1, <2>2, CountInKeeps, Zenon
  <2>. QED  BY <2>3 DEF RequestsInv
<1>2. CASE BeforeSend
  <2>1. Stands(s, f) /\ f.at = "ajax" /\ f.pc = "started"
    BY <1>2, OnTop DEF BeforeSend, At
  <2>2. s' = (IF s.req[f.i].o.before THEN User(Goto(s, "allowed"), f.i, "beforeSend")
              ELSE Goto(s, "install"))
    BY <1>2 DEF BeforeSend
  <2>. HIDE DEF f
  <2>3. Page(s') /\ Inv(s')
    BY <1>s, <2>1, <2>2, BeforeSendKeeps
  <2>. QED  BY <2>3 DEF RequestsInv
<1>3. CASE BeforeSendReturned
  <2>1. Stands(s, f) /\ f.at = "ajax" /\ f.pc \in {"allowed", "vetoed"}
    BY <1>3, OnTop DEF BeforeSendReturned, At
  <2>2. s' = (IF f.pc = "vetoed" \/ s.req[f.i].completed = "yes"
              THEN AbortRequest(Pop(s), f.i) ELSE Goto(s, "install"))
    BY <1>3 DEF BeforeSendReturned
  <2>. HIDE DEF f
  <2>3. Page(s') /\ Inv(s')
    BY <1>s, <2>1, <2>2, BeforeSendReturnedKeeps
  <2>. QED  BY <2>3 DEF RequestsInv
<1>4. CASE InstallCallbacks
  <2>1. Stands(s, f) /\ f.at = "ajax" /\ f.pc = "install"
    BY <1>4, OnTop DEF InstallCallbacks, At
  <2>2. Outcome(s, f.i) \in Outcomes
    BY DEF Outcome, Outcomes
  <2>3. s' = (LET m == [Goto(s, "transport") EXCEPT !.req[f.i].installed = TRUE]
              IN IF s.req[f.i].completeFired
                 THEN Tell(Goto(s, "installing"), f.i, "complete")
                 ELSE IF s.req[f.i].completed = "yes" THEN Tell(m, f.i, Outcome(s, f.i)) ELSE m)
    BY <1>4 DEF InstallCallbacks
  <2>. HIDE DEF f
  <2>4. Page(s') /\ Inv(s')
    BY <1>s, <2>1, <2>2, <2>3, InstallKeeps
  <2>. QED  BY <2>4 DEF RequestsInv
<1>6. CASE InstallOthers
  <2>1. Stands(s, f) /\ f.at = "ajax" /\ f.pc = "installing"
    BY <1>6, OnTop DEF InstallOthers, At
  <2>2. Outcome(s, f.i) \in Outcomes
    BY DEF Outcome, Outcomes
  <2>3. s' = Tell([Goto(s, "transport") EXCEPT !.req[f.i].installed = TRUE], f.i, Outcome(s, f.i))
    BY <1>6 DEF InstallOthers
  <2>. HIDE DEF f
  <2>4. Page(s') /\ Inv(s')
    BY <1>s, <2>1, <2>2, <2>3, InstallOthersKeeps
  <2>. QED  BY <2>4 DEF RequestsInv
<1>5. CASE SendEvent
  <2>1. Stands(s, f) /\ f.at = "ajax" /\ f.pc = "transport"
    BY <1>5, OnTop DEF SendEvent, At
  <2>2. s' = (LET m == [Goto(s, "send") EXCEPT !.req[f.i].transport = TRUE]
              IN IF s.req[f.i].fire THEN User(m, f.i, "ajaxSend") ELSE m)
    BY <1>5 DEF SendEvent
  <2>. HIDE DEF f
  <2>3. Page(s') /\ Inv(s')
    BY <1>s, <2>1, <2>2, SendEventKeeps
  <2>. QED  BY <2>3 DEF RequestsInv
<1>. QED  BY <1>1, <1>2, <1>3, <1>4, <1>5, <1>6

LEMMA SendAction ==
  ASSUME RequestsInv, Send
  PROVE  RequestsInv'
<1>. DEFINE f == Top
            i == f.i
            o == s.req[i].o
            x == o.timeout /\ o.async
            y == ByScript(o)
            m == [Pop(s) EXCEPT !.req[i].completed = "no", !.req[i].timer = x]
            n == [m EXCEPT !.req[i].listening = TRUE, !.req[i].loading = y]
            h == [at |-> "native", i |-> i, role |-> "none", pc |-> "none"]
<1>s. Page(s) /\ Inv(s)
  BY DEF RequestsInv
<1>1. Stands(s, f) /\ f.at = "ajax" /\ f.pc = "send"
  BY OnTop DEF Send, At
<1>2. CASE s.req[i].completed = "yes"
  <2>1. s' = Pop(s)
    BY <1>2 DEF Send
  <2>. HIDE DEF f
  <2>2. Page(s') /\ Inv(s')
    BY <1>s, <1>1, <1>2, <2>1, PopDone, SMTT(30)
  <2>. QED  BY <2>2 DEF RequestsInv
<1>3. CASE s.req[i].completed # "yes"
  <2>1. \/ s' = n
        \/ \E a \in Answers : s' = Done(Push(m, h), i, a)
        \/ s' = Done(m, i, NoAnswer)
    BY <1>3 DEF Send
  <2>. HIDE DEF f, x, y
  <2>2. /\ Page(n) /\ Inv(n)
        /\ \A a : Page(Done(Push(m, h), i, a)) /\ Inv(Done(Push(m, h), i, a))
        /\ Page(Done(m, i, NoAnswer)) /\ Inv(Done(m, i, NoAnswer))
    BY <1>s, <1>1, <1>3, SendKeeps, Zenon
  <2>. HIDE DEF m, n, h
  <2>3. Page(s') /\ Inv(s')
    BY <2>1, <2>2
  <2>. QED  BY <2>3 DEF RequestsInv
<1>. QED  BY <1>2, <1>3

LEMMA CodeActions ==
  ASSUME RequestsInv, NativeEnd \/ Return \/ Throw
  PROVE  RequestsInv'
<1>. DEFINE f == Top
<1>s. Page(s) /\ Inv(s)
  BY DEF RequestsInv
<1>1. CASE NativeEnd
  <2>1. Stands(s, f) /\ f.at = "native" /\ s' = Pop(s)
    BY <1>1, OnTop DEF NativeEnd, At
  <2>. HIDE DEF f
  <2>2. Page(s') /\ Inv(s')
    BY <1>s, <2>1, EndKeeps
  <2>. QED  BY <2>2 DEF RequestsInv
<1>2. CASE Return
  <2>1. /\ Stands(s, f) /\ f.at = "user"
        /\ s' = Pop(s) \/ (f.role = "beforeSend" /\ s' = Goto(Pop(s), "vetoed"))
    BY <1>2, OnTop DEF Return, At
  <2>. HIDE DEF f
  <2>2. Page(s') /\ Inv(s')
    BY <1>s, <2>1, EndKeeps, VetoKeeps DEF Asks
  <2>. QED  BY <2>2 DEF RequestsInv
<1>3. CASE Throw
  <2>1. Stands(s, f) /\ f.at = "user"
    BY <1>3, OnTop DEF Throw, At
  <2>. HIDE DEF f
  <2>. DEFINE below == {k \in DOMAIN s.stack : s.stack[k].at = "native"}
              last == CHOOSE k \in below : \A j \in below : j <= k
              u == [s EXCEPT !.threw = TRUE,
                             !.stack = IF below = {} THEN <<>> ELSE SubSeq(@, 1, last)]
  <2>2. s' = u
    BY <1>3 DEF Throw
  <2>3. Page(u) /\ Inv(u)
    BY <1>s, <2>1, ThrowKeeps, Zenon
  <2>. HIDE DEF u
  <2>4. Page(s') /\ Inv(s')
    BY <2>2, <2>3
  <2>. QED  BY <2>4 DEF RequestsInv
<1>. QED  BY <1>1, <1>2, <1>3

LEMMA CallActions ==
  ASSUME RequestsInv, UserCall
  PROVE  RequestsInv'
<1>s. Page(s) /\ Inv(s)
  BY DEF RequestsInv
<1>1. Free(s)
  <2>1. Quiet \/ At("user")
    BY Zenon DEF UserCall, Start, Abort, Call
  <2>2. s.stack = <<>> \/ s.stack[Len(s.stack)].at = "user"
    BY <2>1 DEF Quiet, At, Top
  <2>. QED  BY <1>s, <2>2, FreeCall
<1>2. ASSUME NEW o \in Options, Start(o)  PROVE Page(s') /\ Inv(s')
  <2>. DEFINE i == Len(s.req) + 1
              m == Install([s EXCEPT !.req = Append(@, NewRequest(o))], i)
              u == User(Push(m, [at |-> "ajax", i |-> i, role |-> "none", pc |-> "prefiltered"]),
                        i, "prefilter")
  <2>1. s' = u /\ Len(s.req) < MaxRequests
    BY <1>2 DEF Start
  <2>2. Page(u) /\ Inv(u)
    BY <1>s, <1>1, <2>1, StartKeeps
  <2>. HIDE DEF u
  <2>. QED  BY <2>1, <2>2
<1>3. ASSUME NEW i \in Ids, Abort(i)  PROVE Page(s') /\ Inv(s')
  <2>1. s' = AbortRequest(s, i) /\ i \in DOMAIN s.req
    BY <1>3 DEF Abort, Ids
  <2>2. Page(AbortRequest(s, i)) /\ Inv(AbortRequest(s, i))
    BY <1>s, <1>1, <2>1, AbortKeeps DEF Inv
  <2>. QED  BY <2>1, <2>2
<1>. QED  BY <1>2, <1>3 DEF UserCall, RequestsInv

LEMMA NetworkActions ==
  ASSUME RequestsInv, Network \/ \E i \in Ids : Timeout(i)
  PROVE  RequestsInv'
<1>s. Page(s) /\ Inv(s)
  BY DEF RequestsInv
<1>1. ASSUME NEW i \in Ids, NEW a, XhrEvent(i, a)  PROVE Page(s') /\ Inv(s')
  <2>. DEFINE u == [s EXCEPT !.req[i].listening = FALSE]
  <2>1. s.stack = <<>> /\ i \in DOMAIN s.req /\ s' = Done(u, i, a)
    BY <1>1 DEF XhrEvent, Quiet, Ids
  <2>2. Page(Done(u, i, a)) /\ Inv(Done(u, i, a))
    BY <1>s, <2>1, CalmDone, Zenon
  <2>. HIDE DEF u
  <2>. QED  BY <2>1, <2>2
<1>2. ASSUME NEW i \in Ids, NEW calling, ScriptLoads(i, calling)  PROVE Page(s') /\ Inv(s')
  <2>. DEFINE a == [NoAnswer EXCEPT !.status = 200, !.calls = calling]
              u == [RunScript(s, i, a) EXCEPT !.req[i].loading = FALSE,
                                              !.req[i].listening = FALSE]
  <2>1. s.stack = <<>> /\ i \in DOMAIN s.req /\ (s' = Done(u, i, a) \/ s' = u)
    BY <1>2 DEF ScriptLoads, Quiet, Ids
  <2>. HIDE DEF a
  <2>2. Page(u) /\ Inv(u) /\ Page(Done(u, i, a)) /\ Inv(Done(u, i, a))
    BY <1>s, <2>1, ScriptLoadsKeeps, Zenon
  <2>. HIDE DEF u
  <2>. QED  BY <2>1, <2>2
<1>3. ASSUME NEW i \in Ids, ScriptFails(i)  PROVE Page(s') /\ Inv(s')
  <2>. DEFINE a == [NoAnswer EXCEPT !.status = 404]
              u == [s EXCEPT !.req[i].loading = FALSE, !.req[i].listening = FALSE]
  <2>1. s.stack = <<>> /\ i \in DOMAIN s.req /\ (s' = Done(u, i, a) \/ s' = u)
    BY <1>3 DEF ScriptFails, Quiet, Ids
  <2>. HIDE DEF a
  <2>2. Page(u) /\ Inv(u) /\ Page(Done(u, i, a)) /\ Inv(Done(u, i, a))
    BY <1>s, <2>1, CalmDone, Zenon
  <2>. HIDE DEF u
  <2>. QED  BY <2>1, <2>2
<1>4. ASSUME NEW i \in Ids, Timeout(i)  PROVE Page(s') /\ Inv(s')
  <2>. DEFINE u == AbortRequest([s EXCEPT !.req[i].timer = FALSE], i)
  <2>1. s.stack = <<>> /\ i \in DOMAIN s.req /\ s' = u
    BY <1>4 DEF Timeout, Quiet, Ids
  <2>2. Page(u) /\ Inv(u)
    BY <1>s, <2>1, TimeoutKeeps
  <2>. HIDE DEF u
  <2>. QED  BY <2>1, <2>2
<1>. QED  BY <1>1, <1>2, <1>3, <1>4 DEF Network, RequestsInv

LEMMA RequestsNext == RequestsInv /\ [Next]_vars => RequestsInv'
<1>. SUFFICES ASSUME RequestsInv, [Next]_vars  PROVE RequestsInv'
  OBVIOUS
<1>1. CASE UserCall
  BY <1>1, CallActions
<1>2. CASE Network \/ \E i \in Ids : Timeout(i)
  BY <1>2, NetworkActions
<1>3. CASE Running
  BY <1>3, AjaxActions, SendAction, DoneActions, CodeActions DEF Running
<1>4. CASE Return \/ Throw
  BY <1>4, CodeActions
<1>5. CASE UNCHANGED vars
  BY <1>5 DEF vars, RequestsInv
<1>. QED  BY <1>1, <1>2, <1>3, <1>4, <1>5 DEF Next

(* The inductive invariant holds: the frames on the stack of ajax() and done()
   and the flags of the requests agree, whatever user code calls or throws and
   whatever the network sends. *)
THEOREM RequestsInvariant == Spec => []RequestsInv
BY RequestsInit, RequestsNext, PTL DEF Spec

-----------------------------------------------------------------------------
(* Whenever no script runs, the requests on their way are those that are
   counted; and jQuery.active is their number. *)
THEOREM AlwaysBusyWhileActive == Spec => []BusyWhileActive
<1>1. RequestsInv => BusyWhileActive
  <2>. SUFFICES ASSUME RequestsInv  PROVE BusyWhileActive
    OBVIOUS
  <2>s. Page(s) /\ Inv(s) /\ Mid(s) /\ ReqInv(s) /\ CountInv(s)
    BY DEF RequestsInv, Inv, Mid
  <2>1. TypeOK
    BY <2>s DEF TypeOK, Page, Request, ReqInv, Timed, Ids
  <2>2. ASSUME Quiet, ~s.threw
        PROVE  LET global == {i \in Sent : s.req[i].fire}
               IN s.active = Cardinality(global) /\ (s.busy <=> global # {})
    <3>. DEFINE global == {i \in Sent : s.req[i].fire}
    <3>1. \A i : DoneOf(s, i) = {} /\ AjaxOf(s, i) = {}
      BY <2>2 DEF Quiet, DoneOf, AjaxOf
    <3>2. \A i \in DOMAIN s.req : s.req[i].completed # "null"
      BY <2>s, <2>2, <3>1 DEF Inv, Begun
    <3>3. \A i \in DOMAIN s.req : s.req[i].completed \in {"no", "yes"}
      BY <2>s, <3>2 DEF Page, Request
    <3>4. Counted(s) = global
      BY <3>1, <3>3 DEF Counted, Sent, Ids
    <3>. HIDE DEF global
    <3>5. s.active = Cardinality(global) /\ (s.busy <=> global # {})
      BY <2>s, <2>2, <3>4 DEF CountInv
    <3>. QED  BY <3>5 DEF global
  <2>. QED  BY <2>1, <2>2 DEF BusyWhileActive
<1>. QED  BY <1>1, RequestsInvariant, PTL

(* However many answers, timeouts and aborts compete for a request, its
   callbacks are told of one outcome and of completion once; and they have
   been told of both when no script runs, if nothing was thrown. *)
THEOREM AlwaysToldOnce == Spec => []ToldOnce
<1>1. RequestsInv => ToldOnce
  <2>. SUFFICES ASSUME RequestsInv, NEW i \in Ids
       PROVE  LET r == s.req[i]
                  told(W) == Times(r.told, W)
              IN /\ told({"success", "error"}) <= 1 /\ told({"complete"}) <= 1
                 /\ Quiet /\ ~s.threw /\ r.installed /\ r.completed = "yes" =>
                      told({"success", "error"}) = 1 /\ told({"complete"}) = 1
    BY DEF ToldOnce
  <2>s. /\ Page(s) /\ Inv(s) /\ Mid(s) /\ StackInv(s) /\ i \in DOMAIN s.req
        /\ Told(s.req[i], Settling(s, i)) /\ Heard(s, i) /\ Request(s.req[i])
    BY DEF RequestsInv, Inv, Mid, ReqInv, HeardInv, Ids, Page
  <2>. DEFINE q == s.req[i].told
              a == Times(q, Outcomes)
              b == Times(q, {"complete"})
  <2>1. Settling(s, i) => q = <<>>
    BY <2>s DEF Settling, DoneOf, StackInv, Fits, DoneFits
  <2>2. q = <<>> => a = 0 /\ b = 0
    BY TimesEmpty
  <2>c. q = <<"complete">> => a = 0 /\ b = 1
    <3>1. /\ "complete" \in Tidings /\ "complete" \notin Outcomes /\ <<>> \in Seq(Tidings)
          /\ Append(<<>>, "complete") = <<"complete">>
      BY DEF Tidings, Roles, Outcomes
    <3>2. /\ Times(Append(<<>>, "complete"), Outcomes) = Times(<<>>, Outcomes)
          /\ Times(Append(<<>>, "complete"), {"complete"}) = Times(<<>>, {"complete"}) + 1
      BY <3>1, TimesAppend, Zenon
    <3>. QED  BY <3>1, <3>2, TimesEmpty
  <2>. HIDE DEF a, b
  <2>3. a \in {0, 1} /\ b \in {0, 1}
    <3>1. CASE ~s.req[i].installed
      BY <2>s, <2>2, <2>c, <3>1 DEF Told
    <3>2. CASE s.req[i].installed
      BY <2>s, <2>1, <2>2, <3>2 DEF Told, Request, a, b
    <3>. QED  BY <3>1, <3>2
  <2>4. ASSUME Quiet, ~s.threw, s.req[i].installed, s.req[i].completed = "yes"
        PROVE  a = 1 /\ b = 1
    <3>1. ~Settling(s, i) /\ s.req[i].completeFired
      BY <2>s, <2>4 DEF Quiet, Settling, DoneOf, Heard
    <3>. QED  BY <2>s, <2>4, <3>1 DEF Told, a, b
  <2>5. /\ a <= 1 /\ b <= 1
        /\ Quiet /\ ~s.threw /\ s.req[i].installed /\ s.req[i].completed = "yes" => a = 1 /\ b = 1
    BY <2>3, <2>4
  <2>. QED  BY <2>5 DEF a, b, Outcomes
<1>. QED  BY <1>1, RequestsInvariant, PTL

-----------------------------------------------------------------------------
(* Whose a JSONP name is, and what is known of an answer.  A request is live
   until its clean-up; L are the live ones.  *)
Live(t, i) == Jsonp(t.req[i]) /\ (t.req[i].completed # "yes" \/ Settling(t, i))
Lives(t) == {i \in DOMAIN t.req : Live(t, i)}

NamesOK(t, L) ==
  /\ t.made \in Nat /\ t.made <= Len(t.req) /\ t.old \in Seq(1..t.made)
  /\ \A k, l \in DOMAIN t.old : t.old[k] = t.old[l] => k = l
  /\ \A n \in 1..t.made : t.window[n] = None <=> \E k \in DOMAIN t.old : t.old[k] = n
  /\ \A n \in 1..t.made : t.window[n] # None =>
       t.window[n] \in L /\ t.req[t.window[n]].name = n
  /\ \A i \in L : t.req[i].name \in 1..t.made /\ t.window[t.req[i].name] = i

Known(t, i) ==
  LET r == t.req[i]
  IN /\ r.o \in Options
     /\ r.loading => ByScript(r.o)
     /\ r.success /\ r.type # "none" /\ r.o.dataType # "*" =>
          r.type = (IF Jsonp(r) THEN "json" ELSE r.o.dataType)
     /\ r.evaluated /\ r.o.cross => r.o.dataType \in {"script", "jsonp"}
     /\ t.silent \/ (Jsonp(r) /\ r.success => r.data \in {i, None})

OwnInv(t) == NamesOK(t, Lives(t)) /\ \A i \in DOMAIN t.req : Known(t, i)

(* What the steps below may change at will. *)
Shape(t) ==
  /\ DOMAIN t = Parts /\ t.stack \in Seq(Frame)
  /\ DOMAIN t.req = 1..Len(t.req) /\ Len(t.req) \in Nat
  /\ \A i \in DOMAIN t.req : DOMAIN t.req[i] = Fields

KeptReq(q, r) ==
  /\ r.o = q.o /\ r.name = q.name /\ r.data = q.data /\ r.success = q.success
  /\ r.type = q.type /\ r.evaluated = q.evaluated
  /\ r.completed = "yes" <=> q.completed = "yes"
  /\ r.loading => q.loading \/ ByScript(q.o)

Moves(t, u) ==
  /\ Shape(u) /\ DOMAIN u.req = DOMAIN t.req /\ Len(u.req) = Len(t.req)
  /\ \A i \in DOMAIN t.req : KeptReq(t.req[i], u.req[i])
  /\ u.window = t.window /\ u.old = t.old /\ u.made = t.made /\ u.silent = t.silent
  /\ Free(t) => Free(u)

LEMMA MovesOn ==
  ASSUME NEW t, NEW u, NEW v, Moves(t, u), Moves(u, v)
  PROVE  Moves(t, v)
BY DEF Moves, KeptReq

LEMMA MovesNone ==
  ASSUME NEW t, Shape(t)
  PROVE  Moves(t, t)
BY DEF Moves, KeptReq

LEMMA FreeLives ==
  ASSUME NEW t, Free(t)
  PROVE  /\ \A i : ~Settling(t, i)
         /\ \A i : Live(t, i) <=> Jsonp(t.req[i]) /\ t.req[i].completed # "yes"
BY DEF Free, Settling, DoneOf, Live

LEMMA NamesSame ==
  ASSUME NEW t, NEW u, NEW L, NamesOK(t, L), Len(u.req) = Len(t.req),
         L \subseteq DOMAIN t.req,
         \A i \in DOMAIN t.req : u.req[i].name = t.req[i].name,
         u.window = t.window, u.old = t.old, u.made = t.made
  PROVE  NamesOK(u, L)
<1>1. /\ u.made \in Nat /\ u.made <= Len(u.req) /\ u.old \in Seq(1..u.made)
      /\ \A k, l \in DOMAIN u.old : u.old[k] = u.old[l] => k = l
  BY DEF NamesOK
<1>2. \A n \in 1..u.made : u.window[n] = None <=> \E k \in DOMAIN u.old : u.old[k] = n
  BY DEF NamesOK
<1>3. ASSUME NEW n \in 1..u.made, u.window[n] # None
      PROVE  u.window[n] \in L /\ u.req[u.window[n]].name = n
  <2>1. n \in 1..t.made /\ t.window[n] # None
    BY <1>3
  <2>2. t.window[n] \in L /\ t.req[t.window[n]].name = n
    BY <2>1 DEF NamesOK
  <2>. QED  BY <2>2
<1>4. ASSUME NEW i \in L
      PROVE  u.req[i].name \in 1..u.made /\ u.window[u.req[i].name] = i
  BY Zenon DEF NamesOK
<1>. QED  BY <1>1, <1>2, <1>3, <1>4 DEF NamesOK

LEMMA MovesKeeps ==
  ASSUME NEW t, NEW u, Moves(t, u), Free(t), OwnInv(t)
  PROVE  OwnInv(u) /\ Free(u) /\ Shape(u)
<1>1. Lives(u) = Lives(t)
  <2>1. \A i \in DOMAIN t.req : Live(u, i) <=> Live(t, i)
    BY FreeLives DEF Moves, KeptReq, Jsonp
  <2>. QED  BY <2>1 DEF Lives, Moves
<1>2. NamesOK(u, Lives(u))
  <2>1. NamesOK(t, Lives(t)) /\ Lives(t) \subseteq DOMAIN t.req
    BY DEF OwnInv, Lives
  <2>2. /\ Len(u.req) = Len(t.req) /\ u.window = t.window /\ u.old = t.old
        /\ u.made = t.made
        /\ \A i \in DOMAIN t.req : u.req[i].name = t.req[i].name
    BY DEF Moves, KeptReq
  <2>3. NamesOK(u, Lives(t))
    BY <2>1, <2>2, NamesSame
  <2>. QED  BY <1>1, <2>3
<1>3. \A i \in DOMAIN u.req : Known(u, i)
  BY DEF OwnInv, Moves, KeptReq, Known, Jsonp
<1>. QED  BY <1>2, <1>3 DEF OwnInv, Moves

-----------------------------------------------------------------------------
(* The operators that move. *)
LEMMA ReqMoves ==
  ASSUME NEW t, NEW u, NEW i \in DOMAIN t.req, Shape(t), DOMAIN u = Parts,
         DOMAIN u.req = DOMAIN t.req, Len(u.req) = Len(t.req),
         \A j \in DOMAIN t.req \ {i} : u.req[j] = t.req[j],
         DOMAIN u.req[i] = Fields, KeptReq(t.req[i], u.req[i]), u.stack = t.stack,
         u.window = t.window, u.old = t.old, u.made = t.made, u.silent = t.silent
  PROVE  Moves(t, u)
BY DEF Moves, Shape, KeptReq, Free

LEMMA Reshaped ==
  ASSUME NEW t, Shape(t), NEW u, DOMAIN u.req = DOMAIN t.req
  PROVE  Len(u.req) = Len(t.req)
<1>1. DOMAIN u.req = 1..Len(t.req) /\ Len(t.req) \in Nat
  BY DEF Shape
<1>. QED  BY <1>1

LEMMA FieldMoves ==
  ASSUME NEW t, Shape(t), NEW i \in DOMAIN t.req, NEW x,
         NEW field \in {"transport", "listening", "fire", "timer", "installed",
                        "completeFired", "told"}
  PROVE  Moves(t, [t EXCEPT !.req[i][field] = x])
<1>. DEFINE u == [t EXCEPT !.req[i][field] = x]
<1>e. u = [t EXCEPT !.req[i][field] = x]
  OBVIOUS
<1>. HIDE DEF u
<1>t. DOMAIN t = Parts /\ DOMAIN t.req[i] = Fields /\ field \in Fields
  BY DEF Shape, Fields
<1>1. /\ DOMAIN u = Parts /\ DOMAIN u.req = DOMAIN t.req
      /\ \A j \in DOMAIN t.req \ {i} : u.req[j] = t.req[j]
      /\ u.req[i] = [t.req[i] EXCEPT ![field] = x]
  BY <1>e, <1>t DEF Parts
<1>2. DOMAIN u.req[i] = Fields /\ KeptReq(t.req[i], u.req[i])
  <2>1. \A g \in Fields \ {field} : u.req[i][g] = t.req[i][g]
    BY <1>1, <1>t
  <2>2. /\ u.req[i].o = t.req[i].o /\ u.req[i].name = t.req[i].name
        /\ u.req[i].data = t.req[i].data /\ u.req[i].success = t.req[i].success
        /\ u.req[i].type = t.req[i].type /\ u.req[i].evaluated = t.req[i].evaluated
        /\ u.req[i].completed = t.req[i].completed /\ u.req[i].loading = t.req[i].loading
    BY <2>1 DEF Fields
  <2>. QED  BY <1>1, <1>t, <2>2 DEF KeptReq
<1>3. /\ u.stack = t.stack /\ u.window = t.window /\ u.old = t.old /\ u.made = t.made
      /\ u.silent = t.silent
  BY <1>e, <1>t DEF Parts
<1>4. Len(u.req) = Len(t.req)
  BY <1>1, Reshaped
<1>. QED  BY <1>1, <1>2, <1>3, <1>4, ReqMoves, Zenon DEF u

LEMMA PartMoves ==
  ASSUME NEW t, Shape(t), NEW part \in {"active", "busy", "threw"}, NEW x
  PROVE  Moves(t, [t EXCEPT ![part] = x])
<1>. DEFINE u == [t EXCEPT ![part] = x]
<1>e. u = [t EXCEPT ![part] = x]
  OBVIOUS
<1>. HIDE DEF u
<1>t. DOMAIN t = Parts
  BY DEF Shape
<1>1. DOMAIN u = Parts /\ \A p \in Parts \ {part} : u[p] = t[p]
  BY <1>e, <1>t
<1>2. /\ u.req = t.req /\ u.stack = t.stack /\ u.window = t.window /\ u.old = t.old
      /\ u.made = t.made /\ u.silent = t.silent
  BY <1>1 DEF Parts
<1>. QED  BY <1>1, <1>2 DEF Moves, Shape, KeptReq, Free, u

LEMMA StackMoves ==
  ASSUME NEW t, Shape(t), NEW q \in Seq(Frame), NEW u, u = [t EXCEPT !.stack = q],
         \A k \in DOMAIN q : q[k].pc = "settle" =>
           \E l \in DOMAIN t.stack : t.stack[l].pc = "settle"
  PROVE  Moves(t, u)
<1>t. DOMAIN t = Parts
  BY DEF Shape
<1>1. /\ DOMAIN u = Parts /\ u.req = t.req /\ u.stack = q /\ u.window = t.window
      /\ u.old = t.old /\ u.made = t.made /\ u.silent = t.silent
  BY <1>t DEF Parts
<1>. QED  BY <1>1, Zenon DEF Moves, Shape, KeptReq, Free

LEMMA PushMoves ==
  ASSUME NEW t, Shape(t), NEW f \in Frame, f.pc # "settle"
  PROVE  Moves(t, Push(t, f))
<1>1. t.stack \in Seq(Frame)
  BY DEF Shape
<1>2. Append(t.stack, f) \in Seq(Frame)
  BY <1>1
<1>3. ASSUME NEW k \in DOMAIN Append(t.stack, f), Append(t.stack, f)[k].pc = "settle"
      PROVE  \E l \in DOMAIN t.stack : t.stack[l].pc = "settle"
  BY <1>1, <1>3
<1>4. Push(t, f) = [t EXCEPT !.stack = Append(t.stack, f)]
  BY DEF Push
<1>. QED  BY <1>2, <1>3, <1>4, StackMoves, Zenon

LEMMA UserMoves ==
  ASSUME NEW t, Shape(t), NEW i \in DOMAIN t.req, NEW role \in Roles
  PROVE  Moves(t, User(t, i, role))
<1>. DEFINE f == [at |-> "user", i |-> i, role |-> role, pc |-> "none"]
<1>1. f \in Frame /\ f.pc # "settle"
  BY DEF Frame, Pcs, Shape
<1>2. User(t, i, role) = Push(t, f)
  BY DEF User
<1>. HIDE DEF f
<1>. QED  BY <1>1, <1>2, PushMoves

LEMMA PopMoves ==
  ASSUME NEW t, Shape(t), t.stack # <<>>
  PROVE  Moves(t, Pop(t))
<1>. DEFINE q == SubSeq(t.stack, 1, Len(t.stack) - 1)
<1>1. t.stack \in Seq(Frame)
  BY DEF Shape
<1>2. /\ q \in Seq(Frame) /\ DOMAIN q \subseteq DOMAIN t.stack
      /\ \A k \in DOMAIN q : q[k] = t.stack[k]
  BY <1>1
<1>3. Pop(t) = [t EXCEPT !.stack = q]
  BY DEF Pop
<1>. HIDE DEF q
<1>. QED  BY <1>2, <1>3, StackMoves

LEMMA GotoMoves ==
  ASSUME NEW t, Shape(t), t.stack # <<>>, NEW pc \in Pcs, pc # "settle"
  PROVE  Moves(t, Goto(t, pc))
<1>. DEFINE n == Len(t.stack)
            f == t.stack[n]
            g == [f EXCEPT !.pc = pc]
            q == [t.stack EXCEPT ![n] = g]
<1>1. t.stack \in Seq(Frame) /\ n \in Nat \ {0} /\ DOMAIN t.stack = 1..n /\ f \in Frame
  BY DEF Shape
<1>2. g \in Frame /\ g.pc = pc
  BY <1>1 DEF Frame
<1>3. Goto(t, pc) = [t EXCEPT !.stack = q]
  BY DEF Goto, Shape, Parts
<1>. HIDE DEF n, f, g
<1>4. /\ q \in Seq(Frame) /\ DOMAIN q = DOMAIN t.stack
      /\ \A k \in DOMAIN q : q[k] = g \/ q[k] = t.stack[k]
  BY <1>1, <1>2, ExceptSeq
<1>. HIDE DEF q
<1>. QED  BY <1>2, <1>3, <1>4, StackMoves

LEMMA PageShape ==
  ASSUME NEW t, Page(t)
  PROVE  Shape(t)
<1>1. DOMAIN t.req = 1..Len(t.req) /\ Len(t.req) \in Nat
  BY DEF Page
<1>. QED  BY <1>1 DEF Page, Request, Shape

LEMMA TellMoves ==
  ASSUME NEW t, Shape(t), NEW i \in DOMAIN t.req, NEW what \in Tidings
  PROVE  Moves(t, Tell(t, i, what))
<1>. DEFINE u == [t EXCEPT !.req[i].told = Append(@, what)]
<1>t. DOMAIN t = Parts /\ DOMAIN t.req[i] = Fields
  BY DEF Shape
<1>1. u = [t EXCEPT !.req[i]["told"] = Append(t.req[i].told, what)]
  BY <1>t, Zenon DEF Parts, Fields
<1>2. Moves(t, u)
  BY <1>1, FieldMoves, Zenon
<1>. HIDE DEF u
<1>3. Shape(u) /\ i \in DOMAIN u.req
  BY <1>2 DEF Moves
<1>4. Moves(u, User(u, i, what))
  BY <1>3, UserMoves DEF Roles
<1>5. Tell(t, i, what) = User(u, i, what)
  BY DEF Tell, u
<1>. QED  BY <1>2, <1>4, <1>5, MovesOn

LEMMA SilenceMoves ==
  ASSUME NEW t, Shape(t), NEW i \in DOMAIN t.req
  PROVE  Moves(t, Silence(t, i))
<1>1. Moves(t, [t EXCEPT !.req[i]["listening"] = FALSE])
  BY FieldMoves, Zenon
<1>. QED  BY <1>1, MovesNone, Zenon DEF Silence

(* The fields of one request that a step changes. *)
LEMMA OneMoves ==
  ASSUME NEW t, NEW u, NEW i \in DOMAIN t.req, NEW r, Shape(t),
         DOMAIN u = Parts, u.req = [t.req EXCEPT ![i] = r],
         DOMAIN r = Fields, KeptReq(t.req[i], r), u.stack = t.stack,
         u.window = t.window, u.old = t.old, u.made = t.made, u.silent = t.silent
  PROVE  Moves(t, u)
<1>1. /\ DOMAIN u.req = DOMAIN t.req /\ u.req[i] = r
      /\ \A j \in DOMAIN t.req \ {i} : u.req[j] = t.req[j]
  OBVIOUS
<1>2. Len(u.req) = Len(t.req)
  BY <1>1, Reshaped
<1>. QED  BY <1>1, <1>2, ReqMoves

LEMMA UnloadMoves ==
  ASSUME NEW t, Shape(t), NEW i \in DOMAIN t.req
  PROVE  Moves(t, [t EXCEPT !.req[i].loading = FALSE, !.req[i].listening = FALSE])
<1>. DEFINE r == [t.req[i] EXCEPT !.loading = FALSE, !.listening = FALSE]
            u == [t EXCEPT !.req[i].loading = FALSE, !.req[i].listening = FALSE]
<1>t. DOMAIN t = Parts /\ DOMAIN t.req[i] = Fields
  BY DEF Shape
<1>1. /\ DOMAIN r = Fields /\ r.loading = FALSE
      /\ r.o = t.req[i].o /\ r.name = t.req[i].name
      /\ r.data = t.req[i].data /\ r.success = t.req[i].success
      /\ r.type = t.req[i].type /\ r.evaluated = t.req[i].evaluated
      /\ r.completed = t.req[i].completed
  BY <1>t DEF Fields
<1>2. /\ DOMAIN u = Parts /\ u.req = [t.req EXCEPT ![i] = r]
      /\ u.stack = t.stack /\ u.window = t.window /\ u.old = t.old /\ u.made = t.made
      /\ u.silent = t.silent
  BY <1>t DEF Parts
<1>. HIDE DEF r, u
<1>3. KeptReq(t.req[i], r)
  BY <1>1 DEF KeptReq
<1>4. Moves(t, u)
  BY <1>1, <1>2, <1>3, OneMoves
<1>. QED  BY <1>4 DEF u

LEMMA AwayMoves ==
  ASSUME NEW t, Shape(t), NEW i \in DOMAIN t.req, NEW x, t.req[i].completed # "yes"
  PROVE  Moves(t, [t EXCEPT !.req[i].completed = "no", !.req[i].timer = x])
<1>. DEFINE r == [t.req[i] EXCEPT !.completed = "no", !.timer = x]
            u == [t EXCEPT !.req[i].completed = "no", !.req[i].timer = x]
<1>t. DOMAIN t = Parts /\ DOMAIN t.req[i] = Fields
  BY DEF Shape
<1>1. /\ DOMAIN r = Fields /\ r.loading = t.req[i].loading
      /\ r.o = t.req[i].o /\ r.name = t.req[i].name
      /\ r.data = t.req[i].data /\ r.success = t.req[i].success
      /\ r.type = t.req[i].type /\ r.evaluated = t.req[i].evaluated
      /\ r.completed = "no"
  BY <1>t DEF Fields
<1>2. /\ DOMAIN u = Parts /\ u.req = [t.req EXCEPT ![i] = r]
      /\ u.stack = t.stack /\ u.window = t.window /\ u.old = t.old /\ u.made = t.made
      /\ u.silent = t.silent
  BY <1>t DEF Parts
<1>. HIDE DEF r, u
<1>3. KeptReq(t.req[i], r)
  BY <1>1 DEF KeptReq
<1>4. Moves(t, u)
  BY <1>1, <1>2, <1>3, OneMoves
<1>. QED  BY <1>4 DEF u

LEMMA AwaitedMoves ==
  ASSUME NEW t, Shape(t), NEW i \in DOMAIN t.req, NEW o, o = t.req[i].o
  PROVE  Moves(t, [t EXCEPT !.req[i].listening = TRUE, !.req[i].loading = ByScript(o)])
<1>. DEFINE r == [t.req[i] EXCEPT !.listening = TRUE, !.loading = ByScript(o)]
            u == [t EXCEPT !.req[i].listening = TRUE, !.req[i].loading = ByScript(o)]
<1>t. DOMAIN t = Parts /\ DOMAIN t.req[i] = Fields
  BY DEF Shape
<1>1. /\ DOMAIN r = Fields /\ r.loading = ByScript(o)
      /\ r.o = t.req[i].o /\ r.name = t.req[i].name
      /\ r.data = t.req[i].data /\ r.success = t.req[i].success
      /\ r.type = t.req[i].type /\ r.evaluated = t.req[i].evaluated
      /\ r.completed = t.req[i].completed
  BY <1>t DEF Fields
<1>2. /\ DOMAIN u = Parts /\ u.req = [t.req EXCEPT ![i] = r]
      /\ u.stack = t.stack /\ u.window = t.window /\ u.old = t.old /\ u.made = t.made
      /\ u.silent = t.silent
  BY <1>t DEF Parts
<1>. HIDE DEF r, u
<1>3. KeptReq(t.req[i], r)
  BY <1>1 DEF KeptReq
<1>4. Moves(t, u)
  BY <1>1, <1>2, <1>3, OneMoves
<1>. QED  BY <1>4 DEF u

LEMMA CountedInMoves ==
  ASSUME NEW t, Shape(t), NEW i \in DOMAIN t.req, NEW x, NEW y
  PROVE  LET u == [t EXCEPT !.req[i].fire = TRUE, !.active = x]
         IN Moves(t, u) /\ Moves(t, [u EXCEPT !.busy = y])
<1>. DEFINE u == [t EXCEPT !.req[i].fire = TRUE, !.active = x]
            r == [t.req[i] EXCEPT !.fire = TRUE]
<1>t. DOMAIN t = Parts /\ DOMAIN t.req[i] = Fields
  BY DEF Shape
<1>1. /\ DOMAIN r = Fields /\ r.loading = t.req[i].loading
      /\ r.o = t.req[i].o /\ r.name = t.req[i].name
      /\ r.data = t.req[i].data /\ r.success = t.req[i].success
      /\ r.type = t.req[i].type /\ r.evaluated = t.req[i].evaluated
      /\ r.completed = t.req[i].completed
  BY <1>t DEF Fields
<1>2. /\ DOMAIN u = Parts /\ u.req = [t.req EXCEPT ![i] = r]
      /\ u.stack = t.stack /\ u.window = t.window /\ u.old = t.old /\ u.made = t.made
      /\ u.silent = t.silent
  BY <1>t DEF Parts
<1>. HIDE DEF r, u
<1>3. KeptReq(t.req[i], r)
  BY <1>1 DEF KeptReq
<1>4. Moves(t, u)
  BY <1>1, <1>2, <1>3, OneMoves
<1>5. Moves(u, [u EXCEPT !["busy"] = y])
  <2>1. Shape(u)
    BY <1>4 DEF Moves
  <2>. QED  BY <2>1, PartMoves
<1>6. Moves(t, [u EXCEPT !.busy = y])
  BY <1>4, <1>5, MovesOn
<1>. QED  BY <1>4, <1>6 DEF u

-----------------------------------------------------------------------------
(* Names that are given back and taken. *)
LEMMA CleanUpNames ==
  ASSUME NEW t, Shape(t), NEW i \in DOMAIN t.req, Jsonp(t.req[i]), NEW L, NamesOK(t, L),
         i \in L, L \subseteq DOMAIN t.req, Len(t.req) <= MaxRequests,
         DOMAIN t.window = 1..MaxRequests
  PROVE  NamesOK(CleanUp(t, i), L \ {i})
<1>. DEFINE u == CleanUp(t, i)
            n == t.req[i].name
            r == [t.req[i] EXCEPT !.container = None]
<1>t. /\ DOMAIN t = Parts /\ DOMAIN t.req[i] = Fields /\ DOMAIN t.req = 1..Len(t.req)
      /\ MaxRequests \in Nat /\ Len(t.req) \in Nat
  BY AjaxAssumption DEF Shape
<1>1. /\ u.made = t.made /\ u.old = Append(t.old, n)
      /\ u.window = [t.window EXCEPT ![n] = None] /\ u.req = [t.req EXCEPT ![i] = r]
  BY <1>t DEF CleanUp, Parts
<1>2. r.name = n
  BY <1>t DEF Fields
<1>. HIDE DEF r, u
<1>3. DOMAIN u.req = DOMAIN t.req /\ \A j \in DOMAIN t.req : u.req[j].name = t.req[j].name
  BY <1>1, <1>2
<1>4. Len(u.req) = Len(t.req)
  BY <1>3, Reshaped
<1>5. /\ t.made \in Nat /\ t.made <= Len(t.req) /\ t.old \in Seq(1..t.made)
      /\ n \in 1..t.made /\ t.window[n] = i /\ i # None
  BY <1>t DEF NamesOK, None
<1>6. /\ u.window[n] = None
      /\ \A m \in 1..t.made : m # n => u.window[m] = t.window[m]
  BY <1>1, <1>5, <1>t
<1>. DEFINE k0 == Len(t.old) + 1
<1>7. /\ u.old \in Seq(1..t.made) /\ DOMAIN u.old = 1..k0 /\ DOMAIN t.old = 1..(k0 - 1)
      /\ u.old[k0] = n /\ k0 \in Nat \ {0}
      /\ \A k \in DOMAIN t.old : u.old[k] = t.old[k]
  BY <1>1, <1>5
<1>8. \A k \in DOMAIN t.old : t.old[k] # n
  BY <1>5 DEF NamesOK
<1>. HIDE DEF k0, n
<1>9. \A k \in DOMAIN u.old : k = k0 \/ k \in DOMAIN t.old
  BY <1>7
<1>10. \A k, l \in DOMAIN u.old : u.old[k] = u.old[l] => k = l
  <2>1. \A k, l \in DOMAIN t.old : t.old[k] = t.old[l] => k = l
    BY DEF NamesOK
  <2>. QED  BY <1>7, <1>8, <1>9, <2>1
<1>11. ASSUME NEW m \in 1..u.made
       PROVE  u.window[m] = None <=> \E k \in DOMAIN u.old : u.old[k] = m
  <2>0. m \in 1..t.made
    BY <1>1
  <2>1. CASE m = n
    BY <1>6, <1>7, <2>1
  <2>2. CASE m # n
    <3>1. u.window[m] = t.window[m]
      BY <1>6, <2>0, <2>2
    <3>2. (\E k \in DOMAIN u.old : u.old[k] = m) <=> \E k \in DOMAIN t.old : t.old[k] = m
      BY <1>7, <1>9, <2>2
    <3>3. t.window[m] = None <=> \E k \in DOMAIN t.old : t.old[k] = m
      BY <2>0 DEF NamesOK
    <3>. QED  BY <3>1, <3>2, <3>3
  <2>. QED  BY <2>1, <2>2
<1>12. ASSUME NEW m \in 1..u.made, u.window[m] # None
       PROVE  u.window[m] \in L \ {i} /\ u.req[u.window[m]].name = m
  <2>1. m \in 1..t.made /\ m # n /\ u.window[m] = t.window[m]
    BY <1>1, <1>6, <1>12
  <2>2. t.window[m] \in L /\ t.req[t.window[m]].name = m
    BY <1>12, <2>1 DEF NamesOK
  <2>3. t.window[m] # i
    BY <2>1, <2>2 DEF n
  <2>. QED  BY <1>3, <2>1, <2>2, <2>3
<1>13. ASSUME NEW j \in L \ {i}
       PROVE  u.req[j].name \in 1..u.made /\ u.window[u.req[j].name] = j
  <2>1. t.req[j].name \in 1..t.made /\ t.window[t.req[j].name] = j
    BY DEF NamesOK
  <2>2. t.req[j].name # n
    BY <1>5, <2>1
  <2>. QED  BY <1>1, <1>3, <1>6, <2>1, <2>2
<1>. QED  BY <1>1, <1>4, <1>5, <1>7, <1>10, <1>11, <1>12, <1>13, Zenon DEF NamesOK, u

LEMMA AllButLast ==
  ASSUME NEW S, NEW q \in Seq(S), q # <<>>
  PROVE  LET p == SubSeq(q, 1, Len(q) - 1)
         IN /\ p \in Seq(S) /\ DOMAIN p = 1..(Len(q) - 1)
            /\ \A k \in DOMAIN p : p[k] = q[k]
<1>. DEFINE n == Len(q) - 1
<1>1. n \in Nat /\ n <= Len(q) /\ Len(q) \in Nat
  OBVIOUS
<1>. HIDE DEF n
<1>2. SubSeq(q, 1, n) \in Seq(S) /\ DOMAIN SubSeq(q, 1, n) = 1..n
  BY <1>1
<1>3. \A k \in 1..n : SubSeq(q, 1, n)[k] = q[k]
  BY <1>1
<1>. QED  BY <1>2, <1>3 DEF n

(* A name that was used before. *)
LEMMA OldName ==
  ASSUME NEW t, Shape(t), NEW i \in DOMAIN t.req, Jsonp(t.req[i]), NEW L, NamesOK(t, L),
         i \notin L, L \subseteq DOMAIN t.req, Len(t.req) <= MaxRequests,
         DOMAIN t.window = 1..MaxRequests, t.old # <<>>
  PROVE  NamesOK(Install(t, i), L \cup {i})
<1>. DEFINE u == Install(t, i)
            n == Last(t.old)
            r == [t.req[i] EXCEPT !.name = n]
            k0 == Len(t.old)
<1>t. /\ DOMAIN t = Parts /\ DOMAIN t.req[i] = Fields /\ DOMAIN t.req = 1..Len(t.req)
      /\ MaxRequests \in Nat /\ Len(t.req) \in Nat
  BY AjaxAssumption DEF Shape
<1>1. /\ u.made = t.made /\ u.old = SubSeq(t.old, 1, Len(t.old) - 1)
      /\ u.window = [t.window EXCEPT ![n] = i] /\ u.req = [t.req EXCEPT ![i] = r]
  BY <1>t DEF Install, Parts
<1>2. r.name = n
  BY <1>t DEF Fields
<1>. HIDE DEF r, u
<1>3. /\ DOMAIN u.req = DOMAIN t.req /\ u.req[i].name = n
      /\ \A j \in DOMAIN t.req \ {i} : u.req[j].name = t.req[j].name
  BY <1>1, <1>2
<1>4. Len(u.req) = Len(t.req)
  BY <1>3, Reshaped
<1>5. t.made \in Nat /\ t.made <= Len(t.req) /\ t.old \in Seq(1..t.made)
  BY DEF NamesOK
<1>6. /\ k0 \in Nat \ {0} /\ DOMAIN t.old = 1..k0 /\ t.old[k0] = n /\ n \in 1..t.made
  BY <1>5 DEF Last
<1>7. /\ u.old \in Seq(1..t.made) /\ DOMAIN u.old = 1..(k0 - 1)
      /\ \A k \in DOMAIN u.old : u.old[k] = t.old[k]
  <2>. DEFINE p == SubSeq(t.old, 1, Len(t.old) - 1)
  <2>1. /\ p \in Seq(1..t.made) /\ DOMAIN p = 1..(Len(t.old) - 1)
        /\ \A k \in DOMAIN p : p[k] = t.old[k]
    BY <1>5, AllButLast
  <2>. HIDE DEF p
  <2>2. u.old = p
    BY <1>1 DEF p
  <2>. QED  BY <1>5, <2>1, <2>2
<1>. HIDE DEF k0, n
<1>8. \A k \in DOMAIN t.old : k = k0 \/ k \in DOMAIN u.old
  BY <1>6, <1>7
<1>8a. DOMAIN u.old \subseteq DOMAIN t.old /\ k0 \notin DOMAIN u.old /\ k0 \in DOMAIN t.old
  BY <1>6, <1>7
<1>9. \A k \in DOMAIN u.old : u.old[k] # n
  BY <1>6, <1>7, <1>8a, ZenonT(30) DEF NamesOK
<1>10. \A k, l \in DOMAIN u.old : u.old[k] = u.old[l] => k = l
  BY <1>7, <1>8a DEF NamesOK
<1>11. /\ u.window[n] = i /\ i # None /\ t.window[n] = None
       /\ \A m \in 1..t.made : m # n => u.window[m] = t.window[m]
  <2>1. \E k \in DOMAIN t.old : t.old[k] = n
    BY <1>6
  <2>2. t.window[n] = None
    BY <1>6, <2>1 DEF NamesOK
  <2>. QED  BY <1>1, <1>5, <1>6, <1>t, <2>2 DEF None
<1>12. ASSUME NEW m \in 1..u.made
       PROVE  u.window[m] = None <=> \E k \in DOMAIN u.old : u.old[k] = m
  <2>0. m \in 1..t.made
    BY <1>1
  <2>1. CASE m = n
    BY <1>9, <1>11, <2>1
  <2>2. CASE m # n
    <3>1. u.window[m] = t.window[m]
      BY <1>11, <2>0, <2>2
    <3>2. (\E k \in DOMAIN u.old : u.old[k] = m) <=> \E k \in DOMAIN t.old : t.old[k] = m
      BY <1>6, <1>7, <1>8, <1>8a, <2>2, Zenon
    <3>3. t.window[m] = None <=> \E k \in DOMAIN t.old : t.old[k] = m
      BY <2>0 DEF NamesOK
    <3>. QED  BY <3>1, <3>2, <3>3
  <2>. QED  BY <2>1, <2>2
<1>13. ASSUME NEW m \in 1..u.made, u.window[m] # None
       PROVE  u.window[m] \in L \cup {i} /\ u.req[u.window[m]].name = m
  <2>1. CASE m = n
    BY <1>3, <1>11, <2>1
  <2>2. CASE m # n
    <3>1. m \in 1..t.made /\ u.window[m] = t.window[m]
      BY <1>1, <1>11, <2>2
    <3>2. t.window[m] \in L /\ t.req[t.window[m]].name = m
      BY <1>13, <3>1 DEF NamesOK
    <3>. QED  BY <1>3, <3>1, <3>2
  <2>. QED  BY <2>1, <2>2
<1>14. ASSUME NEW j \in L \cup {i}
       PROVE  u.req[j].name \in 1..u.made /\ u.window[u.req[j].name] = j
  <2>1. CASE j = i
    BY <1>1, <1>3, <1>6, <1>11, <2>1
  <2>2. CASE j # i
    <3>1. t.req[j].name \in 1..t.made /\ t.window[t.req[j].name] = j /\ j # None
      BY <1>t, <2>2 DEF NamesOK, None
    <3>2. t.req[j].name # n
      BY <1>11, <3>1
    <3>. QED  BY <1>1, <1>3, <1>11, <2>2, <3>1, <3>2
  <2>. QED  BY <2>1, <2>2
<1>. QED  BY <1>1, <1>4, <1>5, <1>7, <1>10, <1>12, <1>13, <1>14, Zenon DEF NamesOK, u

(* A new name: there are never more than requests. *)
LEMMA NewName ==
  ASSUME NEW t, Shape(t), NEW i \in DOMAIN t.req, Jsonp(t.req[i]), NEW L, NamesOK(t, L),
         i \notin L, L \subseteq DOMAIN t.req, Len(t.req) <= MaxRequests,
         DOMAIN t.window = 1..MaxRequests, t.old = <<>>, t.made < Len(t.req)
  PROVE  NamesOK(Install(t, i), L \cup {i})
<1>. DEFINE u == Install(t, i)
            n == t.made + 1
            r == [t.req[i] EXCEPT !.name = n]
<1>t. /\ DOMAIN t = Parts /\ DOMAIN t.req[i] = Fields /\ DOMAIN t.req = 1..Len(t.req)
      /\ MaxRequests \in Nat /\ Len(t.req) \in Nat
  BY AjaxAssumption DEF Shape
<1>1. /\ u.made = n /\ u.old = <<>>
      /\ u.window = [t.window EXCEPT ![n] = i] /\ u.req = [t.req EXCEPT ![i] = r]
  BY <1>t DEF Install, Parts
<1>2. r.name = n
  BY <1>t DEF Fields
<1>. HIDE DEF r, u
<1>3. /\ DOMAIN u.req = DOMAIN t.req /\ u.req[i].name = n
      /\ \A j \in DOMAIN t.req \ {i} : u.req[j].name = t.req[j].name
  BY <1>1, <1>2
<1>4. Len(u.req) = Len(t.req)
  BY <1>3, Reshaped
<1>5. t.made \in Nat /\ n \in Nat /\ n <= Len(t.req) /\ n \in 1..MaxRequests /\ n \in 1..n
  BY <1>t DEF NamesOK
<1>6. \A m \in 1..n : m = n \/ m \in 1..t.made
  BY <1>5
<1>7. /\ u.window[n] = i /\ i # None
      /\ \A m \in 1..t.made : u.window[m] = t.window[m]
  BY <1>1, <1>5, <1>t DEF None
<1>7a. \A m \in 1..t.made : m \in 1..n /\ m # n
  BY <1>5
<1>. HIDE DEF n
<1>8. u.old \in Seq(1..u.made) /\ DOMAIN u.old = {} /\ DOMAIN t.old = {}
  BY <1>1
<1>9. ASSUME NEW m \in 1..u.made
      PROVE  u.window[m] # None
  <2>1. CASE m = n
    BY <1>7, <2>1
  <2>2. CASE m \in 1..t.made
    <3>1. t.window[m] # None
      BY <1>8, <2>2 DEF NamesOK
    <3>. QED  BY <1>7, <2>2, <3>1
  <2>. QED  BY <1>1, <1>6, <2>1, <2>2
<1>10. ASSUME NEW m \in 1..u.made
       PROVE  u.window[m] \in L \cup {i} /\ u.req[u.window[m]].name = m
  <2>1. CASE m = n
    BY <1>3, <1>7, <2>1
  <2>2. CASE m \in 1..t.made
    <3>1. t.window[m] # None /\ u.window[m] = t.window[m]
      BY <1>7, <1>8, <2>2 DEF NamesOK
    <3>2. t.window[m] \in L /\ t.req[t.window[m]].name = m
      BY <2>2, <3>1 DEF NamesOK
    <3>. QED  BY <1>3, <3>1, <3>2
  <2>. QED  BY <1>1, <1>6, <2>1, <2>2
<1>11. ASSUME NEW j \in L \cup {i}
       PROVE  u.req[j].name \in 1..u.made /\ u.window[u.req[j].name] = j
  <2>1. CASE j = i
    BY <1>1, <1>3, <1>5, <1>7, <2>1
  <2>2. CASE j # i
    <3>1. t.req[j].name \in 1..t.made /\ t.window[t.req[j].name] = j
      BY <2>2 DEF NamesOK
    <3>. QED  BY <1>1, <1>3, <1>7, <1>7a, <2>2, <3>1
  <2>. QED  BY <2>1, <2>2
<1>. QED  BY <1>1, <1>4, <1>5, <1>8, <1>9, <1>10, <1>11 DEF NamesOK, u

-----------------------------------------------------------------------------
(* A script runs.  Whoever's function it calls, the request that is live has
   its name. *)
Ran(t, u, i) ==
  /\ Shape(u) /\ DOMAIN u.req = DOMAIN t.req /\ Len(u.req) = Len(t.req)
  /\ u.stack = t.stack /\ u.window = t.window /\ u.old = t.old /\ u.made = t.made
  /\ t.silent => u.silent
  /\ \A j \in DOMAIN t.req : \A field \in Fields \ {"container", "evaluated"} :
       u.req[j][field] = t.req[j][field]
  /\ \A j \in DOMAIN t.req \ {i} : u.req[j].evaluated = t.req[j].evaluated

Same(q, r) ==
  /\ r.o = q.o /\ r.name = q.name /\ r.data = q.data /\ r.success = q.success
  /\ r.type = q.type /\ r.completed = q.completed /\ r.loading = q.loading
  /\ r.listening = q.listening

LEMMA RanSame ==
  ASSUME NEW t, NEW u, NEW i, Ran(t, u, i)
  PROVE  \A j \in DOMAIN t.req : Same(t.req[j], u.req[j])
BY DEF Ran, Fields, Same

LEMMA RunScriptRan ==
  ASSUME NEW t, Shape(t), NEW i \in DOMAIN t.req, NEW a
  PROVE  LET u == RunScript(t, i, a)
         IN /\ Ran(t, u, i)
            /\ Jsonp(t.req[i]) /\ t.window[t.req[i].name] = i /\ i # None =>
                 u.silent \/ u.req[i].container = i
<1>. DEFINE n == t.req[i].name
            m == t.window[n]
            v == [t EXCEPT !.req[i].evaluated = TRUE]
            w == [v EXCEPT !.req[m].container = i]
            x == [v EXCEPT !.silent = TRUE]
            u == RunScript(t, i, a)
<1>t. DOMAIN t = Parts /\ \A j \in DOMAIN t.req : DOMAIN t.req[j] = Fields
  BY DEF Shape
<1>1. /\ DOMAIN v = Parts /\ v.stack = t.stack /\ v.window = t.window /\ v.old = t.old
      /\ v.made = t.made /\ v.silent = t.silent /\ DOMAIN v.req = DOMAIN t.req
      /\ \A j \in DOMAIN t.req \ {i} : v.req[j] = t.req[j]
      /\ v.req[i] = [t.req[i] EXCEPT !.evaluated = TRUE]
  BY <1>t DEF Parts
<1>. HIDE DEF v
<1>2. \A j \in DOMAIN t.req :
        /\ DOMAIN v.req[j] = Fields
        /\ \A field \in Fields \ {"evaluated"} : v.req[j][field] = t.req[j][field]
  BY <1>1, <1>t
<1>3. Len(v.req) = Len(t.req)
  BY <1>1, Reshaped
<1>4. Ran(t, v, i)
  BY <1>1, <1>2, <1>3 DEF Ran, Shape
<1>5. Ran(t, x, i) /\ x.silent
  <2>1. /\ DOMAIN x = Parts /\ x.stack = v.stack /\ x.window = v.window /\ x.old = v.old
        /\ x.made = v.made /\ x.silent /\ x.req = v.req
    BY <1>1 DEF Parts
  <2>. HIDE DEF x
  <2>. QED  BY <1>4, <2>1 DEF Ran, Shape
<1>6. Ran(t, w, i) /\ (m = i => w.req[i].container = i)
  <2>1. /\ DOMAIN w = Parts /\ w.stack = v.stack /\ w.window = v.window /\ w.old = v.old
        /\ w.made = v.made /\ w.silent = v.silent /\ DOMAIN w.req = DOMAIN v.req
        /\ \A j \in DOMAIN v.req \ {m} : w.req[j] = v.req[j]
        /\ m \in DOMAIN v.req => w.req[m] = [v.req[m] EXCEPT !.container = i]
    BY <1>1 DEF Parts
  <2>. HIDE DEF w
  <2>2. \A j \in DOMAIN t.req :
          /\ DOMAIN w.req[j] = Fields
          /\ \A field \in Fields \ {"container"} : w.req[j][field] = v.req[j][field]
    <3>1. ASSUME NEW j \in DOMAIN t.req
          PROVE  w.req[j] = v.req[j] \/ w.req[j] = [v.req[j] EXCEPT !.container = i]
      BY <1>1, <2>1, Zenon
    <3>2. \A j \in DOMAIN t.req : DOMAIN v.req[j] = Fields
      BY <1>2
    <3>. QED  BY <3>1, <3>2, Zenon
  <2>3. Len(w.req) = Len(t.req)
    BY <1>1, <2>1, Reshaped, ZenonT(30)
  <2>4. \A j \in DOMAIN t.req \ {i} : w.req[j].evaluated = t.req[j].evaluated
    BY <1>1, <2>2 DEF Fields
  <2>5. Ran(t, w, i)
    BY <1>1, <1>2, <1>4, <2>1, <2>2, <2>3, <2>4 DEF Ran, Shape
  <2>6. m = i => w.req[i].container = i
    BY <1>1, <1>2, <2>1 DEF Fields
  <2>. QED  BY <2>5, <2>6, SMTT(30)
<1>. HIDE DEF w, x
<1>7. u = v \/ u = w \/ u = x
  BY DEF RunScript, v, w, x
<1>8. Jsonp(t.req[i]) /\ m = i /\ i # None => u = x \/ u = w
  BY DEF RunScript, v, w, x
<1>. HIDE DEF u, m
<1>. QED  BY <1>4, <1>5, <1>6, <1>7, <1>8 DEF u, m

(* The request whose script runs has asked for one. *)
LEMMA RanKeeps ==
  ASSUME NEW t, NEW u, NEW i \in DOMAIN t.req, Ran(t, u, i), Free(t), OwnInv(t),
         t.req[i].o.cross => t.req[i].o.dataType \in {"script", "jsonp"}
  PROVE  OwnInv(u) /\ Free(u)
<1>1. \A j \in DOMAIN t.req : Same(t.req[j], u.req[j])
  BY RanSame
<1>2. Free(u)
  BY DEF Ran, Free
<1>3. Lives(u) = Lives(t)
  <2>1. \A j \in DOMAIN t.req : Live(u, j) <=> Live(t, j)
    BY <1>1, <1>2, FreeLives DEF Same, Jsonp
  <2>. QED  BY <2>1 DEF Lives, Ran
<1>4. NamesOK(u, Lives(t))
  <2>1. NamesOK(t, Lives(t)) /\ Lives(t) \subseteq DOMAIN t.req
    BY DEF OwnInv, Lives
  <2>2. \A j \in DOMAIN t.req : u.req[j].name = t.req[j].name
    BY <1>1 DEF Same
  <2>. QED  BY <2>1, <2>2, NamesSame DEF Ran
<1>5. ASSUME NEW j \in DOMAIN u.req
      PROVE  Known(u, j)
  <2>0. j \in DOMAIN t.req
    BY DEF Ran
  <2>1. Known(t, j) /\ Same(t.req[j], u.req[j]) /\ (t.silent => u.silent)
    BY <1>1, <2>0 DEF OwnInv, Ran
  <2>2. CASE j = i
    BY <2>1, <2>2 DEF Known, Same, Jsonp
  <2>3. CASE j # i
    <3>1. u.req[j].evaluated = t.req[j].evaluated
      BY <2>0, <2>3 DEF Ran
    <3>. QED  BY <2>1, <3>1 DEF Known, Same, Jsonp
  <2>. QED  BY <2>2, <2>3
<1>. QED  BY <1>2, <1>3, <1>4, <1>5 DEF OwnInv

-----------------------------------------------------------------------------
(* Short sequences. *)
LEMMA OneLong ==
  ASSUME NEW x
  PROVE  /\ Tail(<<x>>) = <<>> /\ Head(<<x>>) = x /\ <<x>> \o <<>> = <<x>>
         /\ Steps(<<x>>) = {} /\ Last(<<x>>) = x /\ Len(<<x>>) = 1
<1>1. <<>> \in Seq({x}) /\ <<x>> \in Seq({x})
  OBVIOUS
<1>2. Tail(<<x>>) = <<>> /\ Head(<<x>>) = x /\ <<x>> \o <<>> = <<x>> /\ Len(<<x>>) = 1
  BY <1>1
<1>. QED  BY <1>2 DEF Steps, Last

LEMMA TwoLong ==
  ASSUME NEW x, NEW y
  PROVE  /\ Tail(<<x, y>>) = <<y>> /\ Head(<<x, y>>) = x
         /\ <<x>> \o <<y>> = <<x, y>> /\ Append(<<x>>, y) = <<x, y>>
         /\ Steps(<<x, y>>) = {<<x, y>>} /\ Last(<<x, y>>) = y /\ Len(<<x, y>>) = 2
<1>. DEFINE S == {x, y}
<1>0. <<y>> \in Seq(S) /\ <<x>> \in Seq(S) /\ <<x, y>> \in Seq(S) /\ y \in S
  OBVIOUS
<1>. HIDE DEF S
<1>1. Len(<<x, y>>) = 2 /\ <<x, y>>[1] = x /\ <<x, y>>[2] = y /\ Tail(<<x, y>>) = <<y>>
      /\ Head(<<x, y>>) = x
  BY <1>0
<1>2. \A i \in 1..2 : i = 1 \/ i = 2
  OBVIOUS
<1>3. <<x>> \o <<y>> = <<x, y>>
  <2>1. /\ <<x>> \o <<y>> \in Seq(S) /\ Len(<<x>> \o <<y>>) = 2
        /\ (<<x>> \o <<y>>)[1] = x /\ (<<x>> \o <<y>>)[2] = y
    BY <1>0
  <2>. QED  BY <1>0, <1>1, <1>2, <2>1, SeqEqual, Zenon
<1>4. Append(<<x>>, y) = <<x, y>>
  <2>1. /\ Append(<<x>>, y) \in Seq(S) /\ Len(Append(<<x>>, y)) = 2
        /\ Append(<<x>>, y)[1] = x /\ Append(<<x>>, y)[2] = y
    BY <1>0
  <2>. QED  BY <1>0, <1>1, <1>2, <2>1, SeqEqual, Zenon
<1>5. Steps(<<x, y>>) = {<<x, y>>}
  <2>1. \A i : i \in 1..(Len(<<x, y>>) - 1) <=> i = 1
    OBVIOUS
  <2>. QED  BY <2>1 DEF Steps
<1>. QED  BY <1>1, <1>3, <1>4, <1>5 DEF Last

LEMMA ThreeTail ==
  ASSUME NEW x, NEW y, NEW z
  PROVE  Tail(<<x, y, z>>) = <<y, z>>
<1>. DEFINE S == {x, y, z}
<1>0. <<y, z>> \in Seq(S) /\ <<x, y, z>> \in Seq(S)
  OBVIOUS
<1>. HIDE DEF S
<1>1. /\ Tail(<<x, y, z>>) \in Seq(S) /\ Len(Tail(<<x, y, z>>)) = 2
      /\ Tail(<<x, y, z>>)[1] = y /\ Tail(<<x, y, z>>)[2] = z
  BY <1>0
<1>2. Len(<<y, z>>) = 2 /\ <<y, z>>[1] = y /\ <<y, z>>[2] = z
  OBVIOUS
<1>3. \A i \in 1..2 : i = 1 \/ i = 2
  OBVIOUS
<1>. QED  BY <1>0, <1>1, <1>2, <1>3, SeqEqual

LEMMA ThreeJoined ==
  ASSUME NEW x, NEW y, NEW z
  PROVE  <<x>> \o <<y, z>> = <<x, y, z>>
<1>. DEFINE S == {x, y, z}
<1>0. <<y, z>> \in Seq(S) /\ <<x>> \in Seq(S) /\ <<x, y, z>> \in Seq(S)
  OBVIOUS
<1>. HIDE DEF S
<1>1. /\ <<x>> \o <<y, z>> \in Seq(S) /\ Len(<<x>> \o <<y, z>>) = 3
      /\ (<<x>> \o <<y, z>>)[1] = x /\ (<<x>> \o <<y, z>>)[2] = y
      /\ (<<x>> \o <<y, z>>)[3] = z
  BY <1>0
<1>2. Len(<<x, y, z>>) = 3 /\ <<x, y, z>>[1] = x /\ <<x, y, z>>[2] = y /\ <<x, y, z>>[3] = z
  OBVIOUS
<1>3. \A i \in 1..3 : i = 1 \/ i = 2 \/ i = 3
  OBVIOUS
<1>. QED  BY <1>0, <1>1, <1>2, <1>3, SeqEqual, Zenon

LEMMA ThreeAppended ==
  ASSUME NEW x, NEW y, NEW z
  PROVE  Append(<<x, y>>, z) = <<x, y, z>>
<1>. DEFINE S == {x, y, z}
<1>0. <<x, y>> \in Seq(S) /\ z \in S /\ <<x, y, z>> \in Seq(S)
  OBVIOUS
<1>. HIDE DEF S
<1>1. /\ Append(<<x, y>>, z) \in Seq(S) /\ Len(Append(<<x, y>>, z)) = 3
      /\ Append(<<x, y>>, z)[1] = x /\ Append(<<x, y>>, z)[2] = y
      /\ Append(<<x, y>>, z)[3] = z
  BY <1>0
<1>2. Len(<<x, y, z>>) = 3 /\ <<x, y, z>>[1] = x /\ <<x, y, z>>[2] = y /\ <<x, y, z>>[3] = z
  OBVIOUS
<1>3. \A i \in 1..3 : i = 1 \/ i = 2 \/ i = 3
  OBVIOUS
<1>. QED  BY <1>0, <1>1, <1>2, <1>3, SeqEqual, Zenon

LEMMA ThreeSteps ==
  ASSUME NEW x, NEW y, NEW z
  PROVE  Steps(<<x, y, z>>) = {<<x, y>>, <<y, z>>}
<1>1. \A i : i \in 1..(Len(<<x, y, z>>) - 1) <=> i = 1 \/ i = 2
  OBVIOUS
<1>. QED  BY <1>1 DEF Steps

LEMMA FourAppended ==
  ASSUME NEW w, NEW x, NEW y, NEW z
  PROVE  Append(<<w, x, y>>, z) = <<w, x, y, z>>
<1>. DEFINE S == {w, x, y, z}
<1>0. <<w, x, y>> \in Seq(S) /\ z \in S /\ <<w, x, y, z>> \in Seq(S)
  OBVIOUS
<1>. HIDE DEF S
<1>1. /\ Append(<<w, x, y>>, z) \in Seq(S) /\ Len(Append(<<w, x, y>>, z)) = 4
      /\ Append(<<w, x, y>>, z)[1] = w /\ Append(<<w, x, y>>, z)[2] = x
      /\ Append(<<w, x, y>>, z)[3] = y /\ Append(<<w, x, y>>, z)[4] = z
  BY <1>0
<1>2. /\ Len(<<w, x, y, z>>) = 4 /\ <<w, x, y, z>>[1] = w /\ <<w, x, y, z>>[2] = x
      /\ <<w, x, y, z>>[3] = y /\ <<w, x, y, z>>[4] = z
  OBVIOUS
<1>3. \A i \in 1..4 : i = 1 \/ i = 2 \/ i = 3 \/ i = 4
  OBVIOUS
<1>. QED  BY <1>0, <1>1, <1>2, <1>3, SeqEqual, Zenon

LEMMA FourSteps ==
  ASSUME NEW w, NEW x, NEW y, NEW z
  PROVE  Steps(<<w, x, y, z>>) = {<<w, x>>, <<x, y>>, <<y, z>>}
<1>1. \A i : i \in 1..(Len(<<w, x, y, z>>) - 1) <=> i = 1 \/ i = 2 \/ i = 3
  OBVIOUS
<1>. QED  BY <1>1 DEF Steps

-----------------------------------------------------------------------------
(* What comes out of the converters.  The types asked for are one or two and
   the one that has come goes before them, so the recursion is two deep. *)
Bodies == {"text", "binary", "none"}

IsChains(g, conv, first, types, n) ==
  g = [k \in 0..n |-> IF k = 0 THEN <<first>> ELSE Extended(conv, g[k - 1], types[k])]

LEMMA ChainsAre ==
  ASSUME NEW conv, NEW first, NEW types, Len(types) \in 0..2
  PROVE  IsChains(Chains(conv, first, types), conv, first, types, Len(types))
<1>. DEFINE n == Len(types)
            c == Extended(conv, <<first>>, types[1])
            h == [k \in 0..n |-> IF k = 0 THEN <<first>> ELSE IF k = 1 THEN c
                                 ELSE Extended(conv, c, types[2])]
<1>1. Chains(conv, first, types) = CHOOSE g : IsChains(g, conv, first, types, n)
  BY DEF Chains, IsChains
<1>. HIDE DEF n
<1>2. n \in 0..2
  BY DEF n
<1>3. \A k \in 0..n : h[k] = IF k = 0 THEN <<first>> ELSE Extended(conv, h[k - 1], types[k])
  <2>. SUFFICES ASSUME NEW k \in 0..n
       PROVE  h[k] = IF k = 0 THEN <<first>> ELSE Extended(conv, h[k - 1], types[k])
    OBVIOUS
  <2>1. CASE k = 0
    BY <2>1
  <2>2. CASE k = 1
    <3>1. h[k] = c /\ h[0] = <<first>>
      BY <1>2, <2>2
    <3>. QED  BY <2>2, <3>1
  <2>3. CASE k = 2
    <3>1. h[k] = Extended(conv, c, types[2]) /\ h[1] = c
      BY <1>2, <2>3
    <3>. QED  BY <2>3, <3>1
  <2>. QED  BY <1>2, <2>1, <2>2, <2>3
<1>4. h = [k \in 0..n |-> h[k]]
  OBVIOUS
<1>. HIDE DEF h
<1>5. IsChains(h, conv, first, types, n)
  BY <1>3, <1>4, Zenon DEF IsChains
<1>. QED  BY <1>1, <1>5 DEF n

LEMMA ConvertNone ==
  ASSUME NEW conv, NEW x
  PROVE  Convert(conv, x, <<>>) = <<x>>
<1>1. Len(<<>>) = 0
  OBVIOUS
<1>2. IsChains(Chains(conv, x, <<>>), conv, x, <<>>, 0)
  BY <1>1, ChainsAre
<1>3. Chains(conv, x, <<>>)[0] = <<x>>
  BY <1>2 DEF IsChains
<1>. QED  BY <1>1, <1>3 DEF Convert

LEMMA ConvertOne ==
  ASSUME NEW conv, NEW x, NEW y
  PROVE  Convert(conv, x, <<y>>) = Extended(conv, <<x>>, y)
<1>. DEFINE types == <<y>>
<1>1. Len(types) = 1 /\ types[1] = y
  OBVIOUS
<1>. HIDE DEF types
<1>2. IsChains(Chains(conv, x, types), conv, x, types, 1)
  <2>1. Len(types) \in 0..2
    BY <1>1
  <2>2. IsChains(Chains(conv, x, types), conv, x, types, Len(types))
    BY <2>1, ChainsAre, Zenon
  <2>. QED  BY <1>1, <2>2
<1>3. Chains(conv, x, types)[0] = <<x>>
  BY <1>2 DEF IsChains
<1>4. Chains(conv, x, types)[1] = Extended(conv, Chains(conv, x, types)[0], types[1])
  BY <1>2 DEF IsChains
<1>. QED  BY <1>1, <1>3, <1>4, Zenon DEF Convert, types

LEMMA ConvertTwo ==
  ASSUME NEW conv, NEW x, NEW y, NEW z
  PROVE  Convert(conv, x, <<y, z>>) = Extended(conv, Extended(conv, <<x>>, y), z)
<1>. DEFINE types == <<y, z>>
<1>1. Len(types) = 2 /\ types[1] = y /\ types[2] = z
  OBVIOUS
<1>. HIDE DEF types
<1>2. IsChains(Chains(conv, x, types), conv, x, types, 2)
  <2>1. Len(types) \in 0..2
    BY <1>1
  <2>2. IsChains(Chains(conv, x, types), conv, x, types, Len(types))
    BY <2>1, ChainsAre, Zenon
  <2>. QED  BY <1>1, <2>2
<1>3. Chains(conv, x, types)[0] = <<x>>
  BY <1>2 DEF IsChains
<1>4. Chains(conv, x, types)[1] = Extended(conv, Chains(conv, x, types)[0], types[1])
  BY <1>2 DEF IsChains
<1>5. Chains(conv, x, types)[2] = Extended(conv, Chains(conv, x, types)[1], types[2])
  BY <1>2 DEF IsChains
<1>. QED  BY <1>1, <1>3, <1>4, <1>5 DEF Convert, types

LEMMA ExtendedDirect ==
  ASSUME NEW conv, NEW chain, NEW y, Last(chain) \notin {"none", "*", y}, y # "*",
         <<Last(chain), y>> \in conv
  PROVE  Extended(conv, chain, y) = Append(chain, y)
<1>. DEFINE prev == Last(chain)
            From(u, v) == {<<u, v>>, <<"*", v>>} \cap conv # {}
            pairs == {c \in conv : c[2] = y /\ From(prev, c[1])}
<1>1. From(prev, y)
  OBVIOUS
<1>. HIDE DEF pairs, From, prev
<1>2. prev \notin {"none", "*", y}
  BY DEF prev
<1>. QED  BY <1>1, <1>2 DEF Extended, pairs, From, prev

(* Nothing but text is converted to y, and all may be converted to text. *)
LEMMA ExtendedVia ==
  ASSUME NEW conv, NEW chain, NEW y, Last(chain) \notin {"none", "*", "text", y}, y # "*",
         <<"*", "text">> \in conv, <<"text", y>> \in conv,
         <<Last(chain), y>> \notin conv, <<"*", y>> \notin conv,
         \A c \in conv : c[2] = y => c = <<"text", y>>
  PROVE  Extended(conv, chain, y) = chain \o <<"text", y>>
<1>. DEFINE prev == Last(chain)
            From(u, v) == {<<u, v>>, <<"*", v>>} \cap conv # {}
            pairs == {c \in conv : c[2] = y /\ From(prev, c[1])}
<1>1. pairs = {<<"text", y>>}
  BY DEF From
<1>2. ~From(prev, y)
  OBVIOUS
<1>3. (CHOOSE c \in pairs : TRUE)[1] = "text"
  BY <1>1
<1>. HIDE DEF pairs, From, prev
<1>4. prev \notin {"none", "*", y}
  BY DEF prev
<1>5. Extended(conv, chain, y) = chain \o <<(CHOOSE c \in pairs : TRUE)[1], y>>
  BY <1>1, <1>2, <1>4 DEF Extended, pairs, From, prev
<1>. QED  BY <1>3, <1>5

LEMMA ConvertersAre ==
  ASSUME NEW o, o.dataType \in DataTypeNames
  PROVE  LET conv == Converters(o)
         IN /\ <<"*", "text">> \in conv
            /\ \A y \in {"html", "json", "xml", "script"} : <<"text", y>> \in conv
            /\ \A x \in {"text", "binary"} : \A y \in {"html", "xml", "script"} :
                 <<"binary", y>> \notin conv /\ <<"*", y>> \notin conv
            /\ <<"binary", "json">> \notin conv /\ <<"*", "json">> \notin conv
            /\ \A c \in conv : /\ c[2] \in {"html", "xml", "script"} => c = <<"text", c[2]>>
                               /\ c[2] = "json" => \/ c = <<"text", "json">>
                                                   \/ c = <<"script", "json">>
            /\ <<"script", "json">> \in conv <=> o.dataType = "jsonp"
BY DEF Converters

(* From what came to y, which is not what came. *)
LEMMA FromBody ==
  ASSUME NEW o, o.dataType \in DataTypeNames, NEW b \in {"text", "binary"},
         NEW y \in {"html", "json", "xml", "script"},
         y = "json" => o.dataType # "jsonp"
  PROVE  Extended(Converters(o), <<b>>, y) =
           IF b = "text" THEN <<"text", y>> ELSE <<"binary", "text", y>>
<1>. DEFINE conv == Converters(o)
<1>1. Last(<<b>>) = b
  BY DEF Last
<1>2. CASE b = "text"
  <2>1. <<"text", y>> \in conv
    BY ConvertersAre
  <2>. HIDE DEF conv
  <2>2. Extended(conv, <<b>>, y) = Append(<<b>>, y)
    BY <1>1, <1>2, <2>1, ExtendedDirect
  <2>. QED  BY <1>2, <2>2 DEF conv
<1>3. CASE b = "binary"
  <2>1. /\ <<"*", "text">> \in conv /\ <<"text", y>> \in conv
        /\ <<"binary", y>> \notin conv /\ <<"*", y>> \notin conv
        /\ \A c \in conv : c[2] = y => c = <<"text", y>>
    BY ConvertersAre
  <2>. HIDE DEF conv
  <2>2. Extended(conv, <<b>>, y) = <<b>> \o <<"text", y>>
    BY <1>1, <1>3, <2>1, ExtendedVia, ZenonT(30)
  <2>3. <<b>> \o <<"text", y>> = <<b, "text", y>>
    BY ThreeJoined
  <2>. QED  BY <1>3, <2>2, <2>3 DEF conv
<1>. QED  BY <1>2, <1>3

(* JSONP ends with what its function got, and evaluates what came as text. *)
LEMMA JsonpChain ==
  ASSUME NEW o, o.dataType = "jsonp", NEW a, a.body \in Bodies
  PROVE  LET c == Chain(o, a)
         IN /\ <<"script", "json">> \in Steps(c) /\ Last(c) = "json" /\ Len(c) # 1
            /\ <<"text", "script">> \in Steps(c) <=> a.body # "none"
<1>. DEFINE conv == Converters(o)
<1>1. /\ o.dataType \in DataTypeNames /\ DataTypes(o) = <<"script", "json">>
      /\ <<"script", "json">> \in conv
  BY ConvertersAre DEF DataTypeNames, DataTypes
<1>2. CASE a.body = "none"
  <2>1. Chain(o, a) = Convert(conv, "script", <<"json">>)
    BY <1>1, <1>2, OneLong, TwoLong, ThreeTail DEF Chain
  <2>. HIDE DEF conv
  <2>2. Last(<<"script">>) = "script"
    BY DEF Last
  <2>3. Extended(conv, <<"script">>, "json") = Append(<<"script">>, "json")
    BY <1>1, <2>2, ExtendedDirect
  <2>4. Chain(o, a) = <<"script", "json">>
    BY <2>1, <2>3, ConvertOne
  <2>5. /\ Steps(Chain(o, a)) = {<<"script", "json">>} /\ Last(Chain(o, a)) = "json"
        /\ Len(Chain(o, a)) = 2
    BY <2>4, TwoLong, Zenon
  <2>. QED  BY <1>2, <2>5
<1>3. CASE a.body \in {"text", "binary"}
  <2>1. HandleResponses(o, a) = <<a.body, "script", "json">>
    <3>1. Head(<<"script", "json">>) = "script"
      BY TwoLong, Zenon
    <3>2. HandleResponses(o, a) = <<a.body>> \o <<"script", "json">>
      BY <1>1, <1>3, <3>1 DEF HandleResponses
    <3>. QED  BY <3>2, ThreeJoined
  <2>2. Chain(o, a) = Convert(conv, a.body, <<"script", "json">>)
    BY <1>3, <2>1, OneLong, TwoLong, ThreeTail DEF Chain
  <2>3. Extended(conv, <<a.body>>, "script") =
          IF a.body = "text" THEN <<"text", "script">> ELSE <<"binary", "text", "script">>
    BY <1>1, <1>3, FromBody
  <2>. HIDE DEF conv
  <2>4. CASE a.body = "text"
    <3>1. Last(<<"text", "script">>) = "script"
      BY DEF Last
    <3>2. Extended(conv, <<"text", "script">>, "json") = Append(<<"text", "script">>, "json")
      BY <1>1, <3>1, ExtendedDirect, Zenon
    <3>3. Chain(o, a) = <<"text", "script", "json">>
      BY <2>2, <2>3, <2>4, <3>2, ConvertTwo, ThreeAppended
    <3>4. /\ Steps(Chain(o, a)) = {<<"text", "script">>, <<"script", "json">>}
          /\ Last(Chain(o, a)) = "json" /\ Len(Chain(o, a)) = 3
      BY <3>3, ThreeSteps DEF Last
    <3>. QED  BY <2>4, <3>4
  <2>5. CASE a.body = "binary"
    <3>1. Last(<<"binary", "text", "script">>) = "script"
      BY DEF Last
    <3>2. Extended(conv, <<"binary", "text", "script">>, "json")
            = Append(<<"binary", "text", "script">>, "json")
      BY <1>1, <3>1, ExtendedDirect, Zenon
    <3>3. Chain(o, a) = <<"binary", "text", "script", "json">>
      BY <2>2, <2>3, <2>5, <3>2, ConvertTwo, FourAppended
    <3>4. /\ Steps(Chain(o, a)) = {<<"binary", "text">>, <<"text", "script">>, <<"script", "json">>}
          /\ Last(Chain(o, a)) = "json" /\ Len(Chain(o, a)) = 4
      BY <3>3, FourSteps DEF Last
    <3>. QED  BY <2>5, <3>4
  <2>. QED  BY <1>3, <2>4, <2>5
<1>. QED  BY <1>2, <1>3 DEF Bodies

(* A type that was asked for is the last. *)
LEMMA PlainChain ==
  ASSUME NEW o, o.dataType \in {"json", "script"}, NEW a, a.body \in Bodies
  PROVE  LET c == Chain(o, a)
         IN /\ Last(c) = o.dataType /\ (Len(c) = 1 => a.body = "none")
            /\ <<"text", "script">> \in Steps(c) => o.dataType = "script"
<1>. DEFINE conv == Converters(o)
<1>1. o.dataType \in DataTypeNames /\ DataTypes(o) = <<o.dataType>>
  BY DEF DataTypeNames, DataTypes
<1>2. CASE a.body = "none"
  <2>1. Chain(o, a) = Convert(conv, o.dataType, <<>>)
    BY <1>1, <1>2, OneLong, TwoLong, ThreeTail DEF Chain
  <2>2. Chain(o, a) = <<o.dataType>>
    BY <2>1, ConvertNone
  <2>. QED  BY <1>2, <2>2, OneLong, TwoLong
<1>3. CASE a.body \in {"text", "binary"}
  <2>1. HandleResponses(o, a) = <<a.body, o.dataType>>
    <3>1. Head(<<o.dataType>>) = o.dataType
      BY OneLong, Zenon
    <3>2. HandleResponses(o, a) = <<a.body>> \o <<o.dataType>>
      BY <1>1, <1>3, <3>1 DEF HandleResponses
    <3>. QED  BY <3>2, TwoLong, Zenon
  <2>2. Chain(o, a) = Convert(conv, a.body, <<o.dataType>>)
    BY <1>3, <2>1, OneLong, TwoLong, ThreeTail DEF Chain
  <2>3. Chain(o, a) = IF a.body = "text" THEN <<"text", o.dataType>>
                      ELSE <<"binary", "text", o.dataType>>
    BY <1>1, <1>3, <2>2, ConvertOne, FromBody
  <2>4. CASE a.body = "text"
    <3>1. Chain(o, a) = <<"text", o.dataType>>
      BY <2>3, <2>4
    <3>2. /\ Steps(Chain(o, a)) = {<<"text", o.dataType>>}
          /\ Last(Chain(o, a)) = o.dataType /\ Len(Chain(o, a)) = 2
      BY <3>1, TwoLong, ZenonT(30)
    <3>. QED  BY <3>2
  <2>5. CASE a.body = "binary"
    <3>1. Chain(o, a) = <<"binary", "text", o.dataType>>
      BY <2>3, <2>5
    <3>2. /\ Steps(Chain(o, a)) = {<<"binary", "text">>, <<"text", o.dataType>>}
          /\ Last(Chain(o, a)) = o.dataType /\ Len(Chain(o, a)) = 3
      BY <3>1, ThreeSteps DEF Last
    <3>. QED  BY <3>2
  <2>. QED  BY <1>3, <2>4, <2>5
<1>. QED  BY <1>2, <1>3 DEF Bodies

(* "Prevent auto-execution of scripts when no explicit dataType was
   provided". *)
LEMMA AutoChain ==
  ASSUME NEW o, o.dataType = "*", o.cross, NEW a, a.body \in Bodies
  PROVE  <<"text", "script">> \notin Steps(Chain(o, a))
<1>. DEFINE conv == Converters(o)
<1>1. /\ o.dataType \in DataTypeNames /\ DataTypes(o) = <<"*">>
      /\ Contents(o) = {"xml", "html", "json"}
  BY DEF DataTypeNames, DataTypes, Contents
<1>2. CASE a.body = "none"
  <2>1. Chain(o, a) = Convert(conv, "*", <<>>)
    BY <1>1, <1>2, OneLong, TwoLong, ThreeTail DEF Chain
  <2>2. Chain(o, a) = <<"*">>
    BY <2>1, ConvertNone
  <2>. QED  BY <2>2, OneLong, TwoLong
<1>3. CASE a.body \in {"text", "binary"} /\ a.ct \in Contents(o)
  <2>1. HandleResponses(o, a) = <<a.body, a.ct>>
    <3>1. Head(<<"*">>) = "*" /\ Head(<<a.ct>>) = a.ct
      BY OneLong, Zenon
    <3>2. HandleResponses(o, a) = <<a.body>> \o <<a.ct>>
      BY <1>1, <1>3, <3>1 DEF HandleResponses
    <3>. QED  BY <3>2, TwoLong, Zenon
  <2>2. Chain(o, a) = Convert(conv, a.body, <<a.ct>>)
    BY <1>3, <2>1, OneLong, TwoLong, ThreeTail DEF Chain
  <2>3. Chain(o, a) = IF a.body = "text" THEN <<"text", a.ct>>
                      ELSE <<"binary", "text", a.ct>>
    BY <1>1, <1>3, <2>2, ConvertOne, FromBody
  <2>4. CASE a.body = "text"
    <3>1. Chain(o, a) = <<"text", a.ct>>
      BY <2>3, <2>4
    <3>2. Steps(Chain(o, a)) = {<<"text", a.ct>>}
      BY <3>1, TwoLong, Zenon
    <3>. QED  BY <1>1, <1>3, <3>2
  <2>5. CASE a.body = "binary"
    <3>1. Chain(o, a) = <<"binary", "text", a.ct>>
      BY <2>3, <2>5
    <3>2. Steps(Chain(o, a)) = {<<"binary", "text">>, <<"text", a.ct>>}
      BY <3>1, ThreeSteps DEF Last
    <3>. QED  BY <1>1, <1>3, <3>2
  <2>. QED  BY <1>3, <2>4, <2>5
<1>4. CASE a.body \in {"text", "binary"} /\ a.ct \notin Contents(o)
  <2>1. HandleResponses(o, a) = <<a.body>>
    BY <1>1, <1>4, OneLong DEF HandleResponses
  <2>2. Chain(o, a) = Convert(conv, a.body, <<>>)
    BY <1>4, <2>1, OneLong, TwoLong, ThreeTail DEF Chain
  <2>3. Chain(o, a) = <<a.body>>
    BY <2>2, ConvertNone
  <2>. QED  BY <2>3, OneLong, TwoLong
<1>. QED  BY <1>2, <1>3, <1>4 DEF Bodies

-----------------------------------------------------------------------------
(* The request is over and about to be settled: it keeps its name until then. *)
LEMMA OverKeeps ==
  ASSUME NEW t, NEW u, NEW i \in DOMAIN t.req, Free(t), OwnInv(t),
         t.req[i].completed # "yes", u.req[i].completed = "yes",
         DOMAIN u.req = DOMAIN t.req, Len(u.req) = Len(t.req),
         u.window = t.window, u.old = t.old, u.made = t.made, u.silent = t.silent,
         \A j \in DOMAIN t.req \ {i} : u.req[j] = t.req[j] /\ ~Settling(u, j),
         Settling(u, i), u.req[i].o = t.req[i].o, u.req[i].name = t.req[i].name, Known(u, i)
  PROVE  OwnInv(u)
<1>1. Lives(u) = Lives(t)
  <2>1. Live(u, i) <=> Live(t, i)
    BY DEF Live, Jsonp
  <2>2. \A j \in DOMAIN t.req \ {i} : Live(u, j) <=> Live(t, j)
    BY FreeLives DEF Live, Jsonp
  <2>. QED  BY <2>1, <2>2 DEF Lives
<1>2. NamesOK(u, Lives(t))
  <2>1. NamesOK(t, Lives(t)) /\ Lives(t) \subseteq DOMAIN t.req
    BY DEF OwnInv, Lives
  <2>2. \A j \in DOMAIN t.req : u.req[j].name = t.req[j].name
    OBVIOUS
  <2>. QED  BY <2>1, <2>2, NamesSame
<1>3. \A j \in DOMAIN t.req \ {i} : Known(u, j)
  <2>1. \A j \in DOMAIN t.req \ {i} : Known(t, j) /\ u.req[j] = t.req[j]
    BY DEF OwnInv
  <2>. QED  BY <2>1 DEF Known, Jsonp
<1>. QED  BY <1>1, <1>2, <1>3 DEF OwnInv

(* Who asks for no type gets no script of another domain. *)
LEMMA EvaluatesAsked ==
  ASSUME NEW o \in Options, NEW a, a.body \in Bodies, o.cross,
         <<"text", "script">> \in Steps(Chain(o, a))
  PROVE  o.dataType \in {"script", "jsonp"}
<1>1. o.dataType \in DataTypeNames
  BY AjaxAssumption
<1>2. o.dataType # "*"
  BY AutoChain
<1>3. o.dataType # "json"
  BY PlainChain
<1>. QED  BY <1>1, <1>2, <1>3 DEF DataTypeNames

(* What "convert no matter what" makes of an answer. *)
Evaluates(t, i, a) == <<"text", "script">> \in Steps(Chain(t.req[i].o, a))
After(t, i, a) == IF Evaluates(t, i, a) THEN RunScript(t, i, a) ELSE t

LEMMA AfterOwns ==
  ASSUME NEW t, Shape(t), Free(t), OwnInv(t), NEW i \in DOMAIN t.req, NEW a,
         a.body \in Bodies
  PROVE  LET x == After(t, i, a)
         IN Ran(t, x, i) /\ Shape(x) /\ OwnInv(x) /\ Free(x)
<1>1. CASE Evaluates(t, i, a)
  <2>1. t.req[i].o \in Options
    BY DEF OwnInv, Known
  <2>2. t.req[i].o.cross => t.req[i].o.dataType \in {"script", "jsonp"}
    BY <1>1, <2>1, EvaluatesAsked DEF Evaluates
  <2>3. Ran(t, RunScript(t, i, a), i)
    BY RunScriptRan
  <2>4. OwnInv(RunScript(t, i, a)) /\ Free(RunScript(t, i, a))
    BY <2>2, <2>3, RanKeeps
  <2>. QED  BY <1>1, <2>3, <2>4 DEF After, Ran
<1>2. CASE ~Evaluates(t, i, a)
  <2>1. Ran(t, t, i)
    BY DEF Ran
  <2>. QED  BY <1>2, <2>1 DEF After
<1>. QED  BY <1>1, <1>2

LEMMA AfterGot ==
  ASSUME NEW t, Shape(t), Free(t), OwnInv(t), NEW i \in DOMAIN t.req, NEW a,
         a.body \in Bodies, t.req[i].completed # "yes", Jsonp(t.req[i]),
         a.body = "none" => t.silent \/ t.req[i].container = i
  PROVE  After(t, i, a).silent \/ After(t, i, a).req[i].container = i
<1>0. Evaluates(t, i, a) <=> a.body # "none"
  BY JsonpChain DEF Evaluates, Jsonp
<1>1. CASE a.body = "none"
  BY <1>0, <1>1 DEF After
<1>2. CASE a.body # "none"
  <2>1. i \in Lives(t) /\ i # None
    BY DEF Lives, Live, Shape, None
  <2>2. t.window[t.req[i].name] = i
    BY <2>1 DEF OwnInv, NamesOK
  <2>. QED  BY <1>0, <1>2, <2>1, <2>2, RunScriptRan DEF After
<1>. QED  BY <1>1, <1>2

(* The outcome, the data and its type, as Converted has them. *)
ByJsonp(chain) == <<"script", "json">> \in Steps(chain)
Succeeds(chain, got, a) ==
  LET error == \/ Last(chain) = "none"
               \/ <<"text", "json">> \in Steps(chain) /\ ~a.valid
               \/ ByJsonp(chain) /\ got = None
  IN a.status \in {200, 204, 304} /\ (a.status = 200 => ~error)
DataOf(chain, got, i, a) ==
  IF a.status # 200 THEN None ELSE IF ByJsonp(chain) THEN got ELSE i
TypeOf(chain, a) ==
  IF a.status # 200 THEN "none" ELSE IF Len(chain) = 1 THEN a.body ELSE Last(chain)

(* The last of a longer sequence and the others. *)
LEMMA OneMore ==
  ASSUME NEW S, NEW q \in Seq(S), NEW f \in S, NEW p, p = Append(q, f)
  PROVE  LET n == Len(q) + 1
         IN /\ n \in DOMAIN p /\ p[n] = f
            /\ \A k \in DOMAIN p : k = n \/ (k \in DOMAIN q /\ p[k] = q[k])
<1>1. /\ Len(q) \in Nat /\ DOMAIN q = 1..Len(q) /\ DOMAIN p = 1..(Len(q) + 1)
      /\ p[Len(q) + 1] = f /\ \A k \in DOMAIN q : p[k] = q[k]
  BY AppendProperties
<1>2. \A k \in 1..(Len(q) + 1) : k = Len(q) + 1 \/ k \in 1..Len(q)
  BY <1>1
<1>. QED  BY <1>1, <1>2

LEMMA DoneIs ==
  ASSUME NEW t, Shape(t), NEW i \in DOMAIN t.req, NEW a, NEW x, x = After(t, i, a),
         Shape(x), Ran(t, x, i), t.req[i].completed # "yes", NEW u, u = Done(t, i, a),
         NEW chain, chain = Chain(t.req[i].o, a), NEW got, got = x.req[i].container
  PROVE  /\ DOMAIN u = Parts /\ DOMAIN u.req = DOMAIN x.req
         /\ u.stack = Append(t.stack, [at |-> "done", i |-> i, role |-> "none", pc |-> "settle"])
         /\ u.window = x.window /\ u.old = x.old /\ u.made = x.made /\ u.silent = x.silent
         /\ \A j \in DOMAIN x.req \ {i} : u.req[j] = x.req[j]
         /\ DOMAIN u.req[i] = Fields
         /\ LET q == x.req[i]
                r == u.req[i]
            IN /\ r.completed = "yes" /\ r.o = q.o /\ r.name = q.name
               /\ r.evaluated = q.evaluated /\ r.loading = q.loading
               /\ r.success = Succeeds(chain, got, a) /\ r.data = DataOf(chain, got, i, a)
               /\ r.type = TypeOf(chain, a)
<1>. DEFINE w(b, c, d) == [x EXCEPT !.req[i].success = b, !.req[i].data = c, !.req[i].type = d]
            v(y) == [y EXCEPT !.req[i].completed = "yes", !.req[i].timer = FALSE,
                              !.req[i].transport = FALSE]
            f == [at |-> "done", i |-> i, role |-> "none", pc |-> "settle"]
            b == Succeeds(chain, got, a)
            c == DataOf(chain, got, i, a)
            d == TypeOf(chain, a)
<1>1. Converted(t, i, a) = w(b, c, d)
  <2>. DEFINE x0 == IF <<"text", "script">> \in Steps(Chain(t.req[i].o, a))
                    THEN RunScript(t, i, a) ELSE t
              c0 == Chain(t.req[i].o, a)
              g0 == x0.req[i].container
              byScript == <<"script", "json">> \in Steps(c0)
              error == \/ Last(c0) = "none"
                       \/ <<"text", "json">> \in Steps(c0) /\ ~a.valid
                       \/ byScript /\ g0 = None
              b0 == /\ a.status \in {200, 204, 304}
                    /\ a.status = 200 => ~error
              d0 == IF a.status # 200 THEN None ELSE IF byScript THEN g0 ELSE i
              e0 == IF a.status # 200 THEN "none"
                    ELSE IF Len(c0) = 1 THEN a.body ELSE Last(c0)
  <2>1. Converted(t, i, a) =
          [x0 EXCEPT !.req[i].success = b0, !.req[i].data = d0, !.req[i].type = e0]
    BY Zenon DEF Converted
  <2>2. x0 = x
    BY DEF After, Evaluates
  <2>. HIDE DEF x0
  <2>c. c0 = chain /\ g0 = got
    BY <2>2
  <2>. HIDE DEF c0, g0
  <2>3. b0 = b /\ d0 = c /\ e0 = d
    <3>0. Succeeds(c0, g0, a) = b
      BY <2>c
    <3>1. b0 <=> Succeeds(c0, g0, a)
      BY Zenon DEF Succeeds, ByJsonp
    <3>2. d0 = c
      BY <2>c DEF DataOf, ByJsonp
    <3>3. e0 = d
      BY <2>c DEF TypeOf
    <3>4. b0 = Succeeds(c0, g0, a)
      BY <3>1, Zenon DEF Succeeds
    <3>. QED  BY <3>0, <3>2, <3>3, <3>4, Zenon
  <2>. HIDE DEF b0, d0, e0, b, c, d
  <2>. QED  BY <2>1, <2>2, <2>3
<1>2. u = Push(v(w(b, c, d)), f)
  BY <1>1, Zenon DEF Done
<1>. HIDE DEF b, c, d, f
<1>t. DOMAIN x = Parts /\ x.stack = t.stack /\ i \in DOMAIN x.req /\ DOMAIN x.req[i] = Fields
  BY DEF Ran, Shape
<1>. DEFINE y == w(b, c, d)
<1>3. /\ DOMAIN y = Parts /\ DOMAIN y.req = DOMAIN x.req /\ y.stack = x.stack
      /\ y.window = x.window /\ y.old = x.old /\ y.made = x.made /\ y.silent = x.silent
      /\ \A j \in DOMAIN x.req \ {i} : y.req[j] = x.req[j]
      /\ y.req[i] = [x.req[i] EXCEPT !.success = b, !.data = c, !.type = d]
  BY <1>t DEF Parts
<1>4. /\ DOMAIN y.req[i] = Fields /\ y.req[i].success = b /\ y.req[i].data = c
      /\ y.req[i].type = d
      /\ \A field \in Fields \ {"success", "data", "type"} : y.req[i][field] = x.req[i][field]
  BY <1>3, <1>t DEF Fields
<1>5. u = Push(v(y), f)
  BY <1>2, Zenon
<1>. HIDE DEF y, w
<1>. DEFINE z == v(y)
<1>6. /\ DOMAIN z = Parts /\ DOMAIN z.req = DOMAIN y.req /\ z.stack = y.stack
      /\ z.window = y.window /\ z.old = y.old /\ z.made = y.made /\ z.silent = y.silent
      /\ \A j \in DOMAIN y.req \ {i} : z.req[j] = y.req[j]
      /\ z.req[i] = [y.req[i] EXCEPT !.completed = "yes", !.timer = FALSE, !.transport = FALSE]
  BY <1>3, <1>t DEF Parts
<1>7. /\ DOMAIN z.req[i] = Fields /\ z.req[i].completed = "yes"
      /\ \A field \in Fields \ {"completed", "timer", "transport"} :
           z.req[i][field] = y.req[i][field]
  <2>. DEFINE q == y.req[i]
  <2>1. z.req[i] = [q EXCEPT !.completed = "yes", !.timer = FALSE, !.transport = FALSE]
    BY <1>6
  <2>2. DOMAIN q = Fields /\ "completed" \in Fields
    BY <1>4 DEF Fields
  <2>. HIDE DEF q
  <2>3. DOMAIN z.req[i] = DOMAIN q /\ z.req[i].completed = "yes"
    BY <2>1, <2>2
  <2>4. \A field \in DOMAIN q \ {"completed", "timer", "transport"} :
          z.req[i][field] = q[field]
    BY <2>1
  <2>. QED  BY <2>2, <2>3, <2>4 DEF q
<1>. HIDE DEF z, v
<1>8. /\ DOMAIN u = Parts /\ u.req = z.req /\ u.stack = Append(z.stack, f)
      /\ u.window = z.window /\ u.old = z.old /\ u.made = z.made /\ u.silent = z.silent
  BY <1>5, <1>6 DEF Push, Parts, z
<1>9. /\ z.req[i].o = x.req[i].o /\ z.req[i].name = x.req[i].name
      /\ z.req[i].evaluated = x.req[i].evaluated /\ z.req[i].loading = x.req[i].loading
      /\ z.req[i].success = b /\ z.req[i].data = c /\ z.req[i].type = d
  BY <1>4, <1>7 DEF Fields
<1>10. /\ u.stack = Append(t.stack, f)
       /\ u.window = x.window /\ u.old = x.old /\ u.made = x.made /\ u.silent = x.silent
       /\ DOMAIN u.req = DOMAIN x.req /\ \A j \in DOMAIN x.req \ {i} : u.req[j] = x.req[j]
  BY <1>3, <1>6, <1>8, <1>t
<1>. QED  BY <1>7, <1>8, <1>9, <1>10 DEF b, c, d, f

LEMMA DoneOwns ==
  ASSUME NEW t, Shape(t), Free(t), OwnInv(t), NEW i \in DOMAIN t.req, NEW a,
         a.body \in Bodies,
         t.req[i].completed # "yes" /\ Jsonp(t.req[i]) /\ a.body = "none" /\ a.status = 200 =>
           t.silent \/ t.req[i].container = i
  PROVE  OwnInv(Done(t, i, a)) /\ Shape(Done(t, i, a))
<1>1. CASE t.req[i].completed = "yes"
  BY <1>1 DEF Done
<1>2. CASE t.req[i].completed # "yes"
  <2>. DEFINE x == After(t, i, a)
              u == Done(t, i, a)
              chain == Chain(t.req[i].o, a)
              got == x.req[i].container
              f == [at |-> "done", i |-> i, role |-> "none", pc |-> "settle"]
              r == u.req[i]
  <2>1. Ran(t, x, i) /\ Shape(x) /\ OwnInv(x) /\ Free(x)
    BY AfterOwns
  <2>2. Jsonp(t.req[i]) /\ a.status = 200 => x.silent \/ got = i
    BY <1>2, AfterGot
  <2>. HIDE DEF x
  <2>3. Same(t.req[i], x.req[i]) /\ i \in DOMAIN x.req
    BY <2>1, RanSame, Zenon DEF Ran
  <2>4. /\ DOMAIN u = Parts /\ DOMAIN u.req = DOMAIN x.req
        /\ u.stack = Append(t.stack, f)
        /\ u.window = x.window /\ u.old = x.old /\ u.made = x.made /\ u.silent = x.silent
        /\ \A j \in DOMAIN x.req \ {i} : u.req[j] = x.req[j]
        /\ DOMAIN r = Fields
        /\ r.completed = "yes" /\ r.o = x.req[i].o /\ r.name = x.req[i].name
        /\ r.evaluated = x.req[i].evaluated /\ r.loading = x.req[i].loading
        /\ r.success = Succeeds(chain, got, a) /\ r.data = DataOf(chain, got, i, a)
        /\ r.type = TypeOf(chain, a)
    BY <1>2, <2>1, DoneIs DEF x
  <2>. HIDE DEF u
  <2>5. Len(u.req) = Len(x.req)
    BY <2>1, <2>4, Reshaped
  <2>6. t.stack \in Seq(Frame) /\ f \in Frame
    BY DEF Shape, Frame, Roles, Pcs, Unheard
  <2>7. Shape(u)
    <3>1. u.stack \in Seq(Frame)
      BY <2>4, <2>6
    <3>. QED  BY <2>1, <2>4, <2>5, <3>1, Zenon DEF Shape
  <2>8. Settling(u, i) /\ \A j : j # i => ~Settling(u, j)
    <3>. DEFINE n == Len(t.stack) + 1
    <3>0. f.at = "done" /\ f.i = i /\ f.pc = "settle"
      OBVIOUS
    <3>. HIDE DEF f
    <3>1. /\ n \in DOMAIN u.stack /\ u.stack[n] = f
          /\ \A k \in DOMAIN u.stack : k = n \/ (k \in DOMAIN t.stack /\ u.stack[k] = t.stack[k])
      BY <2>4, <2>6, OneMore
    <3>. HIDE DEF n
    <3>2. \A k \in DOMAIN t.stack : t.stack[k].pc # "settle"
      BY DEF Free
    <3>. QED  BY <3>0, <3>1, <3>2 DEF Settling, DoneOf
  <2>9. Known(u, i)
    <3>1. Known(x, i)
      BY <2>1, <2>3 DEF OwnInv
    <3>2. r.o = t.req[i].o /\ r.o \in Options /\ r.o.dataType \in DataTypeNames
      BY <2>3, <2>4, <3>1, AjaxAssumption DEF Known, Same
    <3>3. ASSUME r.success, r.type # "none", r.o.dataType # "*"
          PROVE  r.type = (IF Jsonp(r) THEN "json" ELSE r.o.dataType)
      <4>1. r.type = IF Len(chain) = 1 THEN a.body ELSE Last(chain)
        BY <2>4, <3>3 DEF TypeOf
      <4>2. CASE r.o.dataType = "jsonp"
        <5>1. Last(chain) = "json" /\ Len(chain) # 1
          BY <3>2, <4>2, JsonpChain
        <5>. QED  BY <4>1, <4>2, <5>1 DEF Jsonp
      <4>3. CASE r.o.dataType \in {"json", "script"}
        <5>1. Last(chain) = r.o.dataType /\ (Len(chain) = 1 => a.body = "none")
          BY <3>2, <4>3, PlainChain
        <5>. QED  BY <3>3, <4>1, <4>3, <5>1 DEF Jsonp
      <4>. QED  BY <3>2, <3>3, <4>2, <4>3 DEF DataTypeNames
    <3>4. ASSUME Jsonp(r)
          PROVE  u.silent \/ r.data \in {i, None}
      <4>1. CASE a.status # 200
        BY <2>4, <4>1 DEF DataOf
      <4>2. CASE a.status = 200
        <5>1. ByJsonp(chain)
          BY <3>2, <3>4, JsonpChain DEF Jsonp, ByJsonp
        <5>2. r.data = got
          BY <2>4, <4>2, <5>1 DEF DataOf
        <5>. QED  BY <2>2, <2>4, <3>2, <3>4, <4>2, <5>2 DEF Jsonp
      <4>. QED  BY <4>1, <4>2
    <3>. QED  BY <2>4, <3>1, <3>2, <3>3, <3>4 DEF Known
  <2>10. OwnInv(u)
    <3>1. x.req[i].completed # "yes"
      BY <1>2, <2>3 DEF Same
    <3>2. \A j \in DOMAIN x.req \ {i} : u.req[j] = x.req[j] /\ ~Settling(u, j)
      BY <2>4, <2>8
    <3>. QED  BY <2>1, <2>3, <2>4, <2>5, <2>8, <2>9, <3>1, <3>2, OverKeeps, Zenon
  <2>. QED  BY <2>7, <2>10 DEF u
<1>. QED  BY <1>1, <1>2

-----------------------------------------------------------------------------
(* The actions. *)
LEMMA Standing ==
  ASSUME RequestsInv, s.stack # <<>>
  PROVE  /\ Shape(s) /\ Top \in Frame /\ Top.i \in DOMAIN s.req
         /\ Top.pc # "settle" => Free(s)
<1>1. Shape(s) /\ StackInv(s)
  BY PageShape DEF RequestsInv, Inv, Mid
<1>2. Len(s.stack) \in DOMAIN s.stack /\ s.stack \in Seq(Frame)
  BY <1>1 DEF Shape
<1>3. Fits(s, Top)
  BY <1>1, <1>2 DEF StackInv, Top
<1>4. ASSUME Top.pc # "settle"
      PROVE  Free(s)
  BY <1>1, <1>4 DEF StackInv, Free, Top
<1>. QED  BY <1>1, <1>2, <1>3, <1>4 DEF Fits, Top

LEMMA Idle ==
  ASSUME RequestsInv, Quiet
  PROVE  Shape(s) /\ Free(s)
<1>1. Shape(s)
  BY PageShape DEF RequestsInv
<1>2. DOMAIN s.stack = {}
  BY DEF Quiet
<1>. QED  BY <1>1, <1>2 DEF Free

LEMMA MovesShape ==
  ASSUME NEW t, NEW u, Moves(t, u)
  PROVE  Shape(u) /\ DOMAIN u.req = DOMAIN t.req
BY DEF Moves

(* An event for the listeners or what the callbacks are told, if at all. *)
LEMMA EventMoves ==
  ASSUME NEW t, Shape(t), t.stack # <<>>, NEW i \in DOMAIN t.req, NEW role \in Roles,
         NEW pc \in Pcs, pc # "settle"
  PROVE  /\ Moves(t, Goto(t, pc))
         /\ Moves(t, User(Goto(t, pc), i, role))
<1>1. Moves(t, Goto(t, pc))
  BY GotoMoves
<1>2. Shape(Goto(t, pc)) /\ i \in DOMAIN Goto(t, pc).req
  BY <1>1, MovesShape
<1>3. Moves(Goto(t, pc), User(Goto(t, pc), i, role))
  BY <1>2, UserMoves
<1>. QED  BY <1>1, <1>3, MovesOn

LEMMA FlaggedMoves ==
  ASSUME NEW t, Shape(t), t.stack # <<>>, NEW i \in DOMAIN t.req, NEW pc \in Pcs,
         pc # "settle", NEW m, NEW flag \in {"transport", "installed", "completeFired"},
         m = [Goto(t, pc) EXCEPT !.req[i][flag] = TRUE]
  PROVE  /\ Moves(t, m) /\ Shape(m) /\ i \in DOMAIN m.req
         /\ \A role \in Roles : Moves(t, User(m, i, role))
         /\ \A what \in Tidings : Moves(t, Tell(m, i, what))
<1>1. Moves(t, Goto(t, pc))
  BY GotoMoves
<1>2. Shape(Goto(t, pc)) /\ i \in DOMAIN Goto(t, pc).req
  BY <1>1, MovesShape
<1>3. Moves(Goto(t, pc), m)
  BY <1>2, FieldMoves, Zenon
<1>4. Shape(m) /\ i \in DOMAIN m.req
  BY <1>2, <1>3, MovesShape
<1>5. Moves(t, m)
  BY <1>1, <1>3, MovesOn
<1>6. \A role \in Roles : Moves(m, User(m, i, role))
  BY <1>4, UserMoves, Zenon
<1>7. \A what \in Tidings : Moves(m, Tell(m, i, what))
  BY <1>4, TellMoves, Zenon
<1>. QED  BY <1>4, <1>5, <1>6, <1>7, MovesOn, Zenon

LEMMA GlobalEventOwns ==
  ASSUME RequestsInv, OwnInv(s), GlobalEvent \/ CompleteEvent
  PROVE  OwnInv(s')
<1>1. s.stack # <<>> /\ Top.pc # "settle"
  BY DEF GlobalEvent, CompleteEvent, At
<1>2. Shape(s) /\ Top.i \in DOMAIN s.req /\ Free(s)
  BY <1>1, Standing
<1>3. /\ "complete" \in Pcs /\ "count" \in Pcs /\ "ajaxSuccess" \in Roles
      /\ "ajaxComplete" \in Roles
  BY DEF Pcs, Unheard, Roles
<1>4. Moves(s, s')
  <2>1. CASE GlobalEvent
    BY <1>1, <1>2, <1>3, <2>1, EventMoves DEF GlobalEvent
  <2>2. CASE CompleteEvent
    BY <1>1, <1>2, <1>3, <2>2, EventMoves DEF CompleteEvent
  <2>. QED  BY <2>1, <2>2
<1>. QED  BY <1>2, <1>4, MovesKeeps

LEMMA OutcomeTold == \A t, i : Outcome(t, i) \in Tidings /\ "complete" \in Tidings
BY DEF Outcome, Tidings, Outcomes

LEMMA CompleteOwns ==
  ASSUME RequestsInv, OwnInv(s), Complete
  PROVE  OwnInv(s')
<1>1. s.stack # <<>> /\ Top.pc # "settle"
  BY DEF Complete, At
<1>2. Shape(s) /\ Top.i \in DOMAIN s.req /\ Free(s)
  BY <1>1, Standing
<1>. DEFINE m == [Goto(s, "ajaxComplete") EXCEPT !.req[Top.i].completeFired = TRUE]
<1>3. m = [Goto(s, "ajaxComplete") EXCEPT !.req[Top.i]["completeFired"] = TRUE]
  OBVIOUS
<1>4. s' = IF s.req[Top.i].installed THEN Tell(m, Top.i, "complete") ELSE m
  BY DEF Complete
<1>. HIDE DEF m
<1>5. Moves(s, m) /\ Moves(s, Tell(m, Top.i, "complete"))
  BY <1>1, <1>2, <1>3, FlaggedMoves, OutcomeTold DEF Pcs
<1>6. Moves(s, s')
  BY <1>4, <1>5
<1>. QED  BY <1>2, <1>6, MovesKeeps

LEMMA SendEventOwns ==
  ASSUME RequestsInv, OwnInv(s), SendEvent
  PROVE  OwnInv(s')
<1>1. s.stack # <<>> /\ Top.pc # "settle"
  BY DEF SendEvent, At
<1>2. Shape(s) /\ Top.i \in DOMAIN s.req /\ Free(s)
  BY <1>1, Standing
<1>. DEFINE m == [Goto(s, "send") EXCEPT !.req[Top.i].transport = TRUE]
<1>3. m = [Goto(s, "send") EXCEPT !.req[Top.i]["transport"] = TRUE]
  OBVIOUS
<1>4. s' = IF s.req[Top.i].fire THEN User(m, Top.i, "ajaxSend") ELSE m
  BY DEF SendEvent
<1>. HIDE DEF m
<1>5. "send" \in Pcs /\ "ajaxSend" \in Roles
  BY DEF Pcs, Roles
<1>6. Moves(s, m) /\ Moves(s, User(m, Top.i, "ajaxSend"))
  BY <1>1, <1>2, <1>3, <1>5, FlaggedMoves
<1>7. Moves(s, s')
  BY <1>4, <1>6
<1>. QED  BY <1>2, <1>7, MovesKeeps

LEMMA InstallCallbacksOwns ==
  ASSUME RequestsInv, OwnInv(s), InstallCallbacks
  PROVE  OwnInv(s')
<1>1. s.stack # <<>> /\ Top.pc # "settle"
  BY DEF InstallCallbacks, At
<1>2. Shape(s) /\ Top.i \in DOMAIN s.req /\ Free(s)
  BY <1>1, Standing
<1>. DEFINE i == Top.i
            m == [Goto(s, "transport") EXCEPT !.req[i].installed = TRUE]
            x == Outcome(s, i)
            p == Goto(s, "installing")
<1>3. m = [Goto(s, "transport") EXCEPT !.req[i]["installed"] = TRUE]
  OBVIOUS
<1>4. s' = IF s.req[i].completeFired THEN Tell(p, i, "complete")
           ELSE IF s.req[i].completed = "yes" THEN Tell(m, i, x) ELSE m
  BY DEF InstallCallbacks
<1>5. x \in Tidings /\ "complete" \in Tidings
  BY OutcomeTold
<1>. HIDE DEF m, x
<1>6. "transport" \in Pcs
  BY DEF Pcs
<1>7. /\ Moves(s, m) /\ Shape(m) /\ i \in DOMAIN m.req
      /\ Moves(s, Tell(m, i, "complete")) /\ Moves(s, Tell(m, i, x))
  BY <1>1, <1>2, <1>3, <1>5, <1>6, FlaggedMoves, Zenon
<1>8. Moves(s, Tell(p, i, "complete"))
  <2>1. Moves(s, p)
    BY <1>1, <1>2, GotoMoves DEF Pcs
  <2>2. Shape(p) /\ i \in DOMAIN p.req
    BY <1>2, <2>1, MovesShape
  <2>. HIDE DEF p
  <2>3. Moves(p, Tell(p, i, "complete"))
    BY <1>5, <2>2, TellMoves
  <2>. QED  BY <2>1, <2>3, MovesOn
<1>9. Moves(s, s')
  BY <1>4, <1>7, <1>8
<1>. QED  BY <1>2, <1>9, MovesKeeps

LEMMA InstallOthersOwns ==
  ASSUME RequestsInv, OwnInv(s), InstallOthers
  PROVE  OwnInv(s')
<1>1. s.stack # <<>> /\ Top.pc # "settle"
  BY DEF InstallOthers, At
<1>2. Shape(s) /\ Top.i \in DOMAIN s.req /\ Free(s)
  BY <1>1, Standing
<1>. DEFINE i == Top.i
            m == [Goto(s, "transport") EXCEPT !.req[i].installed = TRUE]
            x == Outcome(s, i)
<1>3. m = [Goto(s, "transport") EXCEPT !.req[i]["installed"] = TRUE]
  OBVIOUS
<1>4. s' = Tell(m, i, x)
  BY DEF InstallOthers
<1>5. x \in Tidings
  BY OutcomeTold
<1>. HIDE DEF m, x
<1>6. "transport" \in Pcs
  BY DEF Pcs
<1>7. Moves(s, Tell(m, i, x))
  BY <1>1, <1>2, <1>3, <1>5, <1>6, FlaggedMoves, Zenon
<1>. QED  BY <1>2, <1>4, <1>7, MovesKeeps

LEMMA CountOutOwns ==
  ASSUME RequestsInv, OwnInv(s), CountOut
  PROVE  OwnInv(s')
<1>1. s.stack # <<>> /\ Top.pc # "settle"
  BY DEF CountOut, At
<1>2. Shape(s) /\ Top.i \in DOMAIN s.req /\ Free(s)
  BY <1>1, Standing
<1>. DEFINE i == Top.i
            p == Pop(s)
            m == [p EXCEPT !.active = @ - 1]
            n == [m EXCEPT !.busy = FALSE]
<1>3. s' = IF ~s.req[i].fire THEN p
           ELSE IF m.active = 0 THEN User(n, i, "ajaxStop") ELSE m
  BY DEF CountOut
<1>4. Moves(s, p)
  BY <1>1, <1>2, PopMoves
<1>. HIDE DEF p
<1>5. m = [p EXCEPT !["active"] = p.active - 1] /\ n = [m EXCEPT !["busy"] = FALSE]
  OBVIOUS
<1>. HIDE DEF m, n
<1>6. Moves(s, m)
  <2>1. Moves(p, m)
    BY <1>4, <1>5, PartMoves, MovesShape, Zenon
  <2>. QED  BY <1>4, <2>1, MovesOn
<1>7. Moves(s, User(n, i, "ajaxStop"))
  <2>1. Moves(m, n)
    BY <1>5, <1>6, PartMoves, MovesShape, Zenon
  <2>2. Moves(s, n)
    BY <1>6, <2>1, MovesOn
  <2>3. Shape(n) /\ i \in DOMAIN n.req /\ "ajaxStop" \in Roles
    BY <1>2, <2>2, MovesShape DEF Roles
  <2>4. Moves(n, User(n, i, "ajaxStop"))
    BY <2>3, UserMoves
  <2>. QED  BY <2>2, <2>4, MovesOn
<1>8. Moves(s, s')
  BY <1>3, <1>4, <1>6, <1>7
<1>. QED  BY <1>2, <1>8, MovesKeeps

LEMMA CountInOwns ==
  ASSUME RequestsInv, OwnInv(s), CountIn
  PROVE  OwnInv(s')
<1>1. s.stack # <<>> /\ Top.pc # "settle"
  BY DEF CountIn, At
<1>2. Shape(s) /\ Top.i \in DOMAIN s.req /\ Free(s)
  BY <1>1, Standing
<1>. DEFINE i == Top.i
            p == Goto(s, "started")
            m == [p EXCEPT !.req[i].fire = TRUE, !.active = @ + 1]
            n == [m EXCEPT !.busy = TRUE]
<1>3. s' = IF s.req[i].completed = "yes" THEN Pop(s)
           ELSE IF ~s.req[i].o.global THEN p
           ELSE IF s.active = 0 THEN User(n, i, "ajaxStart") ELSE m
  BY DEF CountIn
<1>4. Moves(s, Pop(s)) /\ Moves(s, p)
  BY <1>1, <1>2, PopMoves, GotoMoves DEF Pcs, Early
<1>5. Shape(p) /\ i \in DOMAIN p.req
  BY <1>2, <1>4, MovesShape
<1>. HIDE DEF p
<1>6. Moves(p, m) /\ Moves(p, n)
  <2>. DEFINE x == p.active + 1
  <2>1. m = [p EXCEPT !.req[i].fire = TRUE, !.active = x]
    BY <1>5 DEF Shape, Parts
  <2>. HIDE DEF x, m
  <2>2. LET u == [p EXCEPT !.req[i].fire = TRUE, !.active = x]
        IN Moves(p, u) /\ Moves(p, [u EXCEPT !.busy = TRUE])
    BY <1>5, CountedInMoves, Zenon
  <2>. QED  BY <2>1, <2>2
<1>. HIDE DEF m, n
<1>7. Moves(s, m) /\ Moves(s, n)
  BY <1>4, <1>6, MovesOn
<1>8. Moves(s, User(n, i, "ajaxStart"))
  <2>1. Shape(n) /\ i \in DOMAIN n.req /\ "ajaxStart" \in Roles
    BY <1>2, <1>7, MovesShape DEF Roles
  <2>2. Moves(n, User(n, i, "ajaxStart"))
    BY <2>1, UserMoves
  <2>. QED  BY <1>7, <2>2, MovesOn
<1>9. Moves(s, s')
  BY <1>3, <1>4, <1>7, <1>8
<1>. QED  BY <1>2, <1>9, MovesKeeps

(* No answer at all gives no data. *)
LEMMA AbortOwns ==
  ASSUME NEW t, Shape(t), Free(t), OwnInv(t), NEW i \in DOMAIN t.req
  PROVE  OwnInv(AbortRequest(t, i))
<1>. DEFINE u == Silence(t, i)
<1>1. Moves(t, u)
  BY SilenceMoves
<1>2. OwnInv(u) /\ Free(u) /\ Shape(u) /\ i \in DOMAIN u.req
  BY <1>1, MovesKeeps, MovesShape
<1>. HIDE DEF u
<1>3. NoAnswer.body \in Bodies /\ NoAnswer.status # 200
  BY DEF NoAnswer, Bodies
<1>4. OwnInv(Done(u, i, NoAnswer))
  BY <1>2, <1>3, DoneOwns
<1>. QED  BY <1>4 DEF AbortRequest, u

LEMMA BeforeSendOwns ==
  ASSUME RequestsInv, OwnInv(s), BeforeSend \/ BeforeSendReturned
  PROVE  OwnInv(s')
<1>1. s.stack # <<>> /\ Top.pc # "settle"
  BY DEF BeforeSend, BeforeSendReturned, At
<1>2. Shape(s) /\ Top.i \in DOMAIN s.req /\ Free(s)
  BY <1>1, Standing
<1>3. "allowed" \in Pcs /\ "install" \in Pcs /\ "beforeSend" \in Roles
  BY DEF Pcs, Early, Roles
<1>4. CASE BeforeSend
  <2>1. Moves(s, s')
    BY <1>1, <1>2, <1>3, <1>4, EventMoves DEF BeforeSend
  <2>. QED  BY <1>2, <2>1, MovesKeeps
<1>5. CASE BeforeSendReturned
  <2>1. CASE s' = AbortRequest(Pop(s), Top.i)
    <3>1. Moves(s, Pop(s))
      BY <1>1, <1>2, PopMoves
    <3>2. OwnInv(Pop(s)) /\ Free(Pop(s)) /\ Shape(Pop(s)) /\ Top.i \in DOMAIN Pop(s).req
      BY <1>2, <3>1, MovesKeeps, MovesShape
    <3>. QED  BY <2>1, <3>2, AbortOwns
  <2>2. CASE s' = Goto(s, "install")
    <3>1. Moves(s, s')
      BY <1>1, <1>2, <1>3, <2>2, GotoMoves
    <3>. QED  BY <1>2, <3>1, MovesKeeps
  <2>. QED  BY <1>5, <2>1, <2>2 DEF BeforeSendReturned
<1>. QED  BY <1>4, <1>5

LEMMA SendOwns ==
  ASSUME RequestsInv, OwnInv(s), Send
  PROVE  OwnInv(s')
<1>1. s.stack # <<>> /\ Top.pc # "settle"
  BY DEF Send, At
<1>2. Shape(s) /\ Top.i \in DOMAIN s.req /\ Free(s)
  BY <1>1, Standing
<1>. DEFINE i == Top.i
            p == Pop(s)
            o == s.req[i].o
            x == o.timeout /\ o.async
            m == [p EXCEPT !.req[i].completed = "no", !.req[i].timer = x]
            n == [m EXCEPT !.req[i].listening = TRUE, !.req[i].loading = ByScript(o)]
            h == [at |-> "native", i |-> i, role |-> "none", pc |-> "none"]
<1>3. Moves(s, p)
  BY <1>1, <1>2, PopMoves
<1>4. \/ s' = p
      \/ /\ s.req[i].completed # "yes"
         /\ \/ s' = n
            \/ \E a \in Answers : s' = Done(Push(m, h), i, a)
            \/ s' = Done(m, i, NoAnswer)
  BY DEF Send
<1>5. Shape(p) /\ i \in DOMAIN p.req
  BY <1>2, <1>3, MovesShape
<1>6. s.req[i].completed # "yes" => p.req[i].completed # "yes"
  BY <1>2, <1>3 DEF Moves, KeptReq
<1>. HIDE DEF p, x
<1>7. CASE s' = p
  BY <1>2, <1>3, <1>7, MovesKeeps
<1>8. CASE s.req[i].completed # "yes"
  <2>1. Moves(p, m)
    BY <1>5, <1>6, <1>8, AwayMoves, Zenon
  <2>2. Moves(s, m)
    BY <1>3, <2>1, MovesOn
  <2>3. Shape(m) /\ i \in DOMAIN m.req /\ OwnInv(m) /\ Free(m) /\ m.req[i].o = o
    BY <1>2, <2>2, MovesKeeps, MovesShape, Zenon DEF Moves, KeptReq
  <2>. HIDE DEF m, o
  <2>4. CASE s' = n
    <3>1. Moves(m, n)
      BY <2>3, AwaitedMoves, Zenon
    <3>. QED  BY <2>3, <2>4, <3>1, MovesKeeps
  <2>5. ASSUME NEW a \in Answers, s' = Done(Push(m, h), i, a)
        PROVE  OwnInv(s')
    <3>1. h \in Frame /\ h.pc # "settle"
      BY <1>2 DEF Frame, Roles, Pcs, Shape
    <3>. HIDE DEF h
    <3>2. Moves(m, Push(m, h))
      BY <2>3, <3>1, PushMoves
    <3>. DEFINE k == Push(m, h)
    <3>3. OwnInv(k) /\ Free(k) /\ Shape(k) /\ i \in DOMAIN k.req
      BY <2>3, <3>2, MovesKeeps, MovesShape
    <3>4. a.body \in Bodies /\ a.body # "none"
      BY AjaxAssumption DEF Bodies
    <3>. HIDE DEF k
    <3>5. OwnInv(Done(k, i, a))
      BY <3>3, <3>4, DoneOwns
    <3>. QED  BY <2>5, <3>5 DEF k
  <2>6. CASE s' = Done(m, i, NoAnswer)
    <3>1. NoAnswer.body \in Bodies /\ NoAnswer.status # 200
      BY DEF NoAnswer, Bodies
    <3>. QED  BY <2>3, <2>6, <3>1, DoneOwns
  <2>. QED  BY <1>4, <1>7, <2>4, <2>5, <2>6 DEF m, o, n
<1>. QED  BY <1>4, <1>7, <1>8

LEMMA EndOwns ==
  ASSUME RequestsInv, OwnInv(s), NativeEnd \/ Return
  PROVE  OwnInv(s')
<1>1. s.stack # <<>> /\ (NativeEnd => Top.at = "native") /\ (Return => Top.at = "user")
  BY DEF NativeEnd, Return, At
<1>2. Shape(s) /\ Top \in Frame /\ Top.i \in DOMAIN s.req
  BY <1>1, Standing
<1>3. Free(s)
  <2>1. Fits(s, Top)
    BY <1>1, <1>2 DEF RequestsInv, Inv, Mid, StackInv, Top, Shape
  <2>. QED  BY <1>1, <2>1, Standing DEF Fits
<1>4. Moves(s, Pop(s))
  BY <1>1, <1>2, PopMoves
<1>5. CASE s' = Pop(s)
  BY <1>2, <1>3, <1>4, <1>5, MovesKeeps
<1>6. CASE Return /\ Top.role = "beforeSend" /\ s' = Goto(Pop(s), "vetoed")
  <2>1. Pop(s).stack # <<>>
    <3>1. AskInv(s) /\ Asks(Top)
      BY <1>1, <1>6 DEF RequestsInv, Inv, Mid, StackInv, Asks
    <3>2. /\ s.stack \in Seq(Frame) /\ Len(s.stack) \in DOMAIN s.stack
          /\ Pop(s).stack = SubSeq(s.stack, 1, Len(s.stack) - 1)
      BY <1>1, <1>2 DEF Shape, Pop, Parts
    <3>3. Len(s.stack) > 1
      BY <3>1, <3>2 DEF AskInv, Top
    <3>4. Len(Pop(s).stack) = Len(s.stack) - 1
      BY <3>2
    <3>. QED  BY <3>3, <3>4
  <2>2. Shape(Pop(s))
    BY <1>4, MovesShape
  <2>3. Moves(Pop(s), Goto(Pop(s), "vetoed"))
    BY <2>1, <2>2, GotoMoves DEF Pcs, Early
  <2>4. Moves(s, s')
    BY <1>4, <1>6, <2>3, MovesOn
  <2>. QED  BY <1>2, <1>3, <2>4, MovesKeeps
<1>. QED  BY <1>5, <1>6 DEF NativeEnd, Return

(* Nothing is about to be settled when user code throws, and nothing is when
   part of the stack is gone. *)
LEMMA ThrowOwns ==
  ASSUME RequestsInv, OwnInv(s), Throw
  PROVE  OwnInv(s')
<1>1. s.stack # <<>> /\ Top.at = "user"
  BY DEF Throw, At
<1>2. Shape(s) /\ Top.i \in DOMAIN s.req
  BY <1>1, Standing
<1>3. Free(s)
  <2>1. Fits(s, Top)
    BY <1>1, <1>2 DEF RequestsInv, Inv, Mid, StackInv, Top, Shape
  <2>. QED  BY <1>1, <2>1, Standing DEF Fits
<1>. DEFINE below == {k \in DOMAIN s.stack : s.stack[k].at = "native"}
            last == CHOOSE k \in below : \A j \in below : j <= k
            q == IF below = {} THEN <<>> ELSE SubSeq(s.stack, 1, last)
            m == [s EXCEPT !.threw = TRUE]
            u == [m EXCEPT !.stack = q]
<1>4. s' = u
  <2>1. s' = [s EXCEPT !.threw = TRUE,
                       !.stack = IF below = {} THEN <<>> ELSE SubSeq(@, 1, last)]
    BY DEF Throw
  <2>. QED  BY <1>2, <2>1 DEF Shape, Parts
<1>5. q \in Seq(Frame) /\ \A k \in DOMAIN q : k \in DOMAIN s.stack /\ q[k] = s.stack[k]
  <2>0. s.stack \in Seq(Frame)
    BY <1>2 DEF Shape
  <2>1. CASE below = {}
    BY <2>1
  <2>2. CASE below # {}
    <3>1. \E k \in below : \A j \in below : j <= k
      <4>1. below \subseteq 1..Len(s.stack) /\ Len(s.stack) \in Nat
        BY <2>0
      <4>. HIDE DEF below
      <4>. QED  BY <2>2, <4>1, LastThere, Zenon
    <3>2. last \in DOMAIN s.stack
      BY <3>1
    <3>. HIDE DEF last, below
    <3>. QED  BY <2>0, <2>2, <3>2
  <2>. QED  BY <2>1, <2>2, Zenon
<1>. HIDE DEF q
<1>6. Moves(s, m)
  <2>1. m = [s EXCEPT !["threw"] = TRUE]
    OBVIOUS
  <2>. QED  BY <1>2, <2>1, PartMoves
<1>7. Shape(m) /\ m.stack = s.stack
  BY <1>2, <1>6, MovesShape DEF Shape, Parts
<1>. HIDE DEF m
<1>8. Moves(m, u)
  BY <1>5, <1>7, StackMoves
<1>9. Moves(s, s')
  BY <1>4, <1>6, <1>8, MovesOn
<1>. QED  BY <1>2, <1>3, <1>9, MovesKeeps

-----------------------------------------------------------------------------
(* Answers, timers and aborts. *)
LEMMA XhrEventOwns ==
  ASSUME RequestsInv, OwnInv(s), NEW i \in Ids, NEW a \in Answers \cup {NoAnswer},
         XhrEvent(i, a)
  PROVE  OwnInv(s')
<1>. DEFINE m == [s EXCEPT !.req[i].listening = FALSE]
<1>1. Quiet /\ s' = Done(m, i, a)
  BY DEF XhrEvent
<1>2. Shape(s) /\ Free(s)
  BY <1>1, Idle
<1>3. m = [s EXCEPT !.req[i]["listening"] = FALSE] /\ i \in DOMAIN s.req
  BY Zenon DEF Ids
<1>. HIDE DEF m
<1>4. Moves(s, m)
  BY <1>2, <1>3, FieldMoves, Zenon
<1>5. OwnInv(m) /\ Free(m) /\ Shape(m) /\ i \in DOMAIN m.req
  BY <1>2, <1>3, <1>4, MovesKeeps, MovesShape
<1>6. a.body \in Bodies /\ (a.body # "none" \/ a.status # 200)
  BY AjaxAssumption DEF Bodies, NoAnswer
<1>7. OwnInv(Done(m, i, a))
  BY <1>5, <1>6, DoneOwns
<1>. QED  BY <1>1, <1>7

LEMMA ScriptFailsOwns ==
  ASSUME RequestsInv, OwnInv(s), NEW i \in Ids, ScriptFails(i)
  PROVE  OwnInv(s')
<1>. DEFINE m == [s EXCEPT !.req[i].loading = FALSE, !.req[i].listening = FALSE]
            a == [NoAnswer EXCEPT !.status = 404]
<1>1. Quiet /\ s' = IF s.req[i].listening THEN Done(m, i, a) ELSE m
  BY DEF ScriptFails
<1>2. Shape(s) /\ Free(s) /\ i \in DOMAIN s.req
  BY <1>1, Idle DEF Ids
<1>3. Moves(s, m)
  BY <1>2, UnloadMoves, Zenon
<1>4. a.body \in Bodies /\ a.status # 200
  BY DEF Bodies, NoAnswer
<1>. HIDE DEF m, a
<1>5. OwnInv(m) /\ Free(m) /\ Shape(m) /\ i \in DOMAIN m.req
  BY <1>2, <1>3, MovesKeeps, MovesShape
<1>6. OwnInv(Done(m, i, a))
  BY <1>4, <1>5, DoneOwns
<1>. QED  BY <1>1, <1>5, <1>6

LEMMA ScriptLoadsOwns ==
  ASSUME RequestsInv, OwnInv(s), NEW i \in Ids, NEW calling \in BOOLEAN,
         ScriptLoads(i, calling)
  PROVE  OwnInv(s')
<1>. DEFINE a == [NoAnswer EXCEPT !.status = 200, !.calls = calling]
            r == RunScript(s, i, a)
            m == [r EXCEPT !.req[i].loading = FALSE, !.req[i].listening = FALSE]
<1>1. Quiet /\ s.req[i].loading /\ s' = IF s.req[i].listening THEN Done(m, i, a) ELSE m
  BY DEF ScriptLoads
<1>2. Shape(s) /\ Free(s) /\ i \in DOMAIN s.req
  BY <1>1, Idle DEF Ids
<1>3. a.body \in Bodies
  BY DEF NoAnswer, Bodies
<1>. HIDE DEF a
<1>4. s.req[i].o.dataType \in {"script", "jsonp"}
  <2>1. ByScript(s.req[i].o) /\ s.req[i].o \in Options
    BY <1>1, <1>2 DEF OwnInv, Known
  <2>2. Head(DataTypes(s.req[i].o)) = "script"
    BY <2>1 DEF ByScript
  <2>3. CASE s.req[i].o.dataType = "jsonp"
    BY <2>3
  <2>4. CASE s.req[i].o.dataType # "jsonp"
    <3>1. DataTypes(s.req[i].o) = <<s.req[i].o.dataType>>
      BY <2>4 DEF DataTypes
    <3>. QED  BY <2>2, <3>1, OneLong, Zenon
  <2>. QED  BY <2>3, <2>4
<1>5. Ran(s, r, i)
  BY <1>2, RunScriptRan
<1>6. OwnInv(r) /\ Free(r) /\ Shape(r) /\ i \in DOMAIN r.req
  BY <1>2, <1>4, <1>5, RanKeeps, Zenon DEF Ran
<1>7. s.req[i].listening /\ Jsonp(s.req[i]) => r.silent \/ r.req[i].container = i
  <2>. SUFFICES ASSUME s.req[i].listening, Jsonp(s.req[i])
       PROVE  r.silent \/ r.req[i].container = i
    OBVIOUS
  <2>1. s.req[i].completed = "no"
    BY <1>2 DEF RequestsInv, Inv, Mid, ReqInv, Timed
  <2>2. i \in Lives(s) /\ i # None
    BY <1>2, <2>1 DEF Lives, Live, Shape, None
  <2>3. s.window[s.req[i].name] = i
    BY <2>2 DEF OwnInv, NamesOK
  <2>. QED  BY <1>2, <2>2, <2>3, RunScriptRan
<1>8. s.req[i].o = r.req[i].o
  BY <1>2, <1>5, RanSame DEF Same
<1>. HIDE DEF r
<1>9. Moves(r, m)
  BY <1>6, UnloadMoves, Zenon
<1>10. m.req[i].container = r.req[i].container /\ m.silent = r.silent /\ m.req[i].o = r.req[i].o
  BY <1>6 DEF Shape, Parts, Fields
<1>. HIDE DEF m
<1>11. OwnInv(m) /\ Free(m) /\ Shape(m) /\ i \in DOMAIN m.req
  BY <1>6, <1>9, MovesKeeps, MovesShape
<1>12. s.req[i].listening => OwnInv(Done(m, i, a))
  BY <1>3, <1>7, <1>8, <1>10, <1>11, DoneOwns DEF Jsonp
<1>. QED  BY <1>1, <1>11, <1>12

LEMMA TimeoutOwns ==
  ASSUME RequestsInv, OwnInv(s), NEW i \in Ids, Timeout(i)
  PROVE  OwnInv(s')
<1>. DEFINE m == [s EXCEPT !.req[i].timer = FALSE]
<1>1. Quiet /\ s' = AbortRequest(m, i)
  BY DEF Timeout
<1>2. Shape(s) /\ Free(s)
  BY <1>1, Idle
<1>3. m = [s EXCEPT !.req[i]["timer"] = FALSE] /\ i \in DOMAIN s.req
  BY Zenon DEF Ids
<1>. HIDE DEF m
<1>4. Moves(s, m)
  BY <1>2, <1>3, FieldMoves, Zenon
<1>5. OwnInv(m) /\ Free(m) /\ Shape(m) /\ i \in DOMAIN m.req
  BY <1>2, <1>3, <1>4, MovesKeeps, MovesShape
<1>. QED  BY <1>1, <1>5, AbortOwns

LEMMA Calling ==
  ASSUME RequestsInv, Call
  PROVE  Shape(s) /\ Free(s)
<1>1. Page(s) /\ Inv(s)
  BY DEF RequestsInv
<1>2. s.stack = <<>> \/ s.stack[Len(s.stack)].at = "user"
  BY DEF Call, Quiet, At, Top
<1>. QED  BY <1>1, <1>2, FreeCall, PageShape

LEMMA CallAbortOwns ==
  ASSUME RequestsInv, OwnInv(s), NEW i \in Ids, Abort(i)
  PROVE  OwnInv(s')
<1>1. Call /\ s' = AbortRequest(s, i) /\ i \in DOMAIN s.req
  BY DEF Abort, Ids
<1>. QED  BY <1>1, Calling, AbortOwns

(* A request that is settled gives its name back. *)
LEMMA SettleOwns ==
  ASSUME RequestsInv, OwnInv(s), Settle
  PROVE  OwnInv(s')
<1>1. s.stack # <<>> /\ Top.at = "done" /\ Top.pc = "settle"
  BY DEF Settle, At
<1>2. Shape(s) /\ Top \in Frame /\ Top.i \in DOMAIN s.req
  BY <1>1, Standing
<1>. DEFINE i == Top.i
            n == Len(s.stack)
            c == CleanUp(s, i)
            m == Goto(c, "global")
            x == Outcome(s, i)
<1>3. s' = IF s.req[i].installed THEN Tell(m, i, x) ELSE m
  BY DEF Settle
<1>4. /\ n \in DOMAIN s.stack /\ s.stack \in Seq(Frame) /\ DOMAIN s.stack = 1..n
      /\ \A k \in DOMAIN s.stack : s.stack[k].pc = "settle" => k = n
      /\ s.req[i].completed = "yes"
  <2>1. n \in DOMAIN s.stack /\ s.stack \in Seq(Frame) /\ DOMAIN s.stack = 1..n
    BY <1>1, <1>2 DEF Shape
  <2>2. StackInv(s)
    BY DEF RequestsInv, Inv, Mid
  <2>3. Fits(s, Top)
    BY <2>1, <2>2 DEF StackInv, Top
  <2>. QED  BY <1>1, <2>1, <2>2, <2>3 DEF StackInv, Fits, DoneFits
<1>5. /\ DOMAIN c = Parts /\ DOMAIN c.req = DOMAIN s.req /\ c.stack = s.stack
      /\ c.silent = s.silent
      /\ \A j \in DOMAIN s.req : c.req[j] = s.req[j] \/ c.req[j] = [s.req[j] EXCEPT !.container = None]
  BY <1>2, Zenon DEF CleanUp, Shape, Parts
<1>6. \A j \in DOMAIN s.req : DOMAIN c.req[j] = Fields /\ Same(s.req[j], c.req[j])
                              /\ c.req[j].evaluated = s.req[j].evaluated
  <2>1. \A j \in DOMAIN s.req : DOMAIN s.req[j] = Fields
    BY <1>2 DEF Shape
  <2>. QED  BY <1>5, <2>1, ZenonT(30) DEF Same, Fields
<1>7. Len(c.req) = Len(s.req)
  BY <1>2, <1>5, Reshaped
<1>8. Shape(c)
  BY <1>2, <1>5, <1>6, <1>7 DEF Shape
<1>9. NamesOK(c, Lives(s) \ {i})
  <2>1. NamesOK(s, Lives(s)) /\ Lives(s) \subseteq DOMAIN s.req
    BY DEF OwnInv, Lives
  <2>2. CASE Jsonp(s.req[i])
    <3>1. i \in Lives(s)
      BY <1>1, <1>2, <1>4, <2>2 DEF Lives, Live, Settling, DoneOf, Top
    <3>2. Len(s.req) <= MaxRequests /\ DOMAIN s.window = 1..MaxRequests
      BY DEF RequestsInv, Page
    <3>. QED  BY <1>2, <2>1, <2>2, <3>1, <3>2, CleanUpNames
  <2>3. CASE ~Jsonp(s.req[i])
    <3>1. c = s /\ i \notin Lives(s)
      BY <2>3 DEF CleanUp, Lives, Live
    <3>. QED  BY <2>1, <3>1
  <2>. QED  BY <2>2, <2>3
<1>. HIDE DEF c
<1>. DEFINE f == s.stack[n]
            g == [f EXCEPT !.pc = "global"]
            q == [s.stack EXCEPT ![n] = g]
<1>10. /\ DOMAIN m = Parts /\ m.req = c.req /\ m.window = c.window /\ m.old = c.old
       /\ m.made = c.made /\ m.silent = c.silent /\ m.stack = q
  BY <1>5 DEF Goto, Parts
<1>11. q \in Seq(Frame) /\ \A k \in DOMAIN q : q[k].pc # "settle"
  <2>1. f \in Frame
    BY <1>4
  <2>2. g \in Frame /\ g.pc # "settle"
    BY <2>1 DEF Frame, Pcs, Unheard
  <2>. HIDE DEF g, f
  <2>3. /\ q \in Seq(Frame) /\ DOMAIN q = DOMAIN s.stack /\ q[n] = g
        /\ \A k \in DOMAIN s.stack : k # n => q[k] = s.stack[k]
    BY <1>4, <2>2
  <2>. QED  BY <1>4, <2>2, <2>3
<1>. HIDE DEF m, q
<1>12. Shape(m) /\ Free(m)
  BY <1>8, <1>10, <1>11 DEF Shape, Free
<1>13. Lives(m) = Lives(s) \ {i}
  <2>1. \A j \in DOMAIN s.req : Live(m, j) <=> Jsonp(s.req[j]) /\ s.req[j].completed # "yes"
    BY <1>6, <1>10, <1>12, FreeLives DEF Same, Jsonp
  <2>2. \A j \in DOMAIN s.req \ {i} : ~Settling(s, j)
    BY <1>4 DEF Settling, DoneOf, Top
  <2>3. \A j \in DOMAIN s.req \ {i} : Live(m, j) <=> Live(s, j)
    BY <2>1, <2>2 DEF Live
  <2>4. ~Live(m, i)
    BY <1>2, <1>4, <2>1
  <2>. QED  BY <1>5, <1>10, <2>3, <2>4 DEF Lives
<1>14. OwnInv(m)
  <2>1. NamesOK(m, Lives(m))
    <3>1. \A j \in DOMAIN c.req : m.req[j].name = c.req[j].name
      BY <1>10
    <3>2. Lives(s) \ {i} \subseteq DOMAIN c.req
      BY <1>5 DEF Lives
    <3>. QED  BY <1>9, <1>10, <1>13, <3>1, <3>2, NamesSame
  <2>2. ASSUME NEW j \in DOMAIN m.req
        PROVE  Known(m, j)
    <3>1. j \in DOMAIN s.req /\ m.req[j] = c.req[j] /\ m.silent = s.silent
      BY <1>5, <1>10
    <3>2. Known(s, j) /\ Same(s.req[j], m.req[j]) /\ m.req[j].evaluated = s.req[j].evaluated
      BY <1>6, <3>1 DEF OwnInv
    <3>. QED  BY <3>1, <3>2 DEF Known, Same, Jsonp
  <2>. QED  BY <2>1, <2>2 DEF OwnInv
<1>15. Moves(m, s')
  <2>1. i \in DOMAIN m.req /\ x \in Tidings
    BY <1>2, <1>5, <1>10, OutcomeTold
  <2>2. Moves(m, m) /\ Moves(m, Tell(m, i, x))
    BY <1>12, <2>1, MovesNone, TellMoves
  <2>. QED  BY <1>3, <2>2
<1>. QED  BY <1>12, <1>14, <1>15, MovesKeeps

(* A request that is new takes a name that is free. *)
LEMMA StartOwns ==
  ASSUME RequestsInv, OwnInv(s), NEW o \in Options, Start(o)
  PROVE  OwnInv(s')
<1>. DEFINE i == Len(s.req) + 1
            z == NewRequest(o)
            t == [s EXCEPT !.req = Append(@, z)]
            v == Install(t, i)
            h == [at |-> "ajax", i |-> i, role |-> "none", pc |-> "prefiltered"]
            w == Push(v, h)
<1>1. Call /\ Len(s.req) < MaxRequests /\ s' = User(w, i, "prefilter")
  BY DEF Start
<1>2. Shape(s) /\ Free(s) /\ Page(s)
  BY <1>1, Calling DEF RequestsInv
<1>3. /\ DOMAIN z = Fields /\ z.o = o /\ z.completed = "null" /\ z.success = FALSE
      /\ z.evaluated = FALSE /\ z.loading = FALSE
  BY DEF NewRequest, Fields
<1>. HIDE DEF z
<1>4. /\ DOMAIN t = Parts /\ t.req = Append(s.req, z) /\ t.stack = s.stack
      /\ t.window = s.window /\ t.old = s.old /\ t.made = s.made /\ t.silent = s.silent
  BY <1>2 DEF Shape, Parts
<1>5. /\ Len(s.req) \in Nat /\ DOMAIN s.req = 1..Len(s.req) /\ i \in Nat \ {0}
      /\ MaxRequests \in Nat /\ i <= MaxRequests /\ i \notin DOMAIN s.req
  BY <1>1, <1>2, AjaxAssumption DEF Shape
<1>. HIDE DEF t
<1>6. /\ Len(t.req) = i /\ DOMAIN t.req = 1..i /\ t.req[i] = z
      /\ \A j \in DOMAIN s.req : t.req[j] = s.req[j]
  <2>1. PICK D : s.req \in Seq(D)
    BY <1>2 DEF Page
  <2>2. s.req \in Seq(D \cup {z}) /\ z \in D \cup {z}
    BY <2>1
  <2>. QED  BY <1>4, <2>2, AppendProperties
<1>. HIDE DEF i
<1>7. \A j \in DOMAIN t.req : j = i \/ j \in DOMAIN s.req
  BY <1>5, <1>6 DEF i
<1>7a. DOMAIN s.req \subseteq DOMAIN t.req /\ i \in DOMAIN t.req
  BY <1>5, <1>6 DEF i
<1>8. Shape(t)
  BY <1>2, <1>3, <1>4, <1>5, <1>6, <1>7 DEF Shape
<1>. DEFINE L == Lives(s)
<1>9. L \subseteq DOMAIN s.req /\ NamesOK(s, L) /\ i \notin L
  BY <1>5 DEF Lives, OwnInv
<1>10. NamesOK(t, L)
  <2>1. /\ t.made \in Nat /\ t.made <= Len(t.req) /\ t.old \in Seq(1..t.made)
        /\ \A k, l \in DOMAIN t.old : t.old[k] = t.old[l] => k = l
    <3>1. s.made \in Nat /\ s.made <= Len(s.req)
      BY <1>9 DEF NamesOK
    <3>2. t.made <= Len(t.req)
      BY <1>4, <1>5, <1>6, <3>1 DEF i
    <3>. QED  BY <1>4, <1>9, <3>1, <3>2 DEF NamesOK
  <2>2. \A k \in 1..t.made : t.window[k] = None <=> \E l \in DOMAIN t.old : t.old[l] = k
    BY <1>4, <1>9 DEF NamesOK
  <2>3. ASSUME NEW k \in 1..t.made, t.window[k] # None
        PROVE  t.window[k] \in L /\ t.req[t.window[k]].name = k
    <3>1. s.window[k] \in L /\ s.req[s.window[k]].name = k
      BY <1>4, <1>9, <2>3 DEF NamesOK
    <3>. QED  BY <1>4, <1>6, <1>9, <3>1
  <2>4. ASSUME NEW j \in L
        PROVE  t.req[j].name \in 1..t.made /\ t.window[t.req[j].name] = j
    <3>1. s.req[j].name \in 1..s.made /\ s.window[s.req[j].name] = j
      BY <1>9 DEF NamesOK
    <3>. QED  BY <1>4, <1>6, <1>9, <3>1
  <2>. QED  BY <2>1, <2>2, <2>3, <2>4 DEF NamesOK
<1>11. s.made < Len(t.req)
  <2>1. s.made \in Nat /\ s.made <= Len(s.req)
    BY <1>9 DEF NamesOK
  <2>. QED  BY <1>5, <1>6, <2>1 DEF i
<1>. DEFINE M == IF Jsonp(t.req[i]) THEN L \cup {i} ELSE L
<1>12. NamesOK(v, M)
  <2>1. CASE Jsonp(t.req[i])
    <3>1. Len(t.req) <= MaxRequests /\ DOMAIN t.window = 1..MaxRequests
      BY <1>2, <1>4, <1>5, <1>6 DEF Page
    <3>2. L \subseteq DOMAIN t.req
      BY <1>7a, <1>9
    <3>3. CASE t.old # <<>>
      BY <1>7a, <1>8, <1>9, <1>10, <2>1, <3>1, <3>2, <3>3, OldName
    <3>4. CASE t.old = <<>>
      BY <1>4, <1>7a, <1>8, <1>9, <1>10, <1>11, <2>1, <3>1, <3>2, <3>4, NewName, Zenon
    <3>. QED  BY <3>3, <3>4
  <2>2. CASE ~Jsonp(t.req[i])
    BY <1>10, <2>2 DEF Install
  <2>. QED  BY <2>1, <2>2
<1>13. /\ DOMAIN v = Parts /\ DOMAIN v.req = DOMAIN t.req /\ v.stack = t.stack
       /\ v.silent = t.silent
       /\ \A j \in DOMAIN t.req \ {i} : v.req[j] = t.req[j]
       /\ \E n : v.req[i] = t.req[i] \/ v.req[i] = [t.req[i] EXCEPT !.name = n]
  BY <1>4, <1>7a, Zenon DEF Install, Parts
<1>14. /\ DOMAIN v.req[i] = Fields /\ v.req[i].o = o /\ v.req[i].completed = "null"
       /\ v.req[i].success = FALSE /\ v.req[i].evaluated = FALSE /\ v.req[i].loading = FALSE
  BY <1>3, <1>6, <1>13 DEF Fields
<1>15. Len(v.req) = Len(t.req)
  BY <1>8, <1>13, Reshaped
<1>. HIDE DEF v
<1>16. Shape(v) /\ Free(v)
  BY <1>2, <1>4, <1>7, <1>8, <1>13, <1>14, <1>15 DEF Shape, Free
<1>17. Lives(v) = M
  <2>1. \A j \in DOMAIN s.req : v.req[j] = s.req[j]
    BY <1>5, <1>6, <1>7a, <1>13
  <2>2. \A j \in DOMAIN s.req : Live(v, j) <=> Live(s, j)
    BY <1>2, <1>16, <2>1, FreeLives
  <2>3. Live(v, i) <=> Jsonp(t.req[i])
    BY <1>3, <1>6, <1>14, <1>16, FreeLives DEF Jsonp
  <2>. QED  BY <1>7, <1>7a, <1>13, <2>2, <2>3 DEF Lives
<1>18. OwnInv(v)
  <2>1. Known(v, i)
    BY <1>14 DEF Known, Jsonp
  <2>2. ASSUME NEW j \in DOMAIN s.req
        PROVE  Known(v, j)
    <3>1. v.req[j] = s.req[j] /\ v.silent = s.silent
      BY <1>4, <1>5, <1>6, <1>7a, <1>13
    <3>. QED  BY <3>1 DEF OwnInv, Known, Jsonp
  <2>. QED  BY <1>7, <1>12, <1>13, <1>17, <2>1, <2>2 DEF OwnInv
<1>19. Moves(v, w) /\ Shape(w) /\ i \in DOMAIN w.req
  <2>1. h \in Frame /\ h.pc # "settle"
    BY <1>5 DEF Frame, Roles, Pcs, Early
  <2>. HIDE DEF h
  <2>. QED  BY <1>7a, <1>13, <1>16, <2>1, PushMoves, MovesShape
<1>. HIDE DEF w
<1>20. Moves(w, User(w, i, "prefilter"))
  BY <1>19, UserMoves DEF Roles
<1>21. Moves(v, s')
  BY <1>1, <1>19, <1>20, MovesOn DEF i
<1>. QED  BY <1>16, <1>18, <1>21, MovesKeeps

-----------------------------------------------------------------------------
(* Every name is free or one live request's, and what is known of a request is
   so, whatever is called, answered or thrown. *)
NamesAndDataInv == OwnInv(s)

LEMMA OwnInit == Init => NamesAndDataInv
<1>. SUFFICES ASSUME Init  PROVE OwnInv(s)
  BY DEF NamesAndDataInv
<1>1. s.req = <<>> /\ s.made = 0 /\ s.old = <<>>
  BY DEF Init
<1>2. DOMAIN s.req = {} /\ Len(s.req) = 0 /\ DOMAIN s.old = {} /\ s.old \in Seq(1..s.made)
  BY <1>1
<1>3. Lives(s) = {}
  BY <1>2 DEF Lives
<1>4. \A n \in 1..s.made : FALSE
  BY <1>1
<1>. QED  BY <1>1, <1>2, <1>3, <1>4 DEF OwnInv, NamesOK

LEMMA OwnNext == RequestsInv /\ NamesAndDataInv /\ [Next]_vars => NamesAndDataInv'
<1>. SUFFICES ASSUME RequestsInv, OwnInv(s), [Next]_vars
     PROVE  OwnInv(s')
  BY DEF NamesAndDataInv
<1>1. CASE UNCHANGED vars
  BY <1>1 DEF vars
<1>2. CASE UserCall
  BY <1>2, StartOwns, CallAbortOwns DEF UserCall
<1>3. CASE Network
  BY <1>3, XhrEventOwns, ScriptLoadsOwns, ScriptFailsOwns DEF Network
<1>4. CASE Running
  BY <1>4, CountInOwns, BeforeSendOwns, InstallCallbacksOwns, InstallOthersOwns,
     SendEventOwns, SendOwns, EndOwns,
     SettleOwns, GlobalEventOwns, CompleteOwns, CountOutOwns DEF Running
<1>5. CASE Return \/ Throw
  BY <1>5, EndOwns, ThrowOwns
<1>6. CASE \E i \in Ids : Timeout(i)
  BY <1>6, TimeoutOwns
<1>. QED  BY <1>1, <1>2, <1>3, <1>4, <1>5, <1>6 DEF Next

THEOREM NamesAndDataInvariant == Spec => []NamesAndDataInv
<1>1. RequestsInv /\ RequestsInv' /\ NamesAndDataInv /\ [Next]_vars => NamesAndDataInv'
  BY OwnNext
<1>. QED  BY OwnInit, <1>1, RequestsInvariant, PTL DEF Spec

LEMMA OwnersOf ==
  ASSUME RequestsInv, OwnInv(s), NEW n \in 1..s.made
  PROVE  LET owners == {i \in Ids : s.req[i].name = n /\ s.window[n] = i}
             free == {k \in DOMAIN s.old : s.old[k] = n}
         IN /\ Cardinality(owners) + Cardinality(free) = 1
            /\ \A i \in owners : i \in Lives(s)
<1>. DEFINE owners == {i \in Ids : s.req[i].name = n /\ s.window[n] = i}
            free == {k \in DOMAIN s.old : s.old[k] = n}
<1>0. \A x : Cardinality({x}) = 1
  BY FS_Singleton, Zenon
<1>00. Cardinality({}) = 0
  BY FS_EmptySet
<1>1. CASE s.window[n] = None
  <2>1. 0 \notin Ids
    BY PageShape DEF RequestsInv, Shape, Ids
  <2>2. owners = {}
    BY <1>1, <2>1 DEF None
  <2>3. PICK k \in DOMAIN s.old : s.old[k] = n
    BY <1>1 DEF OwnInv, NamesOK
  <2>4. free = {k}
    BY <2>3 DEF OwnInv, NamesOK
  <2>. HIDE DEF owners, free
  <2>5. Cardinality(owners) = 0 /\ Cardinality(free) = 1
    BY <1>0, <1>00, <2>2, <2>4
  <2>. QED  BY <2>2, <2>5 DEF owners, free
<1>2. CASE s.window[n] # None
  <2>1. free = {}
    BY <1>2 DEF OwnInv, NamesOK
  <2>2. s.window[n] \in Lives(s) /\ s.req[s.window[n]].name = n
    BY <1>2 DEF OwnInv, NamesOK
  <2>3. owners = {s.window[n]}
    BY <2>2 DEF Lives, Ids
  <2>. HIDE DEF owners, free
  <2>5. Cardinality(owners) = 1 /\ Cardinality(free) = 0
    BY <1>0, <1>00, <2>1, <2>3, Zenon
  <2>. QED  BY <2>2, <2>3, <2>5 DEF owners, free
<1>. QED  BY <1>1, <1>2

(* When no script runs and none threw, a live request is on its way. *)
LEMMA LiveIsSent ==
  ASSUME RequestsInv, Quiet, ~s.threw, NEW i \in Lives(s)
  PROVE  s.req[i].completed = "no"
<1>1. Shape(s) /\ Free(s) /\ i \in DOMAIN s.req
  BY Idle DEF Lives
<1>2. s.req[i].completed # "yes"
  BY <1>1, FreeLives DEF Lives
<1>3. AjaxOf(s, i) = {}
  BY DEF AjaxOf, Quiet
<1>4. Begun(s, i) /\ Request(s.req[i])
  BY <1>1 DEF RequestsInv, Inv, Page
<1>. QED  BY <1>2, <1>3, <1>4 DEF Begun, Request

(* A JSONP name is free or belongs to one request that is not settled, whose
   function it calls, for any number of requests; and what a request succeeds
   with is its own unless a script did not call back. *)
THEOREM AlwaysJsonpOwnData == Spec => []JsonpOwnData
<1>1. RequestsInv /\ NamesAndDataInv => JsonpOwnData
  <2>. SUFFICES ASSUME RequestsInv, OwnInv(s)
       PROVE  JsonpOwnData
    BY DEF NamesAndDataInv
  <2>. DEFINE owners(n) == {i \in Ids : s.req[i].name = n /\ s.window[n] = i}
              free(n) == Cardinality({k \in DOMAIN s.old : s.old[k] = n})
  <2>1. ASSUME NEW n \in 1..s.made
        PROVE  /\ Cardinality(owners(n)) + free(n) = 1
               /\ Quiet /\ ~s.threw => \A i \in owners(n) : s.req[i].completed = "no"
    <3>1. Cardinality(owners(n)) + free(n) = 1 /\ \A i \in owners(n) : i \in Lives(s)
      BY OwnersOf
    <3>. HIDE DEF owners, free
    <3>. QED  BY <3>1, LiveIsSent
  <2>2. s.silent \/ \A i \in Ids :
          Jsonp(s.req[i]) /\ s.req[i].success => s.req[i].data \in {i, None}
    BY DEF OwnInv, Known, Ids
  <2>. HIDE DEF owners, free
  <2>. QED  BY <2>1, <2>2 DEF JsonpOwnData, owners, free
<1>. QED  BY <1>1, RequestsInvariant, NamesAndDataInvariant, PTL

(* A success has the type that was asked for and a script of another domain
   runs only if a script was asked for, whatever a server sends. *)
THEOREM AlwaysTypeAsAsked == Spec => []TypeAsAsked
<1>1. NamesAndDataInv => TypeAsAsked
  BY DEF NamesAndDataInv, OwnInv, Known, TypeAsAsked, Ids
<1>. QED  BY <1>1, NamesAndDataInvariant, PTL
=============================================================================
