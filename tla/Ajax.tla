-------------------------------- MODULE Ajax --------------------------------
(***************************************************************************)
(* jQuery.ajax: requests from the call to the last callback, the XHR and   *)
(* the script transport, JSONP, and the global events ajaxStart ... Stop.  *)
(*                                                                         *)
(* ajax() and done() call user code in the middle: prefilters, beforeSend, *)
(* listeners of the global events and callbacks.  Each is a frame of       *)
(* `stack', which user code may push more onto by starting and aborting    *)
(* requests, or cut off by throwing.  Answers and timers come in when no   *)
(* script runs.  The server and the browser are external.                  *)
(***************************************************************************)
EXTENDS Integers, Sequences, FiniteSets

CONSTANTS
  Options,      \* [dataType, cross, global, timeout, async, before]
  Answers,      \* what a server sends: [status, ct, body, valid, calls]
  MaxRequests,  \* bound: requests started
  MaxCalls      \* bound: calls made by user code

DataTypeNames == {"*", "json", "jsonp", "script"}

ASSUME AjaxAssumption ==
  /\ \A o \in Options : o.dataType \in DataTypeNames
  /\ \A a \in Answers : a.body \in {"text", "binary"}
  /\ MaxRequests \in Nat /\ MaxCalls \in Nat

VARIABLES
  s,            \* the state of the page, see Init
  calls         \* calls made so far, for the bound

vars == <<s, calls>>

None == 0

(* req: the requests, see NewRequest; active: jQuery.active; window: whose
   function a JSONP name calls; old: oldCallbacks; made: names made up so
   far.  busy is a page's indicator, shown on ajaxStart and hidden on
   ajaxStop.  Histories: threw, user code; silent, a script that was loaded
   without calling back. *)
Init ==
  /\ s = [req |-> <<>>, active |-> 0, window |-> [n \in 1..MaxRequests |-> None],
          old |-> <<>>, made |-> 0, busy |-> FALSE, stack |-> <<>>,
          threw |-> FALSE, silent |-> FALSE]
  /\ calls = 0

Ids == DOMAIN s.req
Push(t, f) == [t EXCEPT !.stack = Append(@, f)]
Pop(t) == [t EXCEPT !.stack = SubSeq(@, 1, Len(@) - 1)]
Top == s.stack[Len(s.stack)]
At(f) == s.stack # <<>> /\ Top.at = f
Quiet == s.stack = <<>>
Goto(t, pc) == [t EXCEPT !.stack[Len(t.stack)].pc = pc]
User(t, i, role) == Push(t, [at |-> "user", i |-> i, role |-> role, pc |-> "none"])
Last(q) == q[Len(q)]

(***************************************************************************)
(* Data types, converters and what becomes of a response.                  *)
(***************************************************************************)

(* The data types after the prefilters: that of JSONP makes json of it and
   has the prefilters of "script" go on. *)
DataTypes(o) ==
  CASE o.dataType = "jsonp" -> <<"script", "json">>
    [] OTHER -> <<o.dataType>>

(* The script transport is for other domains only; the rest is XHR's. *)
ByScript(o) == o.cross /\ Head(DataTypes(o)) = "script"

Converters(o) ==
  {<<"*", "text">>, <<"text", "html">>, <<"text", "json">>, <<"text", "xml">>,
   <<"text", "script">>}
  \cup (IF o.dataType = "jsonp" THEN {<<"script", "json">>} ELSE {})

(* Content types that are recognised: no script of another domain. *)
Contents(o) == {"xml", "html", "json"} \cup (IF o.cross THEN {} ELSE {"script"})

(* Variant: what has come is taken for what was asked for. *)
HandleTrusting(o, a) ==
  IF Head(DataTypes(o)) # "*" THEN DataTypes(o)
  ELSE IF a.ct \in Contents(o) THEN <<a.ct>> ELSE <<a.body>>

(* ajaxHandleResponses: the data types to go through, what has come first. *)
HandleResponses(o, a) ==
  LET rest == IF Head(DataTypes(o)) # "*" THEN DataTypes(o)
              ELSE IF a.ct \in Contents(o) THEN <<a.ct>> ELSE <<>>
  IN IF rest # <<>> /\ Head(rest) = a.body THEN rest ELSE <<a.body>> \o rest

(* One turn of ajaxConvert's loop: from the type reached to the next wanted,
   by a direct converter or through a third type; "none" when it cannot. *)
Extended(conv, chain, current) ==
  LET prev == Last(chain)
      From(x, y) == {<<x, y>>, <<"*", y>>} \cap conv # {}
      pairs == {c \in conv : c[2] = current /\ From(prev, c[1])}
  IN IF prev = "none" \/ current \in {"*", prev} THEN chain
     ELSE IF prev = "*" THEN <<current>>
     ELSE IF From(prev, current) THEN Append(chain, current)
     ELSE IF pairs = {} THEN Append(chain, "none")
     ELSE chain \o <<(CHOOSE c \in pairs : TRUE)[1], current>>

(* ajaxConvert: the types the response is converted to one after the other,
   first those before the k-th type that was asked for. *)
Chains(conv, first, types) ==
  LET chain[k \in 0..Len(types)] ==
        IF k = 0 THEN <<first>> ELSE Extended(conv, chain[k - 1], types[k])
  IN chain
Convert(conv, first, types) == Chains(conv, first, types)[Len(types)]

Steps(q) == {<<q[i], q[i + 1]>> : i \in 1..(Len(q) - 1)}

NoAnswer == [status |-> 0, ct |-> "none", body |-> "none", valid |-> FALSE, calls |-> FALSE]

Chain(o, a) ==
  LET types == IF a.body = "none" THEN DataTypes(o) ELSE HandleResponses(o, a)
  IN Convert(Converters(o), Head(types), Tail(types))

(***************************************************************************)
(* JSONP.                                                                  *)
(***************************************************************************)
Jsonp(r) == r.o.dataType = "jsonp"

(* A request.  completed: "null", "no" when sent, "yes"; transport,
   listening: whether the transport is there and its callback is; loading:
   a script element is on its way; told: what the callbacks were told. *)
NewRequest(o) ==
  [o |-> o, completed |-> "null", transport |-> FALSE, listening |-> FALSE,
   loading |-> FALSE, fire |-> FALSE, timer |-> FALSE, installed |-> FALSE,
   completeFired |-> FALSE, success |-> FALSE, told |-> <<>>,
   name |-> None, container |-> None, data |-> None, type |-> "none",
   evaluated |-> FALSE]

(* The prefilter of JSONP: a name that has been used before, or a new one. *)
Install(t, i) ==
  IF ~Jsonp(t.req[i]) THEN t
  ELSE LET free == t.old # <<>>
           n == IF free THEN Last(t.old) ELSE t.made + 1
       IN [t EXCEPT !.req[i].name = n, !.window[n] = i,
                    !.made = IF free THEN @ ELSE n,
                    !.old = IF free THEN SubSeq(@, 1, Len(@) - 1) ELSE @]

(* Variant: only a request that has its data gives its name back. *)
CleanUpAnswered(t, i) ==
  LET r == t.req[i]
  IN IF ~Jsonp(r) THEN t
     ELSE [t EXCEPT !.window[r.name] = None,
                    !.old = IF r.container # None THEN Append(@, r.name) ELSE @,
                    !.req[i].container = None]

(* The clean-up, always and before other callbacks.  A name made up was not
   in use before: there is no value of the page's to restore. *)
CleanUp(t, i) ==
  LET r == t.req[i]
  IN IF ~Jsonp(r) THEN t
     ELSE [t EXCEPT !.window[r.name] = None, !.old = Append(@, r.name),
                    !.req[i].container = None]

(* The script sent for request i runs: it calls the name it was sent. *)
RunScript(t, i, a) ==
  LET n == t.req[i].name
      u == [t EXCEPT !.req[i].evaluated = TRUE]
  IN IF ~Jsonp(t.req[i]) THEN u
     ELSE IF ~a.calls THEN [u EXCEPT !.silent = TRUE]
     ELSE IF t.window[n] = None THEN u
     ELSE [u EXCEPT !.req[t.window[n]].container = i]

(***************************************************************************)
(* done().                                                                 *)
(***************************************************************************)

(* "Convert no matter what": text to script evaluates it, script to json
   takes what the callback has got. *)
Converted(t, i, a) ==
  LET r == t.req[i]
      chain == Chain(r.o, a)
      u == IF <<"text", "script">> \in Steps(chain) THEN RunScript(t, i, a) ELSE t
      got == u.req[i].container
      byScript == <<"script", "json">> \in Steps(chain)
      error == \/ Last(chain) = "none"
               \/ <<"text", "json">> \in Steps(chain) /\ ~a.valid
               \/ byScript /\ got = None
  IN [u EXCEPT !.req[i].success = /\ a.status \in {200, 204, 304}
                                  /\ a.status = 200 => ~error,
               !.req[i].data = IF a.status # 200 THEN None ELSE IF byScript THEN got ELSE i,
               !.req[i].type = IF a.status # 200 THEN "none"
                               ELSE IF Len(chain) = 1 THEN a.body ELSE Last(chain)]

(* Variant: the answer may come again. *)
DoneAgain(t, i, a) ==
  Push([Converted(t, i, a) EXCEPT !.req[i].completed = "yes", !.req[i].timer = FALSE,
                                  !.req[i].transport = FALSE],
       [at |-> "done", i |-> i, role |-> "none", pc |-> "settle"])

(* "Ignore repeat invocations". *)
Done(t, i, a) ==
  IF t.req[i].completed = "yes" THEN t
  ELSE Push([Converted(t, i, a) EXCEPT !.req[i].completed = "yes", !.req[i].timer = FALSE,
                                       !.req[i].transport = FALSE],
            [at |-> "done", i |-> i, role |-> "none", pc |-> "settle"])

Tell(t, i, what) == User([t EXCEPT !.req[i].told = Append(@, what)], i, what)
Outcome(t, i) == IF t.req[i].success THEN "success" ELSE "error"

Settle ==
  /\ At("done") /\ Top.pc = "settle"
  /\ LET t == Goto(CleanUp(s, Top.i), "global")
     IN s' = IF s.req[Top.i].installed THEN Tell(t, Top.i, Outcome(s, Top.i)) ELSE t
  /\ UNCHANGED calls

GlobalEvent ==
  /\ At("done") /\ Top.pc = "global"
  /\ LET t == Goto(s, "complete")
     IN s' = IF s.req[Top.i].fire THEN User(t, Top.i, "ajaxSuccess") ELSE t
  /\ UNCHANGED calls

Complete ==
  /\ At("done") /\ Top.pc = "complete"
  /\ LET t == [Goto(s, "ajaxComplete") EXCEPT !.req[Top.i].completeFired = TRUE]
     IN s' = IF s.req[Top.i].installed THEN Tell(t, Top.i, "complete") ELSE t
  /\ UNCHANGED calls

CompleteEvent ==
  /\ At("done") /\ Top.pc = "ajaxComplete"
  /\ LET t == Goto(s, "count")
     IN s' = IF s.req[Top.i].fire THEN User(t, Top.i, "ajaxComplete") ELSE t
  /\ UNCHANGED calls

(* Variant: ajaxStop for every request. *)
CountOutStopping ==
  /\ At("done") /\ Top.pc = "count"
  /\ LET t == [Pop(s) EXCEPT !.active = @ - 1, !.busy = FALSE]
     IN s' = IF ~s.req[Top.i].fire THEN Pop(s) ELSE User(t, Top.i, "ajaxStop")
  /\ UNCHANGED calls

(* "Handle the global AJAX counter". *)
CountOut ==
  /\ At("done") /\ Top.pc = "count"
  /\ LET t == [Pop(s) EXCEPT !.active = @ - 1]
     IN s' = IF ~s.req[Top.i].fire THEN Pop(s)
             ELSE IF t.active = 0 THEN User([t EXCEPT !.busy = FALSE], Top.i, "ajaxStop")
             ELSE t
  /\ UNCHANGED calls

(***************************************************************************)
(* abort(), timers and transports.                                         *)
(***************************************************************************)

(* The transport's own abort takes its callbacks off; the script element is
   removed, but what it loads will run. *)
Silence(t, i) ==
  IF t.req[i].transport THEN [t EXCEPT !.req[i].listening = FALSE] ELSE t

AbortRequest(t, i) == Done(Silence(t, i), i, NoAnswer)

(* The event of an XHR: load with an answer, or error. *)
XhrEvent(i, a) ==
  /\ Quiet /\ s.req[i].listening /\ ~ByScript(s.req[i].o)
  /\ s' = Done([s EXCEPT !.req[i].listening = FALSE], i, a)
  /\ UNCHANGED calls

(* A script element has loaded: the script runs and then load is heard,
   unless it has been aborted meanwhile. *)
ScriptLoads(i, calling) ==
  /\ Quiet /\ s.req[i].loading
  /\ LET a == [NoAnswer EXCEPT !.status = 200, !.calls = calling]
         t == [RunScript(s, i, a) EXCEPT !.req[i].loading = FALSE,
                                         !.req[i].listening = FALSE]
     IN s' = IF s.req[i].listening THEN Done(t, i, a) ELSE t
  /\ UNCHANGED calls

ScriptFails(i) ==
  /\ Quiet /\ s.req[i].loading
  /\ LET t == [s EXCEPT !.req[i].loading = FALSE, !.req[i].listening = FALSE]
     IN s' = IF s.req[i].listening THEN Done(t, i, [NoAnswer EXCEPT !.status = 404]) ELSE t
  /\ UNCHANGED calls

Timeout(i) ==
  /\ Quiet /\ s.req[i].timer
  /\ s' = AbortRequest([s EXCEPT !.req[i].timer = FALSE], i)
  /\ UNCHANGED calls

(***************************************************************************)
(* ajax().                                                                 *)
(***************************************************************************)

(* After the prefilters: the counter, and ajaxStart for the first. *)
CountIn ==
  /\ At("ajax") /\ Top.pc = "prefiltered"
  /\ LET i == Top.i
         t == [Goto(s, "started") EXCEPT !.req[i].fire = TRUE, !.active = @ + 1]
     IN s' = IF s.req[i].completed = "yes" THEN Pop(s)
             ELSE IF ~s.req[i].o.global THEN Goto(s, "started")
             ELSE IF s.active = 0 THEN User([t EXCEPT !.busy = TRUE], i, "ajaxStart")
             ELSE t
  /\ UNCHANGED calls

BeforeSend ==
  /\ At("ajax") /\ Top.pc = "started"
  /\ s' = IF s.req[Top.i].o.before THEN User(Goto(s, "allowed"), Top.i, "beforeSend")
          ELSE Goto(s, "install")
  /\ UNCHANGED calls

(* beforeSend has said no, or aborted: "Abort if not done already". *)
BeforeSendReturned ==
  /\ At("ajax") /\ Top.pc \in {"allowed", "vetoed"}
  /\ s' = IF Top.pc = "vetoed" \/ s.req[Top.i].completed = "yes"
          THEN AbortRequest(Pop(s), Top.i) ELSE Goto(s, "install")
  /\ UNCHANGED calls

(* "Install callbacks on deferreds": on a request that is over already they
   are called at once, complete first, and when it has returned the others. *)
InstallCallbacks ==
  /\ At("ajax") /\ Top.pc = "install"
  /\ LET i == Top.i
         t == [Goto(s, "transport") EXCEPT !.req[i].installed = TRUE]
     IN s' = IF s.req[i].completeFired THEN Tell(Goto(s, "installing"), i, "complete")
             ELSE IF s.req[i].completed = "yes" THEN Tell(t, i, Outcome(s, i)) ELSE t
  /\ UNCHANGED calls

InstallOthers ==
  /\ At("ajax") /\ Top.pc = "installing"
  /\ s' = Tell([Goto(s, "transport") EXCEPT !.req[Top.i].installed = TRUE],
               Top.i, Outcome(s, Top.i))
  /\ UNCHANGED calls

SendEvent ==
  /\ At("ajax") /\ Top.pc = "transport"
  /\ LET t == [Goto(s, "send") EXCEPT !.req[Top.i].transport = TRUE]
     IN s' = IF s.req[Top.i].fire THEN User(t, Top.i, "ajaxSend") ELSE t
  /\ UNCHANGED calls

(* The transport sends: the answer will come, comes at once (an exception
   goes no farther than the native event) or the transport throws. *)
Send ==
  /\ At("ajax") /\ Top.pc = "send"
  /\ LET i == Top.i
         o == s.req[i].o
         t == [Pop(s) EXCEPT !.req[i].completed = "no", !.req[i].timer = o.timeout /\ o.async]
     IN IF s.req[i].completed = "yes" THEN s' = Pop(s)
        ELSE \/ /\ o.async \/ ByScript(o)
                /\ s' = [t EXCEPT !.req[i].listening = TRUE, !.req[i].loading = ByScript(o)]
             \/ /\ ~o.async /\ ~ByScript(o)
                /\ \E a \in Answers :
                     s' = Done(Push(t, [at |-> "native", i |-> i, role |-> "none", pc |-> "none"]), i, a)
             \/ s' = Done(t, i, NoAnswer)
  /\ UNCHANGED calls

NativeEnd == At("native") /\ s' = Pop(s) /\ UNCHANGED calls

(***************************************************************************)
(* User code.                                                              *)
(***************************************************************************)
Call == (Quiet \/ At("user")) /\ calls < MaxCalls /\ calls' = calls + 1

Start(o) ==
  /\ Call /\ Len(s.req) < MaxRequests
  /\ LET i == Len(s.req) + 1
         t == Install([s EXCEPT !.req = Append(@, NewRequest(o))], i)
     IN s' = User(Push(t, [at |-> "ajax", i |-> i, role |-> "none", pc |-> "prefiltered"]),
                  i, "prefilter")

Abort(i) == Call /\ s' = AbortRequest(s, i)

Return ==
  /\ At("user")
  /\ \/ s' = Pop(s)
     \/ Top.role = "beforeSend" /\ s' = Goto(Pop(s), "vetoed")
  /\ UNCHANGED calls

(* An exception ends all there is, up to the native event it comes out of. *)
Throw ==
  /\ At("user")
  /\ LET below == {k \in DOMAIN s.stack : s.stack[k].at = "native"}
         last == CHOOSE k \in below : \A j \in below : j <= k
     IN s' = [s EXCEPT !.threw = TRUE,
                       !.stack = IF below = {} THEN <<>> ELSE SubSeq(@, 1, last)]
  /\ UNCHANGED calls

UserCall == (\E o \in Options : Start(o)) \/ (\E i \in Ids : Abort(i))

Network ==
  \E i \in Ids : \/ \E a \in Answers \cup {NoAnswer} : XhrEvent(i, a)
                 \/ \E calling \in BOOLEAN : ScriptLoads(i, calling)
                 \/ ScriptFails(i)

Running ==
  \/ CountIn \/ BeforeSend \/ BeforeSendReturned \/ InstallCallbacks
  \/ InstallOthers \/ SendEvent \/ Send \/ NativeEnd \/ Settle \/ GlobalEvent \/ Complete \/ CompleteEvent \/ CountOut

Next == UserCall \/ Network \/ Running \/ Return \/ Throw \/ \E i \in Ids : Timeout(i)

Spec == Init /\ [][Next]_vars

(***************************************************************************)
(* Properties.                                                             *)
(***************************************************************************)

(* The requests have their parts, and no timer outlives its request. *)
TypeOK ==
  /\ s.active \in Int /\ s.busy \in BOOLEAN
  /\ s.window \in [1..MaxRequests -> 0..MaxRequests]
  /\ \A i \in Ids : LET r == s.req[i]
                    IN /\ r.completed \in {"null", "no", "yes"}
                       /\ r.timer => r.completed = "no"
                       /\ r.listening => r.completed = "no"

Sent == {i \in Ids : s.req[i].completed = "no"}

(* Whenever no script runs, jQuery.active is the number of requests on their
   way that fire global events, and what ajaxStart shows and ajaxStop hides
   is shown while there are any, however the others ended: vetoed, aborted in
   a prefilter or a listener, answered, timed out.  Unless user code threw:
   then done() does not reach the counter. *)
BusyWhileActive ==
  /\ TypeOK
  /\ Quiet /\ ~s.threw =>
       LET global == {i \in Sent : s.req[i].fire}
       IN s.active = Cardinality(global) /\ (s.busy <=> global # {})

Times(q, W) == Cardinality({k \in DOMAIN q : q[k] \in W})

(* A request's callbacks are told of one outcome, once, and of completion,
   once, although an answer, a timeout and any number of aborts, also from
   within those callbacks, compete for it; and if nothing was thrown they
   have been told when no script runs. *)
ToldOnce ==
  \A i \in Ids :
    LET r == s.req[i]
        told(W) == Times(r.told, W)
    IN /\ told({"success", "error"}) <= 1 /\ told({"complete"}) <= 1
       /\ Quiet /\ ~s.threw /\ r.installed /\ r.completed = "yes" =>
            told({"success", "error"}) = 1 /\ told({"complete"}) = 1

(* A JSONP name is either free and calls nobody or belongs to one request
   that is not settled, whose function it calls; and the data a request
   succeeds with, if any (204 and 304 come without), is its own, although
   names are used again and the script of an aborted request runs late.  A
   script that does not call back leaves the way open for such a late one. *)
JsonpOwnData ==
  LET owners(n) == {i \in Ids : s.req[i].name = n /\ s.window[n] = i}
      free(n) == Cardinality({k \in DOMAIN s.old : s.old[k] = n})
  IN /\ \A n \in 1..s.made :
          /\ Cardinality(owners(n)) + free(n) = 1
          /\ Quiet /\ ~s.threw => \A i \in owners(n) : s.req[i].completed = "no"
     /\ s.silent \/ \A i \in Ids :
          Jsonp(s.req[i]) /\ s.req[i].success => s.req[i].data \in {i, None}

(* A success has the type that was asked for, whatever was sent: type is that
   of the data, not the one they are taken for.  "Prevent auto-execution of
   scripts when no explicit dataType was provided": what another domain sends
   runs only if a script was asked for. *)
TypeAsAsked ==
  \A i \in Ids :
    LET r == s.req[i]
    IN /\ r.success /\ r.type # "none" /\ r.o.dataType # "*" =>
            r.type = (IF Jsonp(r) THEN "json" ELSE r.o.dataType)
       /\ r.evaluated /\ r.o.cross => r.o.dataType \in {"script", "jsonp"}
=============================================================================
