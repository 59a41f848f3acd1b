----------------------------- MODULE NeighborList -----------------------------
(***************************************************************************)
(* The satisfaction table of one FreeOxy node and the threads that share   *)
(* it: the UDP thread (UDPServer.run), one Connection thread per browser   *)
(* request (sendProbe), the PingPong thread that saves the table, and the  *)
(* user interface.  A method of MaintainNeighborList that reads and then   *)
(* writes is two steps inside its monitor, so that what `synchronized`     *)
(* buys is checked and not assumed; size() and toStream() take no monitor. *)
(* Definitions that all models have carry List in their names: one module  *)
(* proves theorems about this model, Gossip and Lifecycle.                 *)
(***************************************************************************)
EXTENDS SatisfactionTable

CONSTANTS
  Addr,      \* socket addresses that can turn up in a message
  Local,     \* those of them whose IP is the local host's
  Prober,    \* the Connection threads
  Udp,       \* the UDP thread
  Nobody,    \* no thread, no address
  Fanout,    \* Common.MAX_FAN
  MaxSat     \* bound: no response is received for a neighbour valued MaxSat

Caller == Prober \cup {Udp}

ASSUME ThreadAssumption ==
  /\ Udp \notin Prober
  /\ Nobody \notin Caller \cup Addr
  /\ Local \subseteq Addr
  /\ MaxSat \in Nat
  /\ Fanout \in Nat

VARIABLES
  table,     \* neighborListMap
  monitor,   \* the thread inside inc or dec, or Nobody
  op,        \* what each thread is doing
  todo,      \* the addresses a thread's probe loop has still to visit
  target,    \* the address a thread's current call is about
  read,      \* tempValue of the call in progress
  votes,     \* history: increments minus decrements since the last reset
  file,      \* the entries now in FreeOxy.conf
  saver,     \* the PingPong thread: "idle", "open" or "writing"
  unwritten, \* the keys its iterator has still to return
  stale      \* the key set has changed since the iterator was made

listVars == <<table, monitor, op, todo, target, read, votes,
              file, saver, unwritten, stale>>

callVars  == <<monitor, op, todo, target, read>>
saveVars  == <<file, saver, unwritten>>

ListTypeOK ==
  /\ DOMAIN table \subseteq Addr
  /\ \A n \in DOMAIN table : table[n] \in Nat
  /\ monitor \in Caller \cup {Nobody}
  /\ op \in [Caller -> {"idle", "loop", "dec", "inc", "add"}]
  /\ todo \in [Caller -> SUBSET Addr]
  /\ target \in [Caller -> Addr \cup {Nobody}]
  /\ read \in [Caller -> Nat]
  /\ votes \in [Addr -> Int]
  /\ file \subseteq Addr
  /\ saver \in {"idle", "open", "writing"}
  /\ unwritten \subseteq Addr
  /\ stale \in BOOLEAN

ListInit ==
  /\ table = EmptyTable
  /\ monitor = Nobody
  /\ op = [t \in Caller |-> "idle"]
  /\ todo = [t \in Caller |-> {}]
  /\ target = [t \in Caller |-> Nobody]
  /\ read = [t \in Caller |-> 0]
  /\ votes = [n \in Addr |-> 0]
  /\ file = {}
  /\ saver = "idle"
  /\ unwritten = {}
  /\ stale = FALSE

-----------------------------------------------------------------------------
(* Every write of the table goes through here: an iterator over the key set
   goes stale when a key comes or goes (HashMap's modCount). *)
SetTable(m) ==
  /\ table' = m
  /\ stale' = (stale \/ (saver = "writing" /\ DOMAIN m # DOMAIN table))

MonitorFree == monitor = Nobody

(* The probe loop of sendProbe and of receivePacket's MSG_PROBE case starts
   with one getAddress call (and ends there when the table is empty). *)
GetTargets(t) ==
  /\ op[t] = "idle"
  /\ MonitorFree
  /\ \E A \in GetAddress(table, Fanout) :
       /\ A # {}
       /\ todo' = [todo EXCEPT ![t] = A]
  /\ op' = [op EXCEPT ![t] = "loop"]
  /\ UNCHANGED <<table, monitor, target, read, votes, saveVars, stale>>

(* Variant: dec without `synchronized`. *)
DecReadUnguarded(t) ==
  /\ op[t] = "loop"
  /\ \E n \in todo[t] :
       /\ todo' = [todo EXCEPT ![t] = @ \ {n}]
       /\ target' = [target EXCEPT ![t] = n]
       /\ read' = [read EXCEPT ![t] = GetValue(table, n)]
  /\ monitor' = t
  /\ op' = [op EXCEPT ![t] = "dec"]
  /\ UNCHANGED <<table, votes, saveVars, stale>>

(* sendTo(n) succeeded; dec(n) enters the monitor and reads. *)
DecRead(t) ==
  /\ op[t] = "loop"
  /\ MonitorFree
  /\ \E n \in todo[t] :
       /\ todo' = [todo EXCEPT ![t] = @ \ {n}]
       /\ target' = [target EXCEPT ![t] = n]
       /\ read' = [read EXCEPT ![t] = GetValue(table, n)]
  /\ monitor' = t
  /\ op' = [op EXCEPT ![t] = "dec"]
  /\ UNCHANGED <<table, votes, saveVars, stale>>

(* sendTo threw: the exception leaves the loop, the rest is not visited. *)
SendFails(t) ==
  /\ op[t] = "loop"
  /\ todo' = [todo EXCEPT ![t] = {}]
  /\ op' = [op EXCEPT ![t] = "idle"]
  /\ UNCHANGED <<table, monitor, target, read, votes, saveVars, stale>>

(* The write half of inc and dec: addNeighbor, then the monitor is left. *)
Vote(t, v, next) ==
  LET n == target[t] IN
    /\ SetTable(AddNeighbor(table, Local, n, v))
    /\ votes' = [votes EXCEPT ![n] =
                   IF n \in DOMAIN table THEN @ + (v - read[t]) ELSE 0]
    /\ monitor' = Nobody
    /\ op' = [op EXCEPT ![t] = next]
    /\ target' = [target EXCEPT ![t] = Nobody]
    /\ read' = [read EXCEPT ![t] = 0]
    /\ UNCHANGED <<todo, saveVars>>

DecWrite(t) ==
  /\ op[t] = "dec"
  /\ Vote(t, read[t] - 1, IF todo[t] = {} THEN "idle" ELSE "loop")

(* receivePacket, MSG_RSP: inc(source of the packet). *)
IncRead ==
  /\ op[Udp] = "idle"
  /\ MonitorFree
  /\ \E n \in Addr :
       /\ GetValue(table, n) < MaxSat
       /\ target' = [target EXCEPT ![Udp] = n]
       /\ read' = [read EXCEPT ![Udp] = GetValue(table, n)]
  /\ monitor' = Udp
  /\ op' = [op EXCEPT ![Udp] = "inc"]
  /\ UNCHANGED <<table, todo, votes, saveVars, stale>>

IncWrite ==
  /\ op[Udp] = "inc"
  /\ Vote(Udp, read[Udp] + 1, "idle")

(* addNeighbor(n, DEFAULT_SAT) as one call: a new neighbour is entered, the
   value of a known one is reset. *)
Enter(n) ==
  /\ SetTable(AddNeighbor(table, Local, n, DefaultSat))
  /\ votes' = [votes EXCEPT ![n] = 0]

(* receivePacket, MSG_PING and MSG_PONG: checkAddress(host) is one
   synchronized call, addNeighbor(host) another. *)
CheckHost ==
  /\ op[Udp] = "idle"
  /\ MonitorFree
  /\ \E n \in Addr \ DOMAIN table : target' = [target EXCEPT ![Udp] = n]
  /\ op' = [op EXCEPT ![Udp] = "add"]
  /\ UNCHANGED <<table, monitor, todo, read, votes, saveVars, stale>>

AddHost ==
  /\ op[Udp] = "add"
  /\ MonitorFree
  /\ Enter(target[Udp])
  /\ op' = [op EXCEPT ![Udp] = "idle"]
  /\ target' = [target EXCEPT ![Udp] = Nobody]
  /\ UNCHANGED <<monitor, todo, read, saveVars>>

(* The user enters an address (FreeOxyUI.addHost, addByHand). *)
EnterByHand ==
  /\ MonitorFree
  /\ \E n \in Addr : Enter(n)
  /\ UNCHANGED <<callVars, saveVars>>

-----------------------------------------------------------------------------
(* Variant: the file is opened for appending. *)
SaveAppend ==
  /\ saver = "idle"
  /\ saver' = "open"
  /\ UNCHANGED <<table, callVars, votes, file, unwritten, stale>>

(* saveNeighbor, on the PingPong thread: opening the file truncates it. *)
SaveTruncate ==
  /\ saver = "idle"
  /\ saver' = "open"
  /\ file' = {}
  /\ UNCHANGED <<table, callVars, votes, unwritten, stale>>

(* toStream makes its iterator without the monitor. *)
SaveIterate ==
  /\ saver = "open"
  /\ saver' = "writing"
  /\ unwritten' = DOMAIN table
  /\ UNCHANGED <<table, callVars, votes, file, stale>>

SaveWrite ==
  /\ saver = "writing"
  /\ ~stale
  /\ \E n \in unwritten :
       /\ unwritten' = unwritten \ {n}
       /\ file' = file \cup {n}
  /\ UNCHANGED <<table, callVars, votes, saver, stale>>

(* The iterator reads modCount and the buckets without the monitor: it need
   not see a change made under it, and then returns old and new keys alike. *)
SaveRaced ==
  /\ saver = "writing"
  /\ stale
  /\ \E n \in unwritten :
       /\ file' = file \cup {n}
       /\ unwritten' \in SUBSET ((unwritten \cup DOMAIN table) \ (file \cup {n}))
  /\ UNCHANGED <<table, callVars, votes, saver, stale>>

(* next() on a stale iterator throws ConcurrentModificationException; the
   file is left as it is. *)
SaveAbort ==
  /\ saver = "writing"
  /\ stale
  /\ unwritten # {}
  /\ saver' = "idle"
  /\ unwritten' = {}
  /\ stale' = FALSE
  /\ UNCHANGED <<table, callVars, votes, file>>

(* hasNext() is false, even when the table has changed since: close. *)
SaveClose ==
  /\ saver = "writing"
  /\ unwritten = {}
  /\ saver' = "idle"
  /\ stale' = FALSE
  /\ UNCHANGED <<table, callVars, votes, file, unwritten>>

ListNext ==
  \/ \E t \in Caller : GetTargets(t) \/ DecRead(t) \/ DecWrite(t) \/ SendFails(t)
  \/ IncRead \/ IncWrite
  \/ CheckHost \/ AddHost
  \/ EnterByHand
  \/ SaveTruncate \/ SaveIterate \/ SaveWrite \/ SaveRaced \/ SaveAbort \/ SaveClose

ListSpec == ListInit /\ [][ListNext]_listVars

-----------------------------------------------------------------------------
(* The table never names the local host, and every neighbour in it is worth
   at least the threshold: addNeighbor drops what falls below it, however
   the reads and writes of the threads interleave. *)
TableOK ==
  /\ DOMAIN table \cap Local = {}
  /\ \A n \in DOMAIN table : table[n] >= MinThreshold

(* No vote is lost: a neighbour's satisfaction is the default plus the
   increments and minus the decrements since it was last entered, although
   inc and dec read and write the table in two steps.  This is what
   `synchronized` on the methods of MaintainNeighborList is for. *)
NoLostVote == \A n \in DOMAIN table : table[n] = DefaultSat + votes[n]

(* A neighbour leaves the table only when a probe costs it its last point
   above the threshold, never through a response, a PING, a PONG or the user. *)
DropsOnlyAtThreshold ==
  [][\A n \in DOMAIN table \ DOMAIN table' :
       /\ table[n] = MinThreshold
       /\ \E t \in Caller : op[t] = "dec" /\ target[t] = n]_listVars

(* While no neighbour has come or gone since its iterator was made, the save
   loop owes FreeOxy.conf exactly the neighbours it has not yet written: an
   undisturbed save is a complete one. *)
SaveIsComplete ==
  saver = "writing" /\ ~stale => file \cup unwritten = DOMAIN table
=============================================================================
