------------------------------- MODULE Lifecycle -------------------------------
(***************************************************************************)
(* Starting and stopping a FreeOxy node from its menu (FreeOxyUI.java):    *)
(* startThreads binds a TCP, an SSL and a UDP port one after the other and *)
(* then starts four threads; stopThreads interrupts the threads and closes *)
(* the TCP and SSL sockets it holds (FreeOxy.java).  Definitions that all   *)
(* models have carry Life in their names: one module proves theorems about *)
(* this model and about Gossip.                                            *)
(***************************************************************************)
EXTENDS Naturals, FiniteSets

CONSTANTS
  CiphersOK,    \* the JVM has Common.CIPHER_SUITES
  MaxQueue,     \* bound: datagrams waiting in the UDP socket
  MaxClick      \* bound: uses of the menu

ASSUME LifecycleAssumption ==
  CiphersOK \in BOOLEAN /\ MaxQueue \in Nat /\ MaxClick \in Nat

Port == {"tcp", "ssl", "udp"}
Acceptor == {"tcp", "ssl"}
Thread == {"tcp", "ssl", "udp", "pp"}

VARIABLES
  held,     \* the ports whose open socket a static field refers to
  leaked,   \* the ports whose open socket nothing refers to
  thread,   \* thread[t]: "none", "running", "interrupted" or "ended"
  queue,    \* datagrams waiting in the UDP socket
  late,     \* history: datagrams handled since the UDP thread was interrupted
  shown,    \* the last message box of the menu
  clicks    \* uses of the menu so far

lifeVars == <<held, leaked, thread, queue, late, shown, clicks>>

LifeTypeOK ==
  /\ held \subseteq Port
  /\ leaked \subseteq Acceptor
  /\ thread \in [Thread -> {"none", "running", "interrupted", "ended"}]
  /\ queue \in 0 .. MaxQueue
  /\ late \in Nat
  /\ shown \in {"nothing", "started", "stopped"}
  /\ clicks \in 0 .. MaxClick

LifeInit ==
  /\ held = {}
  /\ leaked = {}
  /\ thread = [t \in Thread |-> "none"]
  /\ queue = 0
  /\ late = 0
  /\ shown = "nothing"
  /\ clicks = 0

-----------------------------------------------------------------------------
Click(text) == clicks < MaxClick /\ clicks' = clicks + 1 /\ shown' = text

Free(p) == p \notin held \cup leaked

(* Every bind succeeds: the sockets are kept and the threads start. *)
StartSucceeds ==
  /\ Click("started")
  /\ \A p \in Port : Free(p)
  /\ CiphersOK
  /\ held' = Port
  /\ thread' = [t \in Thread |-> "running"]
  /\ UNCHANGED <<leaked, queue, late>>

(* What is bound before an exception, when other processes have `taken' some of
   the ports: those sockets stay bound and are referred to by nothing. *)
Bound(taken) ==
  IF ~Free("tcp") \/ "tcp" \in taken THEN {}
  ELSE IF ~Free("ssl") \/ "ssl" \in taken THEN {"tcp"}
  ELSE {"tcp", "ssl"}

(* Variant: the TCP thread is started before the UDP socket is bound. *)
StartFailsHalfway ==
  /\ Click("started")
  /\ \E taken \in SUBSET Port :
       /\ ~(CiphersOK /\ \A p \in Port : Free(p) /\ p \notin taken)
       /\ leaked' = leaked \cup Bound(taken)
       /\ thread' = [thread EXCEPT !["tcp"] = IF "tcp" \in Bound(taken) THEN "running" ELSE @]
  /\ UNCHANGED <<held, queue, late>>

(* The handler shows an error and then the message of success. *)
StartFails ==
  /\ Click("started")
  /\ \E taken \in SUBSET Port :
       /\ ~(CiphersOK /\ \A p \in Port : Free(p) /\ p \notin taken)
       /\ leaked' = leaked \cup Bound(taken)
  /\ UNCHANGED <<held, thread, queue, late>>

Stop ==
  /\ Click("stopped")
  /\ thread' = [t \in Thread |-> IF thread[t] = "running" THEN "interrupted" ELSE thread[t]]
  /\ held' = held \ Acceptor
  /\ UNCHANGED <<leaked, queue, late>>

(* An unreachable socket is closed when it is collected. *)
Collect(p) ==
  /\ p \in leaked
  /\ leaked' = leaked \ {p}
  /\ UNCHANGED <<held, thread, queue, late, shown, clicks>>

-----------------------------------------------------------------------------
(* accept throws a SocketException once the socket is closed. *)
AcceptorEnds(t) ==
  /\ thread[t] \in {"running", "interrupted"}
  /\ t \notin held
  /\ thread' = [thread EXCEPT ![t] = "ended"]
  /\ UNCHANGED <<held, leaked, queue, late, shown, clicks>>

(* sleep throws an InterruptedException. *)
PingPongEnds ==
  /\ thread["pp"] = "interrupted"
  /\ thread' = [thread EXCEPT !["pp"] = "ended"]
  /\ UNCHANGED <<held, leaked, queue, late, shown, clicks>>

Datagram ==
  /\ "udp" \in held
  /\ queue < MaxQueue
  /\ queue' = queue + 1
  /\ UNCHANGED <<held, leaked, thread, late, shown, clicks>>

(* receive is not interrupted: only a datagram handled to its end lets the
   thread see that it was. *)
HandleDatagram ==
  /\ thread["udp"] \in {"running", "interrupted"}
  /\ queue > 0
  /\ queue' = queue - 1
  /\ IF thread["udp"] = "interrupted"
     THEN late' = late + 1 /\ thread' = [thread EXCEPT !["udp"] = "ended"]
     ELSE UNCHANGED <<late, thread>>
  /\ UNCHANGED <<held, leaked, shown, clicks>>

(* receivePacket throws: the test of the flag is skipped. *)
HandlerThrows ==
  /\ thread["udp"] \in {"running", "interrupted"}
  /\ queue > 0
  /\ queue' = queue - 1
  /\ UNCHANGED <<held, leaked, thread, late, shown, clicks>>

LifeNext ==
  \/ StartSucceeds \/ StartFails \/ Stop
  \/ \E p \in Acceptor : Collect(p) \/ AcceptorEnds(p)
  \/ PingPongEnds
  \/ Datagram \/ HandleDatagram \/ HandlerThrows

LifeSpec == LifeInit /\ [][LifeNext]_lifeVars

-----------------------------------------------------------------------------
(* No browser is accepted by a node that cannot probe: an acceptor that runs
   has its socket, and the UDP and PingPong threads run with it, whichever of
   the binds has failed and however often the menu was used. *)
NeverHalfUp ==
  \A t \in Acceptor : thread[t] = "running" =>
    held = Port /\ \A u \in Thread : thread[u] = "running"

(* A stopped node handles one more datagram and no second, unless its handler
   fails. *)
OneLateDatagram == late <= 1
=============================================================================
