-------------------------------- MODULE Gossip --------------------------------
(***************************************************************************)
(* Membership in FreeOxy: how neighbour lists spread by PING and PONG      *)
(* (PingPong.java, UDPServer.java) and survive an exit in FreeOxy.conf     *)
(* (FreeOxy.init, FreeOxy.saveNeighbor).  A list is the set of the keys of *)
(* the satisfaction table; NeighborList models the values and the races    *)
(* inside one node.  A node stands for its address.                        *)
(***************************************************************************)
EXTENDS Naturals, FiniteSets

CONSTANTS
  Node,
  Known,      \* Known[n]: FreeOxy.conf of n at the start
  None,       \* no address
  Lossy,      \* datagrams to live nodes may be lost
  MaxNet,     \* bound: datagrams in flight or about to be
  MaxCrash,   \* bound: exits
  MaxForget,  \* bound: neighbours dropped for want of satisfaction
  MaxHand,    \* bound: neighbours entered by hand
  Draw        \* a node, a neighbour and a host whose draw is fair

ASSUME GossipAssumption ==
  /\ None \notin Node
  /\ Known \in [Node -> SUBSET Node]
  /\ Lossy \in BOOLEAN
  /\ Draw \in Node \X Node \X Node
  /\ MaxNet \in Nat /\ MaxCrash \in Nat /\ MaxForget \in Nat /\ MaxHand \in Nat

VARIABLES
  knows,       \* knows[n]: the keys of m_neighbors
  conf,        \* conf[n]: the entries in FreeOxy.conf
  up,          \* the live nodes
  net,         \* the datagrams in flight
  pp,          \* pp[n]: where the PingPong thread is
  addr,        \* addr[n]: the neighbour it is going to ping
  unsaved,     \* unsaved[n]: the keys its save has still to write
  introduced,  \* history: who was listed at the start, was entered by hand or
               \* has named itself
  crashes, forgets, hands

threadVars == <<pp, addr, unsaved>>
bounds == <<crashes, forgets, hands>>
vars == <<knows, conf, up, net, threadVars, introduced, bounds>>

Packet == [type : {"PING", "PONG"}, from : Node, to : Node, host : Node]

TypeOK ==
  /\ knows \in [Node -> SUBSET Node]
  /\ conf \in [Node -> SUBSET Node]
  /\ up \subseteq Node
  /\ net \subseteq Packet
  /\ pp \in [Node -> {"idle", "picked", "save", "write"}]
  /\ addr \in [Node -> Node \cup {None}]
  /\ unsaved \in [Node -> SUBSET Node]
  /\ introduced \subseteq Node
  /\ crashes \in 0 .. MaxCrash /\ forgets \in 0 .. MaxForget /\ hands \in 0 .. MaxHand

(* addNeighbor: the local host is never entered. *)
Learn(n, H) == [knows EXCEPT ![n] = @ \cup (H \ {n})]

(* FreeOxy.init: the neighbours read from FreeOxy.conf. *)
ReadConf(n, saved) == saved[n] \ {n}

Init ==
  /\ conf = Known
  /\ knows = [n \in Node |-> ReadConf(n, Known)]
  /\ up = Node
  /\ net = {}
  /\ pp = [n \in Node |-> "idle"]
  /\ addr = [n \in Node |-> None]
  /\ unsaved = [n \in Node |-> {}]
  /\ introduced = UNION {Known[n] : n \in Node}
  /\ crashes = 0 /\ forgets = 0 /\ hands = 0

-----------------------------------------------------------------------------
(* The PingPong thread. *)
At(n, where) == n \in up /\ pp[n] = where

(* The host n names in a PING or a PONG: getOneNeighbor, or itself when it
   has no neighbour. *)
Names(n) == IF knows[n] = {} THEN {n} ELSE knows[n]

Naming(n) == introduced' = introduced \cup (IF knows[n] = {} THEN {n} ELSE {})

(* addr = getOneNeighbor(): a null is not pinged. *)
PickAddr(n, m) ==
  /\ At(n, "idle")
  /\ m \in knows[n]
  /\ Cardinality(net) + Cardinality({x \in Node : pp[x] = "picked"}) < MaxNet
  /\ addr' = [addr EXCEPT ![n] = m]
  /\ pp' = [pp EXCEPT ![n] = "picked"]
  /\ UNCHANGED <<knows, conf, up, net, unsaved, introduced, bounds>>

PickNobody(n) ==
  /\ At(n, "idle")
  /\ knows[n] = {}
  /\ pp' = [pp EXCEPT ![n] = "save"]
  /\ UNCHANGED <<knows, conf, up, net, addr, unsaved, introduced, bounds>>

Pinging(n, m, h) ==
  /\ At(n, "picked")
  /\ addr[n] = m
  /\ net' = net \cup {[type |-> "PING", from |-> n, to |-> m, host |-> h]}
  /\ pp' = [pp EXCEPT ![n] = "save"]
  /\ addr' = [addr EXCEPT ![n] = None]
  /\ UNCHANGED <<knows, conf, up, unsaved, bounds>>

(* Variant: the sender names itself. *)
PingNamingSelf(n, m, h) == h \in Names(n) /\ Pinging(n, m, n) /\ Naming(n)

(* Variant: one getOneNeighbor serves for both the address and the host. *)
PingNamingAddr(n, m, h) == h \in Names(n) /\ Pinging(n, m, m) /\ Naming(n)

(* host2send = getOneNeighbor(): a call of its own, so the list may have
   become empty since addr was picked. *)
Ping(n, m, h) == h \in Names(n) /\ Pinging(n, m, h) /\ Naming(n)

(* sendTo throws: the catch clause skips the save and the sleep. *)
PingFails(n) ==
  /\ At(n, "picked")
  /\ pp' = [pp EXCEPT ![n] = "idle"]
  /\ addr' = [addr EXCEPT ![n] = None]
  /\ UNCHANGED <<knows, conf, up, net, unsaved, introduced, bounds>>

(* saveNeighbor: opening FreeOxy.conf truncates it. *)
SaveOpen(n) ==
  /\ At(n, "save")
  /\ conf' = [conf EXCEPT ![n] = {}]
  /\ unsaved' = [unsaved EXCEPT ![n] = knows[n]]
  /\ pp' = [pp EXCEPT ![n] = "write"]
  /\ UNCHANGED <<knows, up, net, addr, introduced, bounds>>

(* Variant: the file is opened, and truncated, anew for every entry. *)
SaveReopening(n) ==
  /\ At(n, "write")
  /\ \E m \in unsaved[n] :
       /\ unsaved' = [unsaved EXCEPT ![n] = @ \ {m}]
       /\ conf' = [conf EXCEPT ![n] = {m}]
  /\ UNCHANGED <<knows, up, net, pp, addr, introduced, bounds>>

SaveNext(n) ==
  /\ At(n, "write")
  /\ \E m \in unsaved[n] :
       /\ unsaved' = [unsaved EXCEPT ![n] = @ \ {m}]
       /\ conf' = [conf EXCEPT ![n] = @ \cup {m}]
  /\ UNCHANGED <<knows, up, net, pp, addr, introduced, bounds>>

(* close, or the exception of an iterator whose list has changed. *)
SaveEnds(n) ==
  /\ At(n, "write")
  /\ unsaved[n] = {} \/ conf[n] \cup unsaved[n] # knows[n]
  /\ pp' = [pp EXCEPT ![n] = "idle"]
  /\ unsaved' = [unsaved EXCEPT ![n] = {}]
  /\ UNCHANGED <<knows, conf, up, net, addr, introduced, bounds>>

-----------------------------------------------------------------------------
(* The UDP thread: the answer first, then the host named is entered. *)
ReceivePing(n, p) ==
  /\ p.type = "PING"
  /\ \E h \in Names(n) :
       net' = (net \ {p}) \cup {[type |-> "PONG", from |-> n, to |-> p.from, host |-> h]}
  /\ Naming(n)
  /\ knows' = Learn(n, {p.host})

ReceivePong(n, p) ==
  /\ p.type = "PONG"
  /\ net' = net \ {p}
  /\ knows' = Learn(n, {p.host})
  /\ UNCHANGED introduced

Receive(n) ==
  /\ n \in up
  /\ \E p \in {q \in net : q.to = n} : ReceivePing(n, p) \/ ReceivePong(n, p)
  /\ UNCHANGED <<conf, up, threadVars, bounds>>

-----------------------------------------------------------------------------
(* The rest of the node and the environment. *)
AddByHand(n, m) ==
  /\ n \in up
  /\ hands < MaxHand
  /\ hands' = hands + 1
  /\ knows' = Learn(n, {m})
  /\ introduced' = introduced \cup {m}
  /\ UNCHANGED <<conf, up, net, threadVars, crashes, forgets>>

(* A probe costs m its last point above the threshold (NeighborList). *)
Forget(n, m) ==
  /\ n \in up
  /\ m \in knows[n]
  /\ forgets < MaxForget
  /\ forgets' = forgets + 1
  /\ knows' = [knows EXCEPT ![n] = @ \ {m}]
  /\ UNCHANGED <<conf, up, net, threadVars, introduced, crashes, hands>>

Lose(p) ==
  /\ Lossy \/ p.to \notin up
  /\ net' = net \ {p}
  /\ UNCHANGED <<knows, conf, up, threadVars, introduced, bounds>>

Crash(n) ==
  /\ n \in up
  /\ crashes < MaxCrash
  /\ crashes' = crashes + 1
  /\ up' = up \ {n}
  /\ knows' = [knows EXCEPT ![n] = {}]
  /\ pp' = [pp EXCEPT ![n] = "idle"]
  /\ addr' = [addr EXCEPT ![n] = None]
  /\ unsaved' = [unsaved EXCEPT ![n] = {}]
  /\ UNCHANGED <<conf, net, introduced, forgets, hands>>

(* main: init reads back what the last save left. *)
Restart(n) ==
  /\ n \in Node \ up
  /\ up' = up \cup {n}
  /\ knows' = [knows EXCEPT ![n] = ReadConf(n, conf)]
  /\ UNCHANGED <<conf, net, threadVars, introduced, bounds>>

Save(n) == SaveOpen(n) \/ SaveNext(n) \/ SaveEnds(n)

PingPong(n) ==
  \/ \E m \in Node : PickAddr(n, m) \/ \E h \in Node : Ping(n, m, h)
  \/ PickNobody(n) \/ PingFails(n) \/ Save(n)

Next ==
  \/ \E n \in Node : PingPong(n) \/ Receive(n) \/ Crash(n) \/ Restart(n)
  \/ \E n, m \in Node : AddByHand(n, m) \/ Forget(n, m)
  \/ \E p \in net : Lose(p)

Spec == Init /\ [][Next]_vars

(* The threads run (a PingPong thread also when the bound on datagrams keeps
   stopping it), an exited node is started again, sends do not fail for
   ever, and getOneNeighbor, which draws at random, does not leave out for
   ever the neighbour and the host of Draw.  Nothing is assumed of exits,
   losses and the user. *)
Fairness ==
  /\ \A n \in Node :
       /\ SF_vars(PingPong(n)) /\ WF_vars(Receive(n)) /\ WF_vars(Restart(n))
       /\ SF_vars(\E m, h \in Node : Ping(n, m, h))
  /\ SF_vars(PickAddr(Draw[1], Draw[2]))
  /\ SF_vars(Ping(Draw[1], Draw[2], Draw[3]))
  /\ WF_vars(\E p \in net : p.to \notin up /\ Lose(p))

FairSpec == Spec /\ Fairness

-----------------------------------------------------------------------------
(* No list, file or datagram names a node that was not listed at the start,
   entered by hand or, with an empty list, named by itself: a node that joins
   with neighbours in its own list stays unknown to all others however long
   it pings them (PingPong.java:26-31, UDPServer.java:92-104). *)
NamesAreIntroduced ==
  /\ \A n \in Node : knows[n] \cup conf[n] \cup unsaved[n] \subseteq introduced
  /\ \A p \in net : p.host \in introduced

(* Lists spread along themselves: a node that lists two others ends by making
   the one known to the other, unless it drops them or exits (PingPong.java:
   20-33, UDPServer.java:103-105). *)
ListsSpread ==
  LET n == Draw[1] m == Draw[2] k == Draw[3] IN
    {m, k} \subseteq knows[n] ~> (k \in knows[m] \/ m \notin up \/ ~({m, k} \subseteq knows[n]))

(* FreeOxy.conf, truncated by every save, holds the whole list again and
   again, whatever the exits and drops before (FreeOxy.java:204-214). *)
SavedAgain == \A n \in Node : []<>(n \in up => conf[n] = knows[n])
=============================================================================
