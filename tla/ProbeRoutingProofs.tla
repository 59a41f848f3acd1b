-------------------------- MODULE ProbeRoutingProofs --------------------------
(***************************************************************************)
(* Proofs about probe routing for every overlay, TTL, fan-out and network: *)
(* typing, pending probes against waiting connections, the steps of        *)
(* ProxyService, and where the names in responses and caches lead.         *)
(***************************************************************************)
EXTENDS ProbeRouting, TLAPS

IsTable(m) == DOMAIN m \subseteq Node /\ \A x \in DOMAIN m : m[x] \in Nat

(* A connection has a home once it is accepted, and a route only from its
   own dispatch or from a call back. *)
HomeInv ==
  \A c \in Conn :
    /\ thread[c] = "free" => home[c] = None
    /\ thread[c] # "free" => home[c] \in Node /\ wants[c] \in Url
    /\ thread[c] \in {"free", "dispatch", "add", "dead"} => route[c] = None

(* An entry has a source or a callback, and a number of its own. *)
EntryInv ==
  \A n \in Node : \A e \in pending[n] :
    /\ e.src = None <=> e.conn # None
    /\ e.id < nextId[n]
    /\ \A f \in pending[n] : e.id = f.id => e = f

(* What a look-up has still to do is pending, and it never stands between
   sending and caching at a probe of its own. *)
ScanInv ==
  \A n \in Node : scan[n] # NoScan =>
    /\ scan[n].left \subseteq pending[n]
    /\ \A e \in scan[n].left : e.url = scan[n].rsp.url
    /\ scan[n].at = "sent" =>
         \A e \in scan[n].left :
           (\A f \in scan[n].left : e.id <= f.id) => e.src # None

IInv == TypeOK /\ HomeInv /\ EntryInv /\ ScanInv /\ PendingIffWaiting

-----------------------------------------------------------------------------
(* The network is a bag, and what is put in or taken out moves its set. *)
LEMMA BagAdd ==
  ASSUME NEW B, IsABag(B), NEW S
  PROVE  IsABag(B (+) SetToBag(S)) /\ BagToSet(B (+) SetToBag(S)) = BagToSet(B) \cup S
BY DEF (+), SetToBag, IsABag, BagToSet

LEMMA BagTake ==
  ASSUME NEW B, IsABag(B), NEW S
  PROVE  IsABag(B (-) SetToBag(S)) /\ BagToSet(B (-) SetToBag(S)) \subseteq BagToSet(B)
BY DEF (-), SetToBag, IsABag, BagToSet

LEMMA AddNeighborIsTable ==
  ASSUME NEW m, IsTable(m), NEW L, NEW n \in Node, NEW v \in Int
  PROVE  IsTable(AddNeighbor(m, L, n, v))
BY SatAssumption DEF IsTable, AddNeighbor, Put, Remove

LEMMA VoteIsTable ==
  ASSUME NEW m, IsTable(m), NEW L, NEW n \in Node
  PROVE  IsTable(Inc(m, L, n)) /\ IsTable(Dec(m, L, n))
<1>1. GetValue(m, n) \in Nat
  BY DEF IsTable, GetValue
<1>2. GetValue(m, n) + 1 \in Int /\ GetValue(m, n) - 1 \in Int
  BY <1>1
<1>. QED  BY <1>2, AddNeighborIsTable DEF Inc, Dec

LEMMA DecAllIsTable ==
  ASSUME NEW m, IsTable(m), NEW A
  PROVE  IsTable(DecAll(m, A))
BY SatAssumption DEF IsTable, DecAll

LEMMA GetAddressSubset ==
  ASSUME NEW m, IsTable(m), NEW k, NEW A \in GetAddress(m, k)
  PROVE  A \subseteq Node
BY DEF IsTable, GetAddress

(* One node's table replaced by a table. *)
LEMMA TableUpdate ==
  ASSUME TypeOK, NEW n \in Node, NEW m, IsTable(m),
         table' = [table EXCEPT ![n] = m]
  PROVE  /\ DOMAIN table' = Node
         /\ \A x \in Node : /\ DOMAIN table'[x] \subseteq Node
                            /\ \A y \in DOMAIN table'[x] : table'[x][y] \in Nat
BY DEF TypeOK, IsTable

LEMMA TablesAreTables == ASSUME TypeOK, NEW n \in Node PROVE IsTable(table[n])
BY DEF TypeOK, IsTable

LEMMA PacketTypes ==
  ASSUME NEW m \in Node, NEW n \in Node, NEW u \in Url
  PROVE  /\ \A t \in 0 .. MaxTTL : Probe(m, n, u, t) \in ProbePacket
         /\ \A q \in Node : Response(m, n, u, q) \in ResponsePacket
BY DEF Probe, Response, ProbePacket, ResponsePacket

-----------------------------------------------------------------------------
LEMMA InitIInv == Init => IInv
<1>. SUFFICES ASSUME Init PROVE IInv
  OBVIOUS
<1>1. IsABag(net) /\ BagToSet(net) \subseteq Packet
  BY DEF Init, IsABag, BagToSet, EmptyBag, SetToBag
<1>2. /\ DOMAIN table = Node
      /\ \A n \in Node : /\ DOMAIN table[n] \subseteq Node
                         /\ \A m \in DOMAIN table[n] : table[n][m] \in Nat
  BY RoutingAssumption, SatAssumption DEF Init
<1>3. TypeOK
  <2>1. /\ pending \in [Node -> SUBSET Entry]
        /\ nextId \in [Node -> Nat]
        /\ cache \in [Node -> [Url -> Node \cup {None}]]
        /\ DOMAIN scan = Node
        /\ \A n \in Node : scan[n] = NoScan
    BY DEF Init
  <2>2. /\ thread \in [Conn -> {"free", "dispatch", "add", "send", "done", "dead", "gone"}]
        /\ home \in [Conn -> Node \cup {None}]
        /\ wants \in [Conn -> Url \cup {None}]
        /\ route \in [Conn -> Conn \cup {None, Www}]
        /\ todo \in [Conn -> SUBSET Node]
    BY DEF Init
  <2>3. up \subseteq Node /\ asked \subseteq Ask /\ dups \in 0 .. MaxDup
    BY RoutingAssumption DEF Init
  <2>. QED  BY <1>1, <1>2, <2>1, <2>2, <2>3 DEF TypeOK
<1>4. HomeInv /\ EntryInv /\ ScanInv /\ PendingIffWaiting
  BY DEF Init, HomeInv, EntryInv, ScanInv, PendingIffWaiting, Waiting
<1>. QED  BY <1>3, <1>4 DEF IInv

(* Entries carry connections, and waiting connections have homes. *)
LEMMA EntryConn ==
  ASSUME TypeOK, NEW n \in Node, NEW e \in pending[n], e.conn # None
  PROVE  e.conn \in Conn
BY DEF TypeOK, Entry

(* A step that leaves the entries, and who waits where, as they are. *)
LEMMA KeepPending ==
  ASSUME TypeOK, PendingIffWaiting, UNCHANGED pending,
         \A d \in Conn : Waiting(d)' <=> Waiting(d),
         \A d \in Conn : Waiting(d) => home'[d] = home[d]
  PROVE  PendingIffWaiting'
<1>1. \A d \in Conn : Waiting(d)' => \E e \in pending'[home'[d]] : e.conn = d
  BY DEF PendingIffWaiting
<1>2. ASSUME NEW n \in Node, NEW e \in pending'[n], e.conn # None
      PROVE  Waiting(e.conn)' /\ home'[e.conn] = n
  <2>1. e.conn \in Conn
    BY <1>2, EntryConn
  <2>2. Waiting(e.conn) /\ home[e.conn] = n
    BY <1>2 DEF PendingIffWaiting
  <2>. QED  BY <2>1, <2>2
<1>3. \A n \in Node : \A e, f \in pending'[n] :
        e.conn = f.conn /\ e.conn # None => e = f
  BY DEF PendingIffWaiting
<1>. QED  BY <1>1, <1>2, <1>3 DEF PendingIffWaiting

-----------------------------------------------------------------------------
(* A new connection k at node n. *)
LEMMA StepBrowse == IInv /\ Browse => IInv'
<1>. SUFFICES ASSUME IInv, Browse PROVE IInv'
  OBVIOUS
<1>. USE DEF IInv
<1>1. PICK r \in Ask \ asked, k \in Conn :
        r[1] \in up /\ Fresh(k) /\ Accept(k, r[1], r[2], thread) /\ asked' = asked \cup {r}
  BY DEF Browse
<1>2. r[1] \in Node /\ r[2] \in Url /\ thread[k] = "free"
  BY <1>1, RoutingAssumption DEF Fresh
<1>3. /\ UNCHANGED <<table, pending, nextId, cache, scan, net, up, route, todo, dups>>
      /\ thread' = [thread EXCEPT ![k] = "dispatch"]
      /\ home' = [home EXCEPT ![k] = r[1]]
      /\ wants' = [wants EXCEPT ![k] = r[2]]
  BY <1>1 DEF Browse, Accept, nodeVars
<1>4. TypeOK'
  BY <1>1, <1>2, <1>3 DEF TypeOK
<1>5. HomeInv'
  BY <1>2, <1>3 DEF HomeInv, TypeOK
<1>6. EntryInv' /\ ScanInv'
  BY <1>3 DEF EntryInv, ScanInv
<1>7. PendingIffWaiting'
  <2>1. \A d \in Conn : Waiting(d)' <=> Waiting(d)
    BY <1>2, <1>3 DEF Waiting, TypeOK
  <2>2. \A d \in Conn : Waiting(d) => home'[d] = home[d]
    BY <1>2, <1>3 DEF Waiting, TypeOK
  <2>. QED  BY <1>3, <2>1, <2>2, KeepPending
<1>. QED  BY <1>4, <1>5, <1>6, <1>7

LEMMA StepServeLocally == ASSUME NEW c \in Conn, IInv, ServeLocally(c) PROVE IInv'
<1>. USE DEF IInv
<1>1. /\ thread[c] = "dispatch"
      /\ thread' = [thread EXCEPT ![c] = "done"]
      /\ route' = [route EXCEPT ![c] = Www]
      /\ UNCHANGED <<table, pending, nextId, cache, scan, net, up, home, wants, todo, asked, dups>>
  BY DEF ServeLocally, At, nodeVars
<1>2. TypeOK'
  BY <1>1 DEF TypeOK
<1>3. HomeInv'
  BY <1>1 DEF HomeInv, TypeOK
<1>4. EntryInv' /\ ScanInv'
  BY <1>1 DEF EntryInv, ScanInv
<1>5. PendingIffWaiting'
  <2>1. \A d \in Conn : Waiting(d)' <=> Waiting(d)
    BY <1>1, RoutingAssumption DEF Waiting, TypeOK
  <2>. QED  BY <1>1, <2>1, KeepPending
<1>. QED  BY <1>2, <1>3, <1>4, <1>5

LEMMA StepServeFromCache == ASSUME NEW c \in Conn, IInv, ServeFromCache(c) PROVE IInv'
<1>. USE DEF IInv
<1>1. PICK k \in Conn :
        /\ Fresh(k)
        /\ Accept(k, cache[home[c]][wants[c]], wants[c], [thread EXCEPT ![c] = "done"])
        /\ route' = [route EXCEPT ![c] = k]
  BY DEF ServeFromCache
<1>2. /\ thread[c] = "dispatch" /\ thread[k] = "free" /\ c # k
      /\ cache[home[c]][wants[c]] \in Node
      /\ home[c] \in Node /\ wants[c] \in Url
      /\ UNCHANGED <<table, pending, nextId, cache, scan, net, up, todo, asked, dups>>
  BY <1>1 DEF ServeFromCache, At, nodeVars, Fresh, HomeInv, TypeOK
<1>3. /\ thread' = [thread EXCEPT ![c] = "done", ![k] = "dispatch"]
      /\ home' = [home EXCEPT ![k] = cache[home[c]][wants[c]]]
      /\ wants' = [wants EXCEPT ![k] = wants[c]]
  BY <1>1, <1>2 DEF Accept
<1>4. TypeOK'
  BY <1>1, <1>2, <1>3 DEF TypeOK
<1>5. HomeInv'
  BY <1>1, <1>2, <1>3 DEF HomeInv, TypeOK
<1>6. EntryInv' /\ ScanInv'
  BY <1>2 DEF EntryInv, ScanInv
<1>7. PendingIffWaiting'
  <2>1. \A d \in Conn : Waiting(d)' <=> Waiting(d)
    BY <1>1, <1>2, <1>3, RoutingAssumption DEF Waiting, TypeOK
  <2>2. \A d \in Conn : Waiting(d) => home'[d] = home[d]
    BY <1>1, <1>2, <1>3 DEF Waiting, TypeOK
  <2>. QED  BY <1>2, <2>1, <2>2, KeepPending
<1>. QED  BY <1>4, <1>5, <1>6, <1>7

LEMMA StepDispatchFails ==
  ASSUME NEW c \in Conn, IInv, DispatchFails(c) \/ NeedsProbe(c) PROVE IInv'
<1>. USE DEF IInv
<1>1. PICK where \in {"dead", "add"} : thread' = [thread EXCEPT ![c] = where]
  BY DEF DispatchFails, NeedsProbe
<1>2. /\ thread[c] = "dispatch"
      /\ UNCHANGED <<table, pending, nextId, cache, scan, net, up, home, wants, route, todo, asked, dups>>
  BY DEF DispatchFails, NeedsProbe, At, nodeVars
<1>3. TypeOK'
  BY <1>1, <1>2 DEF TypeOK
<1>4. HomeInv'
  BY <1>1, <1>2 DEF HomeInv, TypeOK
<1>5. EntryInv' /\ ScanInv'
  BY <1>2 DEF EntryInv, ScanInv
<1>6. PendingIffWaiting'
  <2>1. \A d \in Conn : Waiting(d)' <=> Waiting(d)
    BY <1>1, <1>2 DEF Waiting, TypeOK
  <2>. QED  BY <1>2, <2>1, KeepPending
<1>. QED  BY <1>3, <1>4, <1>5, <1>6

(* A new entry of a node that is not looking anything up. *)
LEMMA EntryAdded ==
  ASSUME IInv, NEW n \in Node, scan[n] = NoScan,
         NEW u, NEW src, NEW c, src = None <=> c # None,
         pending' = [pending EXCEPT ![n] = @ \cup {NewEntry(n, u, src, c)}],
         nextId' = [nextId EXCEPT ![n] = @ + 1],
         UNCHANGED scan
  PROVE  EntryInv' /\ ScanInv'
<1>. USE DEF IInv
<1>1. nextId[n] \in Nat
  BY DEF TypeOK
<1>2. \A x \in Node : \A e \in pending[x] : e.id \in Nat
  BY DEF TypeOK, Entry
<1>3. EntryInv'
  <2>. SUFFICES ASSUME NEW x \in Node, NEW e \in pending'[x]
                PROVE  /\ e.src = None <=> e.conn # None
                       /\ e.id < nextId'[x]
                       /\ \A f \in pending'[x] : e.id = f.id => e = f
    BY DEF EntryInv
  <2>1. CASE x # n
    BY <2>1 DEF EntryInv, TypeOK
  <2>2. CASE x = n
    <3>1. pending'[n] = pending[n] \cup {NewEntry(n, u, src, c)} /\ nextId'[n] = nextId[n] + 1
      BY DEF TypeOK
    <3>2. NewEntry(n, u, src, c).id = nextId[n]
          /\ NewEntry(n, u, src, c).src = src /\ NewEntry(n, u, src, c).conn = c
      BY DEF NewEntry
    <3>. QED  BY <1>1, <1>2, <2>2, <3>1, <3>2 DEF EntryInv
  <2>. QED  BY <2>1, <2>2
<1>4. ScanInv'
  BY DEF ScanInv, TypeOK
<1>. QED  BY <1>3, <1>4

LEMMA StepAddPending == ASSUME NEW c \in Conn, IInv, AddPending(c) PROVE IInv'
<1>. USE DEF IInv
<1>. DEFINE n == home[c]
            new == NewEntry(n, wants[c], None, c)
<1>1. /\ thread[c] = "add" /\ n \in Node /\ wants[c] \in Url /\ route[c] = None
      /\ scan[n] = NoScan
  BY DEF AddPending, At, HomeInv, TypeOK
<1>2. /\ pending' = [pending EXCEPT ![n] = @ \cup {new}]
      /\ nextId' = [nextId EXCEPT ![n] = @ + 1]
      /\ UNCHANGED <<table, cache, scan, net, up, home, wants, route, asked, dups>>
  BY DEF AddPending
<1>3. PICK A \in GetAddress(table[n], Fanout) :
        /\ todo' = [todo EXCEPT ![c] = A]
        /\ thread' = [thread EXCEPT ![c] = IF A = {} THEN "done" ELSE "send"]
  BY DEF AddPending
<1>4. A \subseteq Node
  BY <1>1, TablesAreTables, GetAddressSubset
<1>5. new \in Entry /\ new.conn = c /\ c # None
  BY <1>1, RoutingAssumption DEF NewEntry, Entry, TypeOK
<1>6. TypeOK'
  <2>1. pending' \in [Node -> SUBSET Entry] /\ nextId' \in [Node -> Nat]
    BY <1>1, <1>2, <1>5 DEF TypeOK
  <2>2. todo' \in [Conn -> SUBSET Node]
        /\ thread' \in [Conn -> {"free", "dispatch", "add", "send", "done", "dead", "gone"}]
    BY <1>3, <1>4 DEF TypeOK
  <2>. QED  BY <1>2, <2>1, <2>2 DEF TypeOK
<1>7. HomeInv'
  BY <1>1, <1>2, <1>3 DEF HomeInv, TypeOK
<1>8. EntryInv' /\ ScanInv'
  BY <1>1, <1>2, <1>5, EntryAdded
<1>9. PendingIffWaiting'
  <2>1. \A d \in Conn : Waiting(d)' <=> (d = c \/ Waiting(d))
    BY <1>1, <1>2, <1>3 DEF Waiting, TypeOK
  <2>2. \A x \in Node : pending'[x] = IF x = n THEN pending[x] \cup {new} ELSE pending[x]
    BY <1>1, <1>2 DEF TypeOK
  <2>3. \A x \in Node : \A e \in pending[x] : e.conn # c
    BY <1>1, <1>5 DEF PendingIffWaiting, Waiting
  <2>4. \A d \in Conn : Waiting(d) => home[d] \in Node
    BY DEF Waiting, HomeInv
  <2>5. \A d \in Conn : Waiting(d)' => \E e \in pending'[home'[d]] : e.conn = d
    BY <1>1, <1>2, <1>5, <2>1, <2>2, <2>4 DEF PendingIffWaiting
  <2>6. ASSUME NEW x \in Node, NEW e \in pending'[x], e.conn # None
        PROVE  Waiting(e.conn)' /\ home'[e.conn] = x
    <3>1. CASE e \in pending[x]
      BY <1>2, <2>1, <2>6, <3>1, EntryConn DEF PendingIffWaiting
    <3>2. CASE e = new /\ x = n
      BY <1>2, <1>5, <2>1, <3>2
    <3>. QED  BY <2>2, <2>6, <3>1, <3>2
  <2>7. \A x \in Node : \A e, f \in pending'[x] :
          e.conn = f.conn /\ e.conn # None => e = f
    <3>. SUFFICES ASSUME NEW x \in Node, NEW e \in pending'[x], NEW f \in pending'[x],
                         e.conn = f.conn, e.conn # None
                  PROVE  e = f
      OBVIOUS
    <3>1. CASE e \in pending[x] /\ f \in pending[x]
      BY <3>1 DEF PendingIffWaiting
    <3>2. \A g \in pending'[x] : g.conn = c => g = new
      BY <2>2, <2>3
    <3>3. CASE e \notin pending[x] \/ f \notin pending[x]
      <4>1. e.conn = c /\ f.conn = c
        BY <1>5, <2>2, <3>3
      <4>. QED  BY <3>2, <4>1
    <3>. QED  BY <3>1, <3>3
  <2>. QED  BY <2>5, <2>6, <2>7 DEF PendingIffWaiting
<1>. QED  BY <1>6, <1>7, <1>8, <1>9

LEMMA StepSendProbe == ASSUME NEW c \in Conn, IInv, SendProbe(c) PROVE IInv'
<1>. USE DEF IInv
<1>. DEFINE n == home[c]
<1>1. PICK m \in todo[c] :
        /\ Send({Probe(n, m, wants[c], MaxTTL)})
        /\ table' = [table EXCEPT ![n] = Dec(@, {n}, m)]
        /\ todo' = [todo EXCEPT ![c] = @ \ {m}]
        /\ thread' = [thread EXCEPT ![c] = IF todo[c] = {m} THEN "done" ELSE "send"]
  BY DEF SendProbe
<1>2. /\ thread[c] = "send" /\ n \in Node /\ wants[c] \in Url /\ m \in Node
      /\ UNCHANGED <<pending, nextId, cache, scan, up, home, wants, route, asked, dups>>
  BY DEF SendProbe, At, HomeInv, TypeOK
<1>3. TypeOK'
  <2>1. Probe(n, m, wants[c], MaxTTL) \in Packet
    BY <1>2, PacketTypes, RoutingAssumption DEF Packet
  <2>2. IsABag(net') /\ BagToSet(net') \subseteq Packet
    BY <1>1, <2>1, BagAdd DEF Send, TypeOK
  <2>3. IsTable(Dec(table[n], {n}, m))
    BY <1>2, TablesAreTables, VoteIsTable
  <2>4. table' = [table EXCEPT ![n] = Dec(table[n], {n}, m)]
    BY <1>1
  <2>5. /\ DOMAIN table' = Node
        /\ \A x \in Node : /\ DOMAIN table'[x] \subseteq Node
                           /\ \A y \in DOMAIN table'[x] : table'[x][y] \in Nat
    BY <1>2, <2>3, <2>4, TableUpdate
  <2>6. todo' \in [Conn -> SUBSET Node]
        /\ thread' \in [Conn -> {"free", "dispatch", "add", "send", "done", "dead", "gone"}]
    BY <1>1 DEF TypeOK
  <2>. QED  BY <1>2, <2>2, <2>5, <2>6 DEF TypeOK
<1>4. HomeInv'
  BY <1>1, <1>2 DEF HomeInv, TypeOK
<1>5. EntryInv' /\ ScanInv'
  BY <1>2 DEF EntryInv, ScanInv
<1>6. PendingIffWaiting'
  <2>1. \A d \in Conn : Waiting(d)' <=> Waiting(d)
    BY <1>1, <1>2 DEF Waiting, TypeOK
  <2>. QED  BY <1>2, <2>1, KeepPending
<1>. QED  BY <1>3, <1>4, <1>5, <1>6

(* The thread ends early; its connection waits on. *)
LEMMA StepSendProbeFails == ASSUME NEW c \in Conn, IInv, SendProbeFails(c) PROVE IInv'
<1>. USE DEF IInv
<1>1. /\ thread[c] = "send"
      /\ todo' = [todo EXCEPT ![c] = {}]
      /\ thread' = [thread EXCEPT ![c] = "done"]
      /\ UNCHANGED <<table, pending, nextId, cache, scan, net, up, home, wants, route, asked, dups>>
  BY DEF SendProbeFails, At, nodeVars
<1>2. TypeOK'
  BY <1>1 DEF TypeOK
<1>3. HomeInv'
  BY <1>1 DEF HomeInv, TypeOK
<1>4. EntryInv' /\ ScanInv'
  BY <1>1 DEF EntryInv, ScanInv
<1>5. PendingIffWaiting'
  <2>1. \A d \in Conn : Waiting(d)' <=> Waiting(d)
    BY <1>1 DEF Waiting, TypeOK
  <2>. QED  BY <1>1, <2>1, KeepPending
<1>. QED  BY <1>2, <1>3, <1>4, <1>5

-----------------------------------------------------------------------------
(* The UDP thread on a probe.  Connections are not touched. *)
LEMMA ReplyType ==
  ASSUME TypeOK, NEW p, NEW S, S \subseteq Packet, Reply(p, S)
  PROVE  IsABag(net') /\ BagToSet(net') \subseteq Packet
BY BagAdd, BagTake DEF Reply, TypeOK

LEMMA StepProbeAnswered ==
  ASSUME NEW n \in Node, NEW p \in BagToSet(net), p.type = "PROBE", IInv,
         \/ AnswerLocally(n, p) \/ AnswerFromCache(n, p)
         \/ ProbeFails(n, p) \/ ProbeExpires(n, p)
  PROVE  IInv'
<1>. USE DEF IInv
<1>1. UNCHANGED <<table, pending, nextId, cache, scan, up, thread, home, wants, route, todo, asked, dups>>
  BY DEF AnswerLocally, AnswerFromCache, ProbeFails, ProbeExpires, ProbeUnchanged, nodeVars, connVars
<1>2. p \in ProbePacket
  BY DEF TypeOK, Packet, ResponsePacket
<1>3. \E S \in SUBSET Packet : Reply(p, S)
  <2>1. p.from \in Node /\ p.url \in Url
    BY <1>2 DEF ProbePacket
  <2>2. CASE AnswerLocally(n, p)
    BY <2>1, <2>2, PacketTypes DEF AnswerLocally, Packet
  <2>3. CASE AnswerFromCache(n, p)
    <3>1. cache[n][p.url] \in Node
      BY <2>3 DEF AnswerFromCache, TypeOK
    <3>2. Response(n, p.from, p.url, cache[n][p.url]) \in Packet
      BY <2>1, <3>1, PacketTypes DEF Packet
    <3>. QED  BY <2>3, <3>2 DEF AnswerFromCache
  <2>4. CASE ProbeFails(n, p) \/ ProbeExpires(n, p)
    BY <2>4 DEF ProbeFails, ProbeExpires
  <2>. QED  BY <2>2, <2>3, <2>4
<1>4. TypeOK'
  BY <1>1, <1>3, ReplyType DEF TypeOK
<1>5. HomeInv' /\ EntryInv' /\ ScanInv' /\ PendingIffWaiting'
  BY <1>1 DEF HomeInv, EntryInv, ScanInv, PendingIffWaiting, Waiting
<1>. QED  BY <1>4, <1>5

LEMMA StepForwardProbe ==
  ASSUME NEW n \in Node, NEW p \in BagToSet(net), p.type = "PROBE", IInv,
         ForwardProbe(n, p)
  PROVE  IInv'
<1>. USE DEF IInv
<1>. DEFINE new == NewEntry(n, p.url, p.from, None)
<1>1. /\ p \in ProbePacket /\ p.ttl > 0 /\ scan[n] = NoScan
      /\ p.from \in Node /\ p.url \in Url /\ p.ttl \in 0 .. MaxTTL
  BY DEF TypeOK, Packet, ResponsePacket, ProbePacket, ForwardProbe, Receives
<1>2. /\ pending' = [pending EXCEPT ![n] = @ \cup {new}]
      /\ nextId' = [nextId EXCEPT ![n] = @ + 1]
      /\ UNCHANGED <<cache, scan, up, thread, home, wants, route, todo, asked, dups>>
  BY DEF ForwardProbe, ProbeUnchanged, connVars
<1>a. PICK A \in GetAddress(table[n], Fanout) : \E B \in SUBSET A :
        /\ Reply(p, {Probe(n, m, p.url, p.ttl - 1) : m \in B})
        /\ table' = [table EXCEPT ![n] = DecAll(@, B)]
  BY DEF ForwardProbe
<1>3. PICK B \in SUBSET A :
        /\ Reply(p, {Probe(n, m, p.url, p.ttl - 1) : m \in B})
        /\ table' = [table EXCEPT ![n] = DecAll(@, B)]
  BY <1>a
<1>4. B \subseteq Node
  BY TablesAreTables, GetAddressSubset
<1>5. new \in Entry /\ new.conn = None /\ new.src = p.from /\ p.from # None
  BY <1>1, RoutingAssumption DEF NewEntry, Entry, TypeOK
<1>6. TypeOK'
  <2>1. p.ttl - 1 \in 0 .. MaxTTL
    BY <1>1, RoutingAssumption
  <2>2. {Probe(n, m, p.url, p.ttl - 1) : m \in B} \subseteq Packet
    BY <1>1, <1>4, <2>1, PacketTypes DEF Packet
  <2>3. IsABag(net') /\ BagToSet(net') \subseteq Packet
    BY <1>3, <2>2, ReplyType
  <2>4. IsTable(DecAll(table[n], B)) /\ table' = [table EXCEPT ![n] = DecAll(table[n], B)]
    BY <1>3, TablesAreTables, DecAllIsTable
  <2>5. /\ DOMAIN table' = Node
        /\ \A x \in Node : /\ DOMAIN table'[x] \subseteq Node
                           /\ \A y \in DOMAIN table'[x] : table'[x][y] \in Nat
    BY <2>4, TableUpdate
  <2>6. pending' \in [Node -> SUBSET Entry] /\ nextId' \in [Node -> Nat]
    BY <1>2, <1>5 DEF TypeOK
  <2>. QED  BY <1>2, <2>3, <2>5, <2>6 DEF TypeOK
<1>7. HomeInv'
  BY <1>2 DEF HomeInv
<1>8. EntryInv' /\ ScanInv'
  BY <1>1, <1>2, <1>5, EntryAdded
<1>9. PendingIffWaiting'
  <2>1. \A x \in Node : pending'[x] = IF x = n THEN pending[x] \cup {new} ELSE pending[x]
    BY <1>2 DEF TypeOK
  <2>2. \A d \in Conn : Waiting(d)' <=> Waiting(d)
    BY <1>2 DEF Waiting
  <2>3. \A d \in Conn : Waiting(d) => home[d] \in Node
    BY DEF Waiting, HomeInv
  <2>4. \A d \in Conn : Waiting(d)' => \E e \in pending'[home'[d]] : e.conn = d
    BY <1>2, <2>1, <2>2, <2>3 DEF PendingIffWaiting
  <2>5. \A x \in Node : \A e \in pending'[x] : e.conn # None => e \in pending[x]
    BY <1>5, <2>1
  <2>6. ASSUME NEW x \in Node, NEW e \in pending'[x], e.conn # None
        PROVE  Waiting(e.conn)' /\ home'[e.conn] = x
    BY <1>2, <2>2, <2>5, <2>6, EntryConn DEF PendingIffWaiting
  <2>7. \A x \in Node : \A e, f \in pending'[x] :
          e.conn = f.conn /\ e.conn # None => e = f
    BY <2>5 DEF PendingIffWaiting
  <2>. QED  BY <2>4, <2>6, <2>7 DEF PendingIffWaiting
<1>. QED  BY <1>6, <1>7, <1>8, <1>9

-----------------------------------------------------------------------------
(* The UDP thread on a response. *)
LEMMA StepReceiveResponse ==
  ASSUME NEW n \in Node, NEW p \in BagToSet(net), p.type = "RSP", IInv,
         ReceiveResponse(n, p)
  PROVE  IInv'
<1>. USE DEF IInv
<1>. DEFINE matching == {e \in pending[n] : e.url = p.url}
<1>1. p \in ResponsePacket /\ p.from \in Node
  BY DEF TypeOK, Packet, ProbePacket, ResponsePacket
<1>2. /\ Reply(p, {})
      /\ table' = [table EXCEPT ![n] = Inc(table[n], {n}, p.from)]
      /\ scan' = [scan EXCEPT ![n] =
                     IF matching = {} THEN NoScan
                     ELSE [at |-> "look", rsp |-> p, left |-> matching]]
      /\ UNCHANGED <<pending, nextId, cache, up, thread, home, wants, route, todo, asked, dups>>
  BY DEF ReceiveResponse, connVars
<1>3. TypeOK'
  <2>1. IsABag(net') /\ BagToSet(net') \subseteq Packet
    BY <1>2, ReplyType
  <2>2. IsTable(Inc(table[n], {n}, p.from))
    BY <1>1, TablesAreTables, VoteIsTable
  <2>3. /\ DOMAIN table' = Node
        /\ \A x \in Node : /\ DOMAIN table'[x] \subseteq Node
                           /\ \A y \in DOMAIN table'[x] : table'[x][y] \in Nat
    BY <1>2, <2>2, TableUpdate
  <2>4. matching \subseteq Entry
    BY DEF TypeOK
  <2>5. [at |-> "look", rsp |-> p, left |-> matching] \in Scan
    BY <1>1, <2>4 DEF Scan
  <2>6. DOMAIN scan' = Node /\ \A x \in Node : scan'[x] = NoScan \/ scan'[x] \in Scan
    BY <1>2, <2>5 DEF TypeOK
  <2>. QED  BY <1>2, <2>1, <2>3, <2>6 DEF TypeOK
<1>4. ScanInv'
  <2>. SUFFICES ASSUME NEW x \in Node, scan'[x] # NoScan
                PROVE  /\ scan'[x].left \subseteq pending'[x]
                       /\ \A e \in scan'[x].left : e.url = scan'[x].rsp.url
                       /\ scan'[x].at = "sent" =>
                            \A e \in scan'[x].left :
                              (\A f \in scan'[x].left : e.id <= f.id) => e.src # None
    BY DEF ScanInv
  <2>1. CASE x # n
    <3>1. scan'[x] = scan[x]
      BY <1>2, <2>1 DEF TypeOK
    <3>. QED  BY <1>2, <3>1 DEF ScanInv
  <2>2. CASE x = n
    <3>1. scan'[n] = [at |-> "look", rsp |-> p, left |-> matching]
      BY <1>2, <2>2 DEF TypeOK
    <3>. QED  BY <1>2, <2>2, <3>1
  <2>. QED  BY <2>1, <2>2
<1>5. HomeInv' /\ EntryInv' /\ PendingIffWaiting'
  BY <1>2 DEF HomeInv, EntryInv, PendingIffWaiting, Waiting
<1>. QED  BY <1>3, <1>4, <1>5

(* An entry that has been looked at and taken out. *)
LEMMA EntryRemoved ==
  ASSUME IInv, NEW n \in Node, scan[n] # NoScan, NEW e \in scan[n].left,
         RemoveEntry(n, e), UNCHANGED nextId
  PROVE  /\ pending' \in [Node -> SUBSET Entry]
         /\ DOMAIN scan' = Node
         /\ \A x \in Node : scan'[x] = NoScan \/ scan'[x] \in Scan
         /\ EntryInv' /\ ScanInv'
<1>. USE DEF IInv
<1>. DEFINE rest == [at |-> "look", rsp |-> scan[n].rsp, left |-> scan[n].left \ {e}]
<1>1. /\ pending' = [pending EXCEPT ![n] = @ \ {e}]
      /\ scan' = [scan EXCEPT ![n] = IF scan[n].left = {e} THEN NoScan ELSE rest]
  BY DEF RemoveEntry
<1>2. pending' \in [Node -> SUBSET Entry]
  BY <1>1 DEF TypeOK
<1>3. scan[n] \in Scan
  BY DEF TypeOK
<1>4. rest \in Scan
  BY <1>3 DEF Scan
<1>5. DOMAIN scan' = Node /\ \A x \in Node : scan'[x] = NoScan \/ scan'[x] \in Scan
  BY <1>1, <1>4 DEF TypeOK
<1>6. \A x \in Node : pending'[x] \subseteq pending[x]
  BY <1>1 DEF TypeOK
<1>7. EntryInv'
  BY <1>6 DEF EntryInv
<1>8. ScanInv'
  <2>. SUFFICES ASSUME NEW x \in Node, scan'[x] # NoScan
                PROVE  /\ scan'[x].left \subseteq pending'[x]
                       /\ \A f \in scan'[x].left : f.url = scan'[x].rsp.url
                       /\ scan'[x].at = "sent" =>
                            \A f \in scan'[x].left :
                              (\A g \in scan'[x].left : f.id <= g.id) => f.src # None
    BY DEF ScanInv
  <2>1. CASE x # n
    <3>1. scan'[x] = scan[x] /\ pending'[x] = pending[x]
      BY <1>1, <2>1 DEF TypeOK
    <3>. QED  BY <3>1 DEF ScanInv
  <2>2. CASE x = n
    <3>1. scan'[n] = rest /\ pending'[n] = pending[n] \ {e}
      BY <1>1, <2>2 DEF TypeOK
    <3>2. rest.left \subseteq pending[n] \ {e} /\ \A f \in rest.left : f.url = rest.rsp.url
      BY DEF ScanInv
    <3>. QED  BY <2>2, <3>1, <3>2
  <2>. QED  BY <2>1, <2>2
<1>. QED  BY <1>2, <1>5, <1>7, <1>8

(* The entry called back leaves together with its connection's waiting. *)
LEMMA StepCallBack ==
  ASSUME NEW n \in Node, NEW e \in pending[n], IInv, CallBack(n, e)
  PROVE  IInv'
<1>. USE DEF IInv
<1>. DEFINE src == scan[n].rsp.from
            c == e.conn
<1>1. /\ scan[n] # NoScan /\ e \in scan[n].left /\ e.src = None /\ src \in up
      /\ UNCHANGED <<table, nextId, cache, net, up, todo, asked, dups>>
      /\ RemoveEntry(n, e)
  BY DEF CallBack, Looking
<1>2. PICK k \in Conn :
        /\ Fresh(k)
        /\ Accept(k, src, wants[c], thread)
        /\ route' = [route EXCEPT ![c] = k]
  BY DEF CallBack
<1>3. /\ c # None /\ c \in Conn /\ Waiting(c) /\ home[c] = n
      /\ thread[k] = "free" /\ k # c /\ src \in Node /\ wants[c] \in Url
  <2>1. c # None
    BY <1>1 DEF EntryInv
  <2>2. c \in Conn
    BY <2>1, EntryConn
  <2>3. Waiting(c) /\ home[c] = n
    BY <2>1 DEF PendingIffWaiting
  <2>. QED  BY <1>1, <1>2, <2>1, <2>2, <2>3 DEF Waiting, Fresh, HomeInv, TypeOK
<1>4. /\ thread' = [thread EXCEPT ![k] = "dispatch"]
      /\ home' = [home EXCEPT ![k] = src]
      /\ wants' = [wants EXCEPT ![k] = wants[c]]
  BY <1>2 DEF Accept
<1>5. /\ pending' \in [Node -> SUBSET Entry]
      /\ DOMAIN scan' = Node
      /\ \A x \in Node : scan'[x] = NoScan \/ scan'[x] \in Scan
      /\ EntryInv' /\ ScanInv'
  BY <1>1, EntryRemoved
<1>6. TypeOK'
  BY <1>1, <1>2, <1>3, <1>4, <1>5 DEF TypeOK
<1>7. HomeInv'
  BY <1>2, <1>3, <1>4 DEF HomeInv, TypeOK, Waiting
<1>8. PendingIffWaiting'
  <2>1. k # None /\ route[k] = None
    BY <1>3, RoutingAssumption DEF HomeInv
  <2>2. \A d \in Conn : Waiting(d)' <=> (Waiting(d) /\ d # c)
    BY <1>2, <1>3, <1>4, <2>1 DEF Waiting, TypeOK
  <2>3. \A d \in Conn : Waiting(d) => home'[d] = home[d] /\ home[d] \in Node
    BY <1>3, <1>4 DEF Waiting, HomeInv, TypeOK
  <2>4. \A x \in Node : pending'[x] = IF x = n THEN pending[x] \ {e} ELSE pending[x]
    BY <1>1 DEF RemoveEntry, TypeOK
  <2>5. \A d \in Conn : Waiting(d)' => \E f \in pending'[home'[d]] : f.conn = d
    <3>. SUFFICES ASSUME NEW d \in Conn, Waiting(d), d # c
                  PROVE  \E f \in pending'[home[d]] : f.conn = d
      BY <2>2, <2>3
    <3>1. PICK f \in pending[home[d]] : f.conn = d
      BY DEF PendingIffWaiting
    <3>. QED  BY <2>3, <2>4, <3>1
  <2>6. \A x \in Node : \A f \in pending'[x] : f \in pending[x] /\ f.conn # None => f.conn # c
    <3>1. ASSUME NEW x \in Node, NEW f \in pending'[x], f \in pending[x], f.conn = c
          PROVE  FALSE
      <4>1. x = n
        BY <1>3, <3>1 DEF PendingIffWaiting
      <4>2. f = e
        BY <1>3, <3>1, <4>1 DEF PendingIffWaiting
      <4>. QED  BY <2>4, <3>1, <4>1, <4>2
    <3>. QED  BY <3>1
  <2>7. ASSUME NEW x \in Node, NEW f \in pending'[x], f.conn # None
        PROVE  Waiting(f.conn)' /\ home'[f.conn] = x
    <3>1. f \in pending[x]
      BY <2>4
    <3>2. f.conn \in Conn /\ f.conn # c
      BY <2>6, <2>7, <3>1, EntryConn
    <3>3. Waiting(f.conn) /\ home[f.conn] = x
      BY <2>7, <3>1 DEF PendingIffWaiting
    <3>. QED  BY <2>2, <2>3, <3>2, <3>3
  <2>8. \A x \in Node : \A f, g \in pending'[x] :
          f.conn = g.conn /\ f.conn # None => f = g
    <3>1. \A x \in Node : pending'[x] \subseteq pending[x]
      BY <2>4
    <3>. QED  BY <3>1 DEF PendingIffWaiting
  <2>. QED  BY <2>5, <2>7, <2>8 DEF PendingIffWaiting
<1>. QED  BY <1>5, <1>6, <1>7, <1>8

LEMMA StepCallBackFails ==
  ASSUME NEW n \in Node, NEW e \in pending[n], IInv, CallBackFails(n, e)
  PROVE  IInv'
<1>. USE DEF IInv
<1>1. /\ scan' = [scan EXCEPT ![n] = NoScan]
      /\ UNCHANGED <<table, pending, nextId, cache, net, up, thread, home, wants, route, todo, asked, dups>>
  BY DEF CallBackFails, connVars
<1>2. TypeOK'
  BY <1>1 DEF TypeOK
<1>3. \A x \in Node : scan'[x] = scan[x] \/ scan'[x] = NoScan
  BY <1>1 DEF TypeOK
<1>4. ScanInv'
  BY <1>1, <1>3 DEF ScanInv
<1>5. HomeInv' /\ EntryInv' /\ PendingIffWaiting'
  BY <1>1 DEF HomeInv, EntryInv, PendingIffWaiting, Waiting
<1>. QED  BY <1>2, <1>4, <1>5

(* The probe between sending and caching is the oldest left: there is one. *)
LEMMA StepRelayResponse ==
  ASSUME NEW n \in Node, NEW e \in pending[n], IInv, RelayResponse(n, e)
  PROVE  IInv'
<1>. USE DEF IInv
<1>. DEFINE r == scan[n].rsp
            own == Response(n, e.src, r.url, n)
            fwd == Response(n, e.src, r.url, r.proxy)
<1>1. /\ scan[n] # NoScan /\ e \in scan[n].left /\ e.src # None
      /\ \A f \in scan[n].left : e.id <= f.id
      /\ scan' = [scan EXCEPT ![n].at = "sent"]
      /\ UNCHANGED <<table, pending, nextId, cache, up, thread, home, wants, route, todo, asked, dups>>
  BY DEF RelayResponse, Looking, connVars
<1>2. PICK forge \in Oracle :
        net' = net (+) SetToBag({fwd}) (+) SetToBag(IF forge THEN {own} ELSE {})
  BY DEF RelayResponse
<1>3. /\ scan[n] \in Scan /\ r \in ResponsePacket /\ scan[n].left \subseteq Entry
      /\ e \in Entry /\ e.src \in Node
  BY <1>1 DEF TypeOK, Scan, Entry
<1>4. IsABag(net') /\ BagToSet(net') \subseteq Packet
  <2>1. fwd \in Packet /\ own \in Packet
    BY <1>3, PacketTypes DEF Packet, ResponsePacket
  <2>2. PICK B : B = net (+) SetToBag({fwd})
    OBVIOUS
  <2>3. IsABag(B) /\ BagToSet(B) \subseteq Packet
    BY <2>1, <2>2, BagAdd DEF TypeOK
  <2>4. PICK S \in SUBSET Packet : net' = B (+) SetToBag(S)
    BY <1>2, <2>1, <2>2
  <2>. QED  BY <2>3, <2>4, BagAdd
<1>5. /\ scan'[n] = [at |-> "sent", rsp |-> r, left |-> scan[n].left]
      /\ \A x \in Node : x # n => scan'[x] = scan[x]
      /\ DOMAIN scan' = Node
  <2>1. scan'[n] = [scan[n] EXCEPT !.at = "sent"] /\ DOMAIN scan' = Node
        /\ \A x \in Node : x # n => scan'[x] = scan[x]
    BY <1>1 DEF TypeOK
  <2>. QED  BY <1>3, <2>1 DEF Scan
<1>6. TypeOK'
  <2>1. scan'[n] \in Scan
    BY <1>3, <1>5 DEF Scan
  <2>. QED  BY <1>1, <1>4, <1>5, <2>1 DEF TypeOK
<1>7. ScanInv'
  <2>1. ASSUME NEW f \in scan[n].left, \A g \in scan[n].left : f.id <= g.id
        PROVE  f.src # None
    <3>1. f.id <= e.id /\ e.id <= f.id /\ f \in pending[n] /\ f.id \in Nat /\ e.id \in Nat
      BY <1>1, <1>3, <2>1 DEF ScanInv, Entry
    <3>2. f.id = e.id
      BY <3>1
    <3>3. f = e
      BY <3>1, <3>2 DEF EntryInv
    <3>. QED  BY <1>1, <3>3
  <2>2. \A x \in Node : x # n => scan'[x] = scan[x] /\ pending'[x] = pending[x]
    BY <1>1, <1>5
  <2>3. scan[n].left \subseteq pending'[n] /\ \A f \in scan[n].left : f.url = r.url
    BY <1>1 DEF ScanInv
  <2>. SUFFICES ASSUME NEW x \in Node, scan'[x] # NoScan
                PROVE  /\ scan'[x].left \subseteq pending'[x]
                       /\ \A f \in scan'[x].left : f.url = scan'[x].rsp.url
                       /\ scan'[x].at = "sent" =>
                            \A f \in scan'[x].left :
                              (\A g \in scan'[x].left : f.id <= g.id) => f.src # None
    BY DEF ScanInv
  <2>4. CASE x # n
    BY <2>2, <2>4 DEF ScanInv
  <2>5. CASE x = n
    BY <1>5, <2>1, <2>3, <2>5
  <2>. QED  BY <2>4, <2>5
<1>8. HomeInv' /\ EntryInv' /\ PendingIffWaiting'
  BY <1>1 DEF HomeInv, EntryInv, PendingIffWaiting, Waiting
<1>. QED  BY <1>6, <1>7, <1>8

(* The handler is left with the entry pending. *)
LEMMA StepRelayFails ==
  ASSUME NEW n \in Node, NEW e \in pending[n], IInv, RelayFails(n, e)
  PROVE  IInv'
<1>. USE DEF IInv
<1>. DEFINE own == Response(n, e.src, scan[n].rsp.url, n)
<1>1. /\ scan[n] # NoScan /\ e \in scan[n].left /\ e.src # None
      /\ scan' = [scan EXCEPT ![n] = NoScan]
      /\ UNCHANGED <<table, pending, nextId, cache, up, thread, home, wants, route, todo, asked, dups>>
  BY DEF RelayFails, Looking, connVars
<1>2. own \in Packet
  <2>1. scan[n].rsp \in ResponsePacket /\ e.src \in Node
    BY <1>1 DEF TypeOK, Scan, Entry
  <2>. QED  BY <2>1, PacketTypes DEF Packet, ResponsePacket
<1>3. IsABag(net') /\ BagToSet(net') \subseteq Packet
  <2>1. PICK S \in SUBSET Packet : net' = net (+) SetToBag(S)
    BY <1>2 DEF RelayFails
  <2>. QED  BY <2>1, BagAdd DEF TypeOK
<1>4. TypeOK'
  BY <1>1, <1>3 DEF TypeOK
<1>5. \A x \in Node : scan'[x] = scan[x] \/ scan'[x] = NoScan
  BY <1>1 DEF TypeOK
<1>6. ScanInv'
  BY <1>1, <1>5 DEF ScanInv
<1>7. HomeInv' /\ EntryInv' /\ PendingIffWaiting'
  BY <1>1 DEF HomeInv, EntryInv, PendingIffWaiting, Waiting
<1>. QED  BY <1>4, <1>6, <1>7

LEMMA StepCacheProxy ==
  ASSUME NEW n \in Node, NEW e \in pending[n], IInv, CacheProxy(n, e)
  PROVE  IInv'
<1>. USE DEF IInv
<1>1. /\ scan[n] # NoScan /\ scan[n].at = "sent" /\ e \in scan[n].left
      /\ \A f \in scan[n].left : e.id <= f.id
      /\ cache' = [cache EXCEPT ![n][e.url] = scan[n].rsp.proxy]
      /\ RemoveEntry(n, e)
      /\ UNCHANGED <<table, nextId, net, up, thread, home, wants, route, todo, asked, dups>>
  BY DEF CacheProxy, connVars
<1>2. e.src # None /\ e.conn = None
  BY <1>1 DEF ScanInv, EntryInv
<1>3. /\ pending' \in [Node -> SUBSET Entry]
      /\ DOMAIN scan' = Node
      /\ \A x \in Node : scan'[x] = NoScan \/ scan'[x] \in Scan
      /\ EntryInv' /\ ScanInv'
  BY <1>1, EntryRemoved
<1>4. TypeOK'
  <2>1. scan[n].rsp.proxy \in Node /\ e.url \in Url
    BY <1>1 DEF TypeOK, Scan, ResponsePacket, Entry
  <2>2. cache' \in [Node -> [Url -> Node \cup {None}]]
    BY <1>1, <2>1 DEF TypeOK
  <2>. QED  BY <1>1, <1>3, <2>2 DEF TypeOK
<1>5. HomeInv'
  BY <1>1 DEF HomeInv
<1>6. PendingIffWaiting'
  <2>1. \A x \in Node : pending'[x] = IF x = n THEN pending[x] \ {e} ELSE pending[x]
    BY <1>1 DEF RemoveEntry, TypeOK
  <2>2. \A d \in Conn : Waiting(d)' <=> Waiting(d)
    BY <1>1 DEF Waiting
  <2>3. \A d \in Conn : Waiting(d) => home[d] \in Node
    BY DEF Waiting, HomeInv
  <2>4. \A d \in Conn : Waiting(d)' => \E f \in pending'[home'[d]] : f.conn = d
    <3>. SUFFICES ASSUME NEW d \in Conn, Waiting(d)
                  PROVE  \E f \in pending'[home[d]] : f.conn = d
      BY <1>1, <2>2
    <3>1. PICK f \in pending[home[d]] : f.conn = d
      BY DEF PendingIffWaiting
    <3>2. f # e
      BY <1>2, <3>1, RoutingAssumption
    <3>. QED  BY <2>1, <2>3, <3>1, <3>2
  <2>5. ASSUME NEW x \in Node, NEW f \in pending'[x], f.conn # None
        PROVE  Waiting(f.conn)' /\ home'[f.conn] = x
    <3>1. f \in pending[x]
      BY <2>1
    <3>2. f.conn \in Conn /\ Waiting(f.conn) /\ home[f.conn] = x
      BY <2>5, <3>1, EntryConn DEF PendingIffWaiting
    <3>. QED  BY <1>1, <2>2, <3>2
  <2>6. \A x \in Node : \A f, g \in pending'[x] :
          f.conn = g.conn /\ f.conn # None => f = g
    <3>1. \A x \in Node : pending'[x] \subseteq pending[x]
      BY <2>1
    <3>. QED  BY <3>1 DEF PendingIffWaiting
  <2>. QED  BY <2>4, <2>5, <2>6 DEF PendingIffWaiting
<1>. QED  BY <1>3, <1>4, <1>5, <1>6

-----------------------------------------------------------------------------
(* The environment. *)
LEMMA StepNetwork ==
  ASSUME NEW p \in BagToSet(net), IInv, Lose(p) \/ Duplicate(p)
  PROVE  IInv'
<1>. USE DEF IInv
<1>1. UNCHANGED <<table, pending, nextId, cache, scan, up, thread, home, wants, route, todo, asked>>
  BY DEF Lose, Duplicate, nodeVars, connVars
<1>2. IsABag(net') /\ BagToSet(net') \subseteq Packet
  BY BagAdd, BagTake DEF Lose, Duplicate, Send, TypeOK
<1>3. dups' \in 0 .. MaxDup
  BY RoutingAssumption DEF Lose, Duplicate, TypeOK
<1>4. TypeOK'
  BY <1>1, <1>2, <1>3 DEF TypeOK
<1>5. HomeInv' /\ EntryInv' /\ ScanInv' /\ PendingIffWaiting'
  BY <1>1 DEF HomeInv, EntryInv, ScanInv, PendingIffWaiting, Waiting
<1>. QED  BY <1>4, <1>5

(* The node's entries go, and so do the connections that waited for them. *)
LEMMA StepCrash == ASSUME NEW n \in Node, IInv, Crash(n) PROVE IInv'
<1>. USE DEF IInv
<1>1. /\ up' = up \ {n}
      /\ pending' = [pending EXCEPT ![n] = {}]
      /\ cache' = [cache EXCEPT ![n] = [u \in Url |-> None]]
      /\ scan' = [scan EXCEPT ![n] = NoScan]
      /\ thread' = [c \in Conn |-> IF home[c] = n THEN "gone" ELSE thread[c]]
      /\ UNCHANGED <<table, nextId, net, home, wants, route, todo, asked, dups>>
  BY DEF Crash
<1>2. TypeOK'
  <2>1. cache' \in [Node -> [Url -> Node \cup {None}]]
    BY <1>1 DEF TypeOK
  <2>. QED  BY <1>1, <2>1 DEF TypeOK
<1>3. HomeInv'
  BY <1>1, RoutingAssumption DEF HomeInv, TypeOK
<1>4. /\ \A x \in Node : pending'[x] = IF x = n THEN {} ELSE pending[x]
      /\ \A x \in Node : scan'[x] = IF x = n THEN NoScan ELSE scan[x]
  BY <1>1 DEF TypeOK
<1>5. EntryInv' /\ ScanInv'
  BY <1>1, <1>4 DEF EntryInv, ScanInv
<1>6. PendingIffWaiting'
  <2>1. \A d \in Conn : Waiting(d)' <=> (Waiting(d) /\ home[d] # n)
    BY <1>1 DEF Waiting
  <2>2. \A d \in Conn : Waiting(d) => home[d] \in Node
    BY DEF Waiting, HomeInv
  <2>3. \A d \in Conn : Waiting(d)' => \E e \in pending'[home'[d]] : e.conn = d
    BY <1>1, <1>4, <2>1, <2>2 DEF PendingIffWaiting
  <2>4. ASSUME NEW x \in Node, NEW e \in pending'[x], e.conn # None
        PROVE  Waiting(e.conn)' /\ home'[e.conn] = x
    <3>1. x # n /\ e \in pending[x]
      BY <1>4
    <3>2. e.conn \in Conn /\ Waiting(e.conn) /\ home[e.conn] = x
      BY <2>4, <3>1, EntryConn DEF PendingIffWaiting
    <3>. QED  BY <1>1, <2>1, <3>1, <3>2
  <2>5. \A x \in Node : \A e, f \in pending'[x] :
          e.conn = f.conn /\ e.conn # None => e = f
    BY <1>4 DEF PendingIffWaiting
  <2>. QED  BY <2>3, <2>4, <2>5 DEF PendingIffWaiting
<1>. QED  BY <1>2, <1>3, <1>5, <1>6

-----------------------------------------------------------------------------
LEMMA Step == IInv /\ [Next]_vars => IInv'
<1>. SUFFICES ASSUME IInv, [Next]_vars PROVE IInv'
  OBVIOUS
<1>1. CASE Browse
  BY <1>1, StepBrowse
<1>2. ASSUME NEW c \in Conn, Connection(c) PROVE IInv'
  BY <1>2, StepServeLocally, StepServeFromCache, StepDispatchFails, StepAddPending,
     StepSendProbe, StepSendProbeFails DEF Connection, Dispatch
<1>3. ASSUME NEW n \in Node, UDPServer(n) PROVE IInv'
  <2>1. ASSUME NEW p \in BagToSet(net), p.type = "PROBE", ReceiveProbe(n, p)
        PROVE  IInv'
    BY <2>1, StepProbeAnswered, StepForwardProbe DEF ReceiveProbe
  <2>2. ASSUME NEW p \in BagToSet(net), p.type = "RSP", ReceiveResponse(n, p)
        PROVE  IInv'
    BY <2>2, StepReceiveResponse
  <2>3. ASSUME NEW e \in pending[n], LookUp(n, e) PROVE IInv'
    BY <2>3, StepCallBack, StepCallBackFails, StepRelayResponse, StepRelayFails, StepCacheProxy
    DEF LookUp
  <2>. QED  BY <1>3, <2>1, <2>2, <2>3 DEF UDPServer, Receive
<1>4. ASSUME NEW n \in Node, Crash(n) PROVE IInv'
  BY <1>4, StepCrash
<1>5. ASSUME NEW p \in BagToSet(net), Lose(p) \/ Duplicate(p) PROVE IInv'
  BY <1>5, StepNetwork
<1>6. CASE UNCHANGED vars
  <2>1. UNCHANGED <<table, pending, nextId, cache, scan, net, up, thread, home, wants, route, todo, asked, dups>>
    BY <1>6 DEF vars, nodeVars, connVars
  <2>2. TypeOK'
    BY <2>1 DEF TypeOK, IInv
  <2>3. HomeInv' /\ EntryInv' /\ ScanInv' /\ PendingIffWaiting'
    BY <2>1 DEF IInv, HomeInv, EntryInv, ScanInv, PendingIffWaiting, Waiting
  <2>. QED  BY <2>2, <2>3 DEF IInv
<1>. QED  BY <1>1, <1>2, <1>3, <1>4, <1>5, <1>6 DEF Next

(* The inductive invariant holds throughout. *)
THEOREM Invariance == Spec => []IInv
BY InitIInv, Step, PTL DEF Spec

(* Every variable keeps its type: TTLs within MAX_TTL, datagrams between
   nodes, satisfaction a natural number. *)
THEOREM Typing == Spec => []TypeOK
<1>1. IInv => TypeOK
  BY DEF IInv
<1>. QED  BY Invariance, <1>1, PTL

(* A connection waits for a response exactly while its node has an entry that
   will call it back, and has one such entry (UDPServer.java:187-219). *)
THEOREM WaitersArePending == Spec => []PendingIffWaiting
<1>1. IInv => PendingIffWaiting
  BY DEF IInv
<1>. QED  BY Invariance, <1>1, PTL

-----------------------------------------------------------------------------
(* What probe routing is for: that it implements ProxyService, that the nodes
   it names can serve, and that a cached proxy is kept. *)

st == [c \in Conn |-> Status(c)]

LEMMA StatusIs ==
  ASSUME NEW c \in Conn
  PROVE  /\ thread[c] = "free" => Status(c) = "idle"
         /\ thread[c] = "gone" => Status(c) = "gone"
         /\ thread[c] = "dead" => Status(c) = "failed"
         /\ thread[c] \notin {"free", "gone", "dead"} =>
              Status(c) = IF route[c] = None THEN "open" ELSE "routed"
BY DEF Status

LEMMA StatusBecomes ==
  ASSUME NEW c \in Conn
  PROVE  /\ thread'[c] = "free" => Status(c)' = "idle"
         /\ thread'[c] = "gone" => Status(c)' = "gone"
         /\ thread'[c] = "dead" => Status(c)' = "failed"
         /\ thread'[c] \notin {"free", "gone", "dead"} =>
              Status(c)' = IF route'[c] = None THEN "open" ELSE "routed"
BY DEF Status

(* Threads that go on without an end, on the routes they have. *)
LEMMA SameStatus ==
  ASSUME TypeOK, UNCHANGED route,
         \A d \in Conn : \/ thread'[d] = thread[d]
                         \/ /\ thread[d] \notin {"free", "gone", "dead"}
                            /\ thread'[d] \notin {"free", "gone", "dead"}
  PROVE  UNCHANGED <<st, route>>
<1>1. \A d \in Conn : Status(d)' = Status(d)
  <2>. TAKE d \in Conn
  <2>. QED  BY StatusIs, StatusBecomes DEF TypeOK
<1>. QED  BY <1>1 DEF st

LEMMA ServiceInit == Init => Service!Init
<1>. SUFFICES ASSUME Init PROVE Service!Init
  OBVIOUS
<1>1. \A c \in Conn : Status(c) = "idle"
  BY DEF Init, Status
<1>. QED  BY <1>1 DEF Init, Service!Init

LEMMA BrowseOpens == IInv /\ Browse => \E c \in Conn : Service!Open(c)
<1>. SUFFICES ASSUME IInv, Browse PROVE \E c \in Conn : Service!Open(c)
  OBVIOUS
<1>. USE DEF IInv
<1>1. PICK k \in Conn :
        thread[k] = "free" /\ thread' = [thread EXCEPT ![k] = "dispatch"] /\ UNCHANGED route
  BY DEF Browse, Fresh, Accept
<1>2. route[k] = None
  BY <1>1 DEF HomeInv
<1>3. Status(k) = "idle" /\ Status(k)' = "open"
  BY <1>1, <1>2, StatusIs, StatusBecomes DEF TypeOK
<1>4. \A d \in Conn : d # k => Status(d)' = Status(d)
  BY <1>1 DEF Status, TypeOK
<1>5. st' = [st EXCEPT ![k] = "open"]
  BY <1>3, <1>4 DEF st
<1>6. st[k] = "idle"
  BY <1>3 DEF st
<1>. QED  BY <1>1, <1>5, <1>6 DEF Service!Open, st

LEMMA DispatchServes ==
  ASSUME NEW c \in Conn, IInv
  PROVE  /\ ServeLocally(c) => Service!RouteToWeb(c)
         /\ ServeFromCache(c) => \E k \in Conn : Service!RouteToPeer(c, k)
         /\ DispatchFails(c) => Service!GiveUp(c)
         /\ NeedsProbe(c) => UNCHANGED <<st, route>>
<1>. USE DEF IInv
<1>1. ASSUME ServeLocally(c) PROVE Service!RouteToWeb(c)
  <2>1. /\ thread[c] = "dispatch" /\ route[c] = None
        /\ thread' = [thread EXCEPT ![c] = "done"]
        /\ route' = [route EXCEPT ![c] = Www]
    BY <1>1 DEF ServeLocally, At, HomeInv
  <2>2. Status(c) = "open" /\ Status(c)' = "routed"
    BY <2>1, StatusIs, StatusBecomes, RoutingAssumption DEF TypeOK
  <2>3. \A d \in Conn : d # c => Status(d)' = Status(d)
    BY <2>1 DEF Status, TypeOK
  <2>4. st' = [st EXCEPT ![c] = "routed"] /\ st[c] = "open"
    BY <2>2, <2>3 DEF st
  <2>. QED  BY <2>1, <2>4 DEF Service!RouteToWeb, st
<1>2. ASSUME ServeFromCache(c) PROVE \E k \in Conn : Service!RouteToPeer(c, k)
  <2>1. PICK k \in Conn :
          /\ thread[k] = "free"
          /\ thread' = [thread EXCEPT ![c] = "done", ![k] = "dispatch"]
          /\ route' = [route EXCEPT ![c] = k]
    BY <1>2 DEF ServeFromCache, Fresh, Accept
  <2>2. thread[c] = "dispatch" /\ route[c] = None /\ c # k /\ route[k] = None /\ k # None
    BY <1>2, <2>1, RoutingAssumption DEF ServeFromCache, At, HomeInv
  <2>3. Status(c) = "open" /\ Status(k) = "idle" /\ Status(c)' = "routed" /\ Status(k)' = "open"
    BY <2>1, <2>2, StatusIs, StatusBecomes DEF TypeOK
  <2>4. \A d \in Conn : d # c /\ d # k => Status(d)' = Status(d)
    BY <2>1 DEF Status, TypeOK
  <2>5. st' = [st EXCEPT ![c] = "routed", ![k] = "open"] /\ st[c] = "open" /\ st[k] = "idle"
    BY <2>3, <2>4 DEF st
  <2>. QED  BY <2>1, <2>5 DEF Service!RouteToPeer, st
<1>3. ASSUME DispatchFails(c) PROVE Service!GiveUp(c)
  <2>1. /\ thread[c] = "dispatch" /\ route[c] = None
        /\ thread' = [thread EXCEPT ![c] = "dead"] /\ UNCHANGED route
    BY <1>3 DEF DispatchFails, At, HomeInv
  <2>2. Status(c) = "open" /\ Status(c)' = "failed"
    BY <2>1, StatusIs, StatusBecomes DEF TypeOK
  <2>3. \A d \in Conn : d # c => Status(d)' = Status(d)
    BY <2>1 DEF Status, TypeOK
  <2>4. st' = [st EXCEPT ![c] = "failed"] /\ st[c] = "open"
    BY <2>2, <2>3 DEF st
  <2>. QED  BY <2>1, <2>4 DEF Service!GiveUp, st
<1>4. ASSUME NeedsProbe(c) PROVE UNCHANGED <<st, route>>
  BY <1>4, SameStatus DEF NeedsProbe, At, TypeOK
<1>. QED  BY <1>1, <1>2, <1>3, <1>4

LEMMA CallBackServes ==
  ASSUME NEW n \in Node, NEW e \in pending[n], IInv, CallBack(n, e)
  PROVE  \E c, k \in Conn : Service!RouteToPeer(c, k)
<1>. USE DEF IInv
<1>. DEFINE c == e.conn
<1>1. PICK k \in Conn :
        /\ thread[k] = "free"
        /\ thread' = [thread EXCEPT ![k] = "dispatch"]
        /\ route' = [route EXCEPT ![c] = k]
  BY DEF CallBack, Fresh, Accept
<1>2. c # None /\ c \in Conn /\ Waiting(c)
  BY EntryConn DEF CallBack, EntryInv, PendingIffWaiting
<1>3. c # k /\ route[c] = None /\ route[k] = None /\ k # None
  BY <1>1, <1>2, RoutingAssumption DEF Waiting, HomeInv
<1>4. Status(c) = "open" /\ Status(k) = "idle" /\ Status(c)' = "routed" /\ Status(k)' = "open"
  BY <1>1, <1>2, <1>3, StatusIs, StatusBecomes DEF TypeOK, Waiting
<1>5. \A d \in Conn : d # c /\ d # k => Status(d)' = Status(d)
  BY <1>1 DEF Status, TypeOK
<1>6. st' = [st EXCEPT ![c] = "routed", ![k] = "open"] /\ st[c] = "open" /\ st[k] = "idle"
  BY <1>2, <1>4, <1>5 DEF st
<1>. QED  BY <1>1, <1>2, <1>6 DEF Service!RouteToPeer, st

LEMMA CrashLoses ==
  ASSUME NEW n \in Node, IInv, Crash(n)
  PROVE  \E S \in SUBSET Conn : Service!LoseNode(S)
<1>. USE DEF IInv
<1>. DEFINE S == {c \in Conn : home[c] = n}
<1>1. thread' = [c \in Conn |-> IF home[c] = n THEN "gone" ELSE thread[c]] /\ UNCHANGED route
  BY DEF Crash
<1>2. \A c \in S : Status(c) # "idle"
  BY RoutingAssumption, StatusIs, ZenonT(60) DEF HomeInv, TypeOK
<1>3. \A c \in Conn : Status(c)' = IF c \in S THEN "gone" ELSE Status(c)
  BY <1>1 DEF Status
<1>4. st' = [c \in Conn |-> IF c \in S THEN "gone" ELSE st[c]]
  BY <1>3 DEF st
<1>. QED  BY <1>1, <1>2, <1>4 DEF Service!LoseNode, st

LEMMA ServiceStep == IInv /\ [Next]_vars => [Service!Next]_(Service!vars)
<1>. SUFFICES ASSUME IInv, [Next]_vars PROVE Service!Next \/ UNCHANGED <<st, route>>
  BY DEF Service!vars, st
<1>1. CASE Browse
  BY <1>1, BrowseOpens DEF Service!Next
<1>2. ASSUME NEW c \in Conn, Connection(c)
      PROVE  Service!Next \/ UNCHANGED <<st, route>>
  <2>1. CASE Dispatch(c)
    BY <2>1, DispatchServes DEF Dispatch, Service!Next
  <2>2. CASE AddPending(c)
    BY <2>2, SameStatus DEF AddPending, At, IInv, TypeOK
  <2>3. CASE SendProbe(c)
    BY <2>3, SameStatus DEF SendProbe, At, IInv, TypeOK
  <2>4. CASE SendProbeFails(c)
    BY <2>4, SameStatus DEF SendProbeFails, At, IInv, TypeOK
  <2>. QED  BY <1>2, <2>1, <2>2, <2>3, <2>4 DEF Connection
<1>3. ASSUME NEW n \in Node, UDPServer(n)
      PROVE  Service!Next \/ UNCHANGED <<st, route>>
  <2>1. ASSUME NEW e \in pending[n], CallBack(n, e) PROVE Service!Next
    BY <2>1, CallBackServes DEF Service!Next
  <2>2. ASSUME NEW p, ReceiveProbe(n, p) \/ ReceiveResponse(n, p)
        PROVE  UNCHANGED <<thread, route>>
    BY <2>2 DEF ReceiveProbe, AnswerLocally, AnswerFromCache, ProbeFails, ProbeExpires,
       ForwardProbe, ReceiveResponse, ProbeUnchanged, connVars
  <2>3. ASSUME NEW e, \/ CallBackFails(n, e) \/ RelayResponse(n, e)
                      \/ RelayFails(n, e) \/ CacheProxy(n, e)
        PROVE  UNCHANGED <<thread, route>>
    BY <2>3 DEF CallBackFails, RelayResponse, RelayFails, CacheProxy, connVars
  <2>4. Service!Next \/ UNCHANGED <<thread, route>>
    BY <1>3, <2>1, <2>2, <2>3 DEF UDPServer, Receive, LookUp
  <2>. QED  BY <2>4, SameStatus DEF IInv
<1>4. ASSUME NEW n \in Node, Crash(n) PROVE Service!Next
  BY <1>4, CrashLoses DEF Service!Next
<1>5. ASSUME NEW p, Lose(p) \/ Duplicate(p) PROVE UNCHANGED <<st, route>>
  BY <1>5, SameStatus DEF Lose, Duplicate, connVars, IInv
<1>6. CASE UNCHANGED vars
  BY <1>6, SameStatus DEF vars, connVars, IInv
<1>. QED  BY <1>1, <1>2, <1>3, <1>4, <1>5, <1>6 DEF Next

(* Routing implements the service for every overlay and network: one route
   per connection, never replaced, each far end opened for one pipe
   (Connection.java:118-161, 195-207; UDPServer.java:187-193). *)
THEOREM Refinement == Spec => ImplementsService
BY ServiceInit, ServiceStep, Invariance, PTL DEF Spec, Service!Spec, ImplementsService

-----------------------------------------------------------------------------
(* A datagram, a look-up or a cache names q as a node to go to for u. *)
InFlight(q, u) ==
  \E p \in BagToSet(net) : p.type = "RSP" /\ p.url = u /\ q \in {p.from, p.proxy}
LookedUp(q, u) ==
  \E n \in Node : scan[n] # NoScan /\ scan[n].rsp.url = u
                  /\ q \in {scan[n].rsp.from, scan[n].rsp.proxy}
Cached(q, u) == \E n \in Node : cache[n][u] = q

Named == \A q \in Node, u \in Url :
           InFlight(q, u) \/ LookedUp(q, u) \/ Cached(q, u) => CanServe(q, u)

LEMMA NamedSuffices == TypeOK /\ Named => NamedNodesCanServe
<1>. SUFFICES ASSUME TypeOK, Named PROVE NamedNodesCanServe
  OBVIOUS
<1>1. \A p \in BagToSet(net) : p.type = "RSP" =>
        CanServe(p.from, p.url) /\ CanServe(p.proxy, p.url)
  <2>. SUFFICES ASSUME NEW p \in BagToSet(net), p.type = "RSP"
                PROVE  CanServe(p.from, p.url) /\ CanServe(p.proxy, p.url)
    OBVIOUS
  <2>1. p.from \in Node /\ p.proxy \in Node /\ p.url \in Url
    BY DEF TypeOK, Packet, ProbePacket, ResponsePacket
  <2>2. InFlight(p.from, p.url) /\ InFlight(p.proxy, p.url)
    BY DEF InFlight
  <2>. QED  BY <2>1, <2>2 DEF Named
<1>2. \A n \in Node : scan[n] # NoScan =>
        CanServe(scan[n].rsp.from, scan[n].rsp.url) /\ CanServe(scan[n].rsp.proxy, scan[n].rsp.url)
  <2>. SUFFICES ASSUME NEW n \in Node, scan[n] # NoScan
                PROVE  /\ CanServe(scan[n].rsp.from, scan[n].rsp.url)
                       /\ CanServe(scan[n].rsp.proxy, scan[n].rsp.url)
    OBVIOUS
  <2>1. scan[n].rsp.from \in Node /\ scan[n].rsp.proxy \in Node /\ scan[n].rsp.url \in Url
    BY DEF TypeOK, Scan, ResponsePacket
  <2>2. LookedUp(scan[n].rsp.from, scan[n].rsp.url) /\ LookedUp(scan[n].rsp.proxy, scan[n].rsp.url)
    BY DEF LookedUp
  <2>. QED  BY <2>1, <2>2 DEF Named
<1>3. \A n \in Node, u \in Url : cache[n][u] # None => CanServe(cache[n][u], u)
  BY DEF Named, Cached, TypeOK
<1>. QED  BY <1>1, <1>2, <1>3 DEF NamedNodesCanServe

(* What a node can serve it can serve until it exits. *)
LEMMA CanServeOn ==
  ASSUME IInv, [Next]_vars, NEW q \in Node, NEW u \in Url, CanServe(q, u)
  PROVE  CanServe(q, u)'
<1>. USE DEF IInv
<1>1. CASE UNCHANGED <<cache, scan, up>>
  BY <1>1 DEF CanServe, AboutToCache
<1>2. ASSUME NEW n \in Node, NEW p, ReceiveResponse(n, p) PROVE CanServe(q, u)'
  <2>1. scan[n] = NoScan /\ UNCHANGED <<cache, up>> /\ \A x \in Node : x # n => scan'[x] = scan[x]
    BY <1>2 DEF ReceiveResponse, Receives, TypeOK, connVars
  <2>. QED  BY <2>1 DEF CanServe, AboutToCache
<1>3. ASSUME NEW n \in Node, NEW e \in pending[n], LookUp(n, e) PROVE CanServe(q, u)'
  <2>1. UNCHANGED up /\ \A x \in Node : x # n => scan'[x] = scan[x] /\ cache'[x] = cache[x]
    BY <1>3 DEF LookUp, CallBack, CallBackFails, RelayResponse, RelayFails, CacheProxy,
       RemoveEntry, TypeOK
  <2>2. CASE q # n
    BY <2>1, <2>2 DEF CanServe, AboutToCache
  <2>3. CASE q = n
    <3>1. CASE CacheProxy(n, e)
      <4>1. scan[n].rsp.proxy \in Node /\ e.url = scan[n].rsp.url /\ e.url \in Url
        BY <3>1 DEF CacheProxy, TypeOK, Scan, ResponsePacket, Entry, ScanInv
      <4>2. cache' = [cache EXCEPT ![n][e.url] = scan[n].rsp.proxy]
        BY <3>1 DEF CacheProxy
      <4>3. cache'[n][e.url] # None /\ \A v \in Url : cache'[n][v] = cache[n][v] \/ v = e.url
        BY <4>1, <4>2, RoutingAssumption DEF TypeOK
      <4>. QED  BY <2>1, <2>3, <4>1, <4>3 DEF CanServe, AboutToCache
    <3>2. CASE ~CacheProxy(n, e)
      <4>1. scan[n].at = "look" /\ UNCHANGED <<cache, up>>
        BY <1>3, <3>2 DEF LookUp, CallBack, CallBackFails, RelayResponse, RelayFails,
           Looking, connVars
      <4>. QED  BY <2>3, <4>1 DEF CanServe, AboutToCache
    <3>. QED  BY <3>1, <3>2
  <2>. QED  BY <2>2, <2>3
<1>4. ASSUME NEW n \in Node, Crash(n) PROVE CanServe(q, u)'
  <2>1. /\ up' = up \ {n}
        /\ \A x \in Node : x # n => scan'[x] = scan[x] /\ cache'[x] = cache[x]
    BY <1>4 DEF Crash, TypeOK
  <2>. QED  BY <2>1 DEF CanServe, AboutToCache
<1>5. ASSUME NEW n \in Node, NEW p, ReceiveProbe(n, p) PROVE UNCHANGED <<cache, scan, up>>
  BY <1>5 DEF ReceiveProbe, AnswerLocally, AnswerFromCache, ProbeFails, ProbeExpires,
     ForwardProbe, ProbeUnchanged, nodeVars
<1>6. ASSUME NEW c \in Conn, Connection(c) PROVE UNCHANGED <<cache, scan, up>>
  BY <1>6 DEF Connection, Dispatch, ServeLocally, ServeFromCache, DispatchFails, NeedsProbe,
     AddPending, SendProbe, SendProbeFails, nodeVars
<1>7. ASSUME NEW p, Browse \/ Lose(p) \/ Duplicate(p) \/ UNCHANGED vars
      PROVE  UNCHANGED <<cache, scan, up>>
  BY <1>7 DEF Browse, Lose, Duplicate, nodeVars, vars
<1>. QED  BY <1>1, <1>2, <1>3, <1>4, <1>5, <1>6, <1>7 DEF Next, UDPServer, Receive

Names(q, u) == InFlight(q, u) \/ LookedUp(q, u) \/ Cached(q, u)

(* The network, the look-ups and the caches name no one new. *)
LEMMA NoNewName ==
  ASSUME BagToSet(net') \subseteq BagToSet(net) \cup ProbePacket,
         \A x \in Node : scan'[x] # NoScan => scan[x] # NoScan /\ scan'[x].rsp = scan[x].rsp,
         \A x \in Node, v \in Url : cache'[x][v] \in {cache[x][v], None},
         NEW q \in Node, NEW u \in Url, Names(q, u)'
  PROVE  Names(q, u)
<1>1. InFlight(q, u)' => InFlight(q, u)
  BY DEF InFlight, ProbePacket
<1>2. LookedUp(q, u)' => LookedUp(q, u)
  BY DEF LookedUp
<1>3. Cached(q, u)' => Cached(q, u)
  BY RoutingAssumption DEF Cached
<1>. QED  BY <1>1, <1>2, <1>3 DEF Names

LEMMA ReplySet ==
  ASSUME TypeOK, NEW p, NEW S, Reply(p, S)
  PROVE  BagToSet(net') \subseteq BagToSet(net) \cup S
BY BagAdd, BagTake DEF Reply, TypeOK

LEMMA AnswerNames ==
  ASSUME IInv, NEW n \in Node, NEW p \in BagToSet(net), p.type = "PROBE", ReceiveProbe(n, p),
         NEW q \in Node, NEW u \in Url, Names(q, u)'
  PROVE  Names(q, u) \/ CanServe(q, u)
<1>. USE DEF IInv
<1>1. UNCHANGED <<cache, scan>>
  BY DEF ReceiveProbe, AnswerLocally, AnswerFromCache, ProbeFails, ProbeExpires,
     ForwardProbe, ProbeUnchanged, nodeVars
<1>2. LookedUp(q, u)' \/ Cached(q, u)' => Names(q, u)
  BY <1>1 DEF LookedUp, Cached, Names
<1>3. p \in ProbePacket /\ p.from \in Node /\ p.url \in Url /\ p.ttl \in 0 .. MaxTTL
  BY DEF TypeOK, Packet, ProbePacket, ResponsePacket
<1>4. ASSUME InFlight(q, u)' PROVE Names(q, u) \/ CanServe(q, u)
  <2>1. CASE AnswerLocally(n, p)
    <3>1. BagToSet(net') \subseteq BagToSet(net) \cup {Response(n, p.from, p.url, n)}
      BY <2>1, ReplySet DEF AnswerLocally
    <3>2. InFlight(q, u) \/ (q = n /\ u = p.url)
      BY <1>4, <3>1 DEF InFlight, Response
    <3>. QED  BY <2>1, <3>2 DEF AnswerLocally, CanServe, Names
  <2>2. CASE AnswerFromCache(n, p)
    <3>1. cache[n][p.url] \in Node
      BY <2>2 DEF AnswerFromCache, TypeOK
    <3>2. BagToSet(net') \subseteq BagToSet(net) \cup {Response(n, p.from, p.url, cache[n][p.url])}
      BY <2>2, ReplySet DEF AnswerFromCache
    <3>3. InFlight(q, u) \/ (q \in {n, cache[n][p.url]} /\ u = p.url)
      BY <1>4, <3>2 DEF InFlight, Response
    <3>. QED  BY <3>1, <3>3, RoutingAssumption DEF CanServe, Names, Cached
  <2>3. CASE ProbeFails(n, p) \/ ProbeExpires(n, p)
    <3>1. BagToSet(net') \subseteq BagToSet(net) \cup {}
      BY <2>3, ReplySet DEF ProbeFails, ProbeExpires
    <3>. QED  BY <1>4, <3>1 DEF InFlight, Names
  <2>4. CASE ForwardProbe(n, p)
    <3>1. PICK A : Reply(p, {Probe(n, m, p.url, p.ttl - 1) : m \in A})
      BY <2>4 DEF ForwardProbe
    <3>2. BagToSet(net') \subseteq BagToSet(net) \cup {Probe(n, m, p.url, p.ttl - 1) : m \in A}
      BY <3>1, ReplySet
    <3>. QED  BY <1>4, <3>2 DEF InFlight, Probe, Names
  <2>. QED  BY <2>1, <2>2, <2>3, <2>4 DEF ReceiveProbe
<1>. QED  BY <1>2, <1>4 DEF Names

LEMMA ReceiveNames ==
  ASSUME IInv, NEW n \in Node, NEW p \in BagToSet(net), p.type = "RSP", ReceiveResponse(n, p),
         NEW q \in Node, NEW u \in Url, Names(q, u)'
  PROVE  Names(q, u)
<1>. USE DEF IInv
<1>1. BagToSet(net') \subseteq BagToSet(net) \cup {}
  BY ReplySet DEF ReceiveResponse
<1>2. UNCHANGED cache
  BY DEF ReceiveResponse
<1>3. \A x \in Node : scan'[x] # NoScan => scan'[x].rsp = p \/ scan'[x] = scan[x]
  BY DEF ReceiveResponse, TypeOK
<1>4. InFlight(q, u)' => InFlight(q, u)
  BY <1>1 DEF InFlight
<1>5. LookedUp(q, u)' => LookedUp(q, u) \/ InFlight(q, u)
  BY <1>3 DEF LookedUp, InFlight
<1>6. Cached(q, u)' => Cached(q, u)
  BY <1>2 DEF Cached
<1>. QED  BY <1>4, <1>5, <1>6 DEF Names

LEMMA RelayNames ==
  ASSUME IInv, NEW n \in Node, NEW e \in pending[n], RelayResponse(n, e),
         NEW q \in Node, NEW u \in Url, Names(q, u)'
  PROVE  Names(q, u) \/ CanServe(q, u)'
<1>. USE DEF IInv
<1>. DEFINE r == scan[n].rsp
            own == Response(n, e.src, r.url, n)
            fwd == Response(n, e.src, r.url, r.proxy)
<1>1. scan[n] # NoScan /\ scan' = [scan EXCEPT ![n].at = "sent"] /\ UNCHANGED cache
  BY DEF RelayResponse, Looking
<1>2. /\ scan'[n] # NoScan /\ scan'[n].at = "sent" /\ scan'[n].rsp = r
      /\ \A x \in Node : x # n => scan'[x] = scan[x]
  BY <1>1 DEF TypeOK, Scan, NoScan
<1>3. BagToSet(net') \subseteq BagToSet(net) \cup {fwd, own}
  <2>1. PICK forge : net' = net (+) SetToBag({fwd}) (+) SetToBag(IF forge THEN {own} ELSE {})
    BY DEF RelayResponse
  <2>2. PICK B : B = net (+) SetToBag({fwd})
    OBVIOUS
  <2>3. IsABag(B) /\ BagToSet(B) = BagToSet(net) \cup {fwd}
    BY <2>2, BagAdd DEF TypeOK
  <2>4. PICK S \in SUBSET {own} : net' = B (+) SetToBag(S)
    BY <2>1, <2>2
  <2>5. BagToSet(net') = BagToSet(B) \cup S
    BY <2>3, <2>4, BagAdd
  <2>. QED  BY <2>3, <2>5
<1>4. InFlight(q, u)' => InFlight(q, u) \/ (u = r.url /\ q \in {n, r.proxy})
  BY <1>3 DEF InFlight, Response
<1>5. u = r.url /\ q = n => CanServe(q, u)'
  BY <1>2 DEF CanServe, AboutToCache
<1>6. u = r.url /\ q = r.proxy => LookedUp(q, u)
  BY <1>1 DEF LookedUp
<1>7. LookedUp(q, u)' => LookedUp(q, u)
  BY <1>1, <1>2 DEF LookedUp
<1>8. Cached(q, u)' => Cached(q, u)
  BY <1>1 DEF Cached
<1>. QED  BY <1>4, <1>5, <1>6, <1>7, <1>8 DEF Names

(* With no forged response out before it, a failure names no one. *)
LEMMA RelayFailsNames ==
  ASSUME ~Faulty \/ TRUE \notin Oracle,
         NEW n \in Node, NEW e \in pending[n], IInv, RelayFails(n, e),
         NEW q \in Node, NEW u \in Url, Names(q, u)'
  PROVE  Names(q, u)
<1>1. PICK forge \in Oracle :
        net' = net (+) SetToBag(IF forge THEN {Response(n, e.src, scan[n].rsp.url, n)} ELSE {})
  BY DEF RelayFails
<1>2. ~forge
  BY RoutingAssumption DEF RelayFails
<1>3. BagToSet(net') = BagToSet(net) \cup {}
  BY <1>1, <1>2, BagAdd DEF IInv, TypeOK
<1>4. \A x \in Node : scan'[x] # NoScan => scan[x] # NoScan /\ scan'[x].rsp = scan[x].rsp
  BY DEF RelayFails, IInv, TypeOK
<1>5. UNCHANGED cache
  BY DEF RelayFails
<1>. QED  BY <1>3, <1>4, <1>5, NoNewName

LEMMA CacheNames ==
  ASSUME IInv, NEW n \in Node, NEW e \in pending[n], CacheProxy(n, e),
         NEW q \in Node, NEW u \in Url, Names(q, u)'
  PROVE  Names(q, u)
<1>. USE DEF IInv
<1>. DEFINE r == scan[n].rsp
<1>1. /\ scan[n] # NoScan /\ UNCHANGED net
      /\ cache' = [cache EXCEPT ![n][e.url] = r.proxy]
      /\ e.url = r.url /\ e.url \in Url
  BY DEF CacheProxy, ScanInv, TypeOK, Entry
<1>2. \A x \in Node : scan'[x] # NoScan => scan[x] # NoScan /\ scan'[x].rsp = scan[x].rsp
  BY <1>1 DEF CacheProxy, RemoveEntry, TypeOK
<1>3. \A x \in Node, v \in Url :
        cache'[x][v] = cache[x][v] \/ (x = n /\ v = e.url /\ cache'[x][v] = r.proxy)
  BY <1>1 DEF TypeOK
<1>4. InFlight(q, u)' => InFlight(q, u)
  BY <1>1 DEF InFlight
<1>5. LookedUp(q, u)' => LookedUp(q, u)
  BY <1>2 DEF LookedUp
<1>6. Cached(q, u)' => Cached(q, u) \/ LookedUp(q, u)
  BY <1>1, <1>3 DEF Cached, LookedUp
<1>. QED  BY <1>4, <1>5, <1>6 DEF Names

LEMMA NamedStep ==
  ASSUME ~Faulty \/ TRUE \notin Oracle PROVE IInv /\ Named /\ [Next]_vars => Named'
<1>. SUFFICES ASSUME IInv, Named, [Next]_vars, NEW q \in Node, NEW u \in Url, Names(q, u)'
              PROVE  CanServe(q, u)'
  BY DEF Named, Names
<1>1. SUFFICES Names(q, u) \/ CanServe(q, u) \/ CanServe(q, u)'
  BY CanServeOn DEF Named, Names
<1>2. ASSUME NEW n \in Node, UDPServer(n)
      PROVE  Names(q, u) \/ CanServe(q, u) \/ CanServe(q, u)'
  <2>1. ASSUME NEW e \in pending[n], CallBack(n, e) \/ CallBackFails(n, e) PROVE Names(q, u)
    <3>1. UNCHANGED <<net, cache>>
      BY <2>1 DEF CallBack, CallBackFails
    <3>2. \A x \in Node : scan'[x] # NoScan => scan[x] # NoScan /\ scan'[x].rsp = scan[x].rsp
      BY <2>1 DEF CallBack, CallBackFails, RemoveEntry, Looking, IInv, TypeOK
    <3>. QED  BY <3>1, <3>2, NoNewName
  <2>. QED  BY <1>2, <2>1, AnswerNames, ReceiveNames, RelayNames, RelayFailsNames, CacheNames
            DEF UDPServer, Receive, LookUp
<1>3. ASSUME NEW n \in Node, Crash(n) PROVE Names(q, u)
  <2>1. UNCHANGED net /\ \A x \in Node : scan'[x] # NoScan => scan'[x] = scan[x]
    BY <1>3 DEF Crash, IInv, TypeOK
  <2>2. \A x \in Node, v \in Url : cache'[x][v] \in {cache[x][v], None}
    BY <1>3 DEF Crash, IInv, TypeOK
  <2>. QED  BY <2>1, <2>2, NoNewName
<1>4. ASSUME NEW c \in Conn, Connection(c) PROVE Names(q, u)
  <2>1. UNCHANGED <<cache, scan>>
    BY <1>4 DEF Connection, Dispatch, ServeLocally, ServeFromCache, DispatchFails, NeedsProbe,
       AddPending, SendProbe, SendProbeFails, nodeVars
  <2>2. BagToSet(net') \subseteq BagToSet(net) \cup ProbePacket
    <3>1. CASE SendProbe(c)
      <4>1. home[c] \in Node /\ wants[c] \in Url
        BY <3>1 DEF SendProbe, At, IInv, HomeInv
      <4>2. PICK m \in Node : Send({Probe(home[c], m, wants[c], MaxTTL)})
        BY <3>1 DEF SendProbe, IInv, TypeOK
      <4>3. Probe(home[c], m, wants[c], MaxTTL) \in ProbePacket
        BY <4>1, PacketTypes, RoutingAssumption
      <4>. QED  BY <4>2, <4>3, BagAdd DEF Send, IInv, TypeOK
    <3>2. CASE ~SendProbe(c)
      BY <1>4, <3>2 DEF Connection, Dispatch, ServeLocally, ServeFromCache, DispatchFails,
         NeedsProbe, AddPending, SendProbeFails
    <3>. QED  BY <3>1, <3>2
  <2>. QED  BY <2>1, <2>2, NoNewName
<1>5. ASSUME NEW p \in BagToSet(net), Lose(p) \/ Duplicate(p) PROVE Names(q, u)
  <2>1. BagToSet(net') \subseteq BagToSet(net) /\ UNCHANGED <<cache, scan>>
    BY <1>5, BagAdd, BagTake DEF Lose, Duplicate, Send, IInv, TypeOK, nodeVars
  <2>. QED  BY <2>1, NoNewName
<1>6. CASE Browse \/ UNCHANGED vars
  <2>1. UNCHANGED <<net, cache, scan>>
    BY <1>6 DEF Browse, nodeVars, vars
  <2>. QED  BY <2>1, NoNewName
<1>. QED  BY <1>2, <1>3, <1>4, <1>5, <1>6 DEF Next

(* Every node that a response or a cache entry names can serve the URL, or
   has exited: the requester that connects to it is served or refused, never
   sent on in ignorance (UDPServer.java:146-154, 187-211).  A send may fail,
   unless nodes also put their own names into responses: a send that fails
   between the two would leave the claim without the cache entry. *)
THEOREM NamedServe ==
  ASSUME ~Faulty \/ TRUE \notin Oracle PROVE Spec => []NamedNodesCanServe
<1>1. Init => Named
  <2>. SUFFICES ASSUME Init, NEW q \in Node, NEW u \in Url PROVE ~Names(q, u)
    BY DEF Named, Names
  <2>1. BagToSet(net) = {}
    BY DEF Init, EmptyBag, SetToBag, BagToSet
  <2>. QED  BY <2>1, RoutingAssumption DEF Init, Names, InFlight, LookedUp, Cached
<1>2. IInv => TypeOK
  BY DEF IInv
<1>3. IInv /\ Named /\ [Next]_vars => Named'
  BY NamedStep
<1>. QED  BY <1>1, <1>2, <1>3, NamedSuffices, Invariance, PTL DEF Spec

-----------------------------------------------------------------------------
(* A look-up has all the entries of its URL before it, and while all nodes
   live a relayed probe is pending for a cached URL only during the look-up
   that cached it. *)
ScanAll ==
  \A n \in Node : scan[n] # NoScan =>
    \A e \in pending[n] : e.url = scan[n].rsp.url => e \in scan[n].left

CachedByScan(n, e) ==
  /\ scan[n] # NoScan
  /\ e.url = scan[n].rsp.url
  /\ cache[n][e.url] = scan[n].rsp.proxy

OnceInv ==
  /\ ScanAll
  /\ up = Node => \A n \in Node : \A e \in pending[n] :
                    e.src # None /\ cache[n][e.url] # None => CachedByScan(n, e)

LEMMA OnceKept ==
  ASSUME IInv, OnceInv, UNCHANGED <<pending, cache, scan>>, up' = up
  PROVE  OnceInv'
BY DEF OnceInv, ScanAll, CachedByScan

LEMMA OnceAdded ==
  ASSUME IInv, OnceInv, NEW n \in Node, scan[n] = NoScan, NEW e,
         e.src = None \/ cache[n][e.url] = None,
         pending' = [pending EXCEPT ![n] = @ \cup {e}],
         UNCHANGED <<cache, scan>>, up' = up
  PROVE  OnceInv'
<1>1. \A x \in Node : pending'[x] = IF x = n THEN pending[x] \cup {e} ELSE pending[x]
  BY DEF IInv, TypeOK
<1>. QED  BY <1>1 DEF OnceInv, ScanAll, CachedByScan

LEMMA OnceLookUp ==
  ASSUME ~Faulty, IInv, OnceInv, NEW n \in Node, NEW e \in pending[n], LookUp(n, e)
  PROVE  /\ OnceInv'
         /\ up = Node => \A x \in Node, v \in Url :
              cache[x][v] # None => cache'[x][v] = cache[x][v]
<1>. USE DEF IInv
<1>1. /\ scan[n] # NoScan /\ e \in scan[n].left /\ up' = up
      /\ e.url = scan[n].rsp.url /\ e.url \in Url
      /\ \A x \in Node : x # n =>
           scan'[x] = scan[x] /\ pending'[x] = pending[x] /\ cache'[x] = cache[x]
  BY SMTT(30) DEF LookUp, CallBack, CallBackFails, RelayResponse, RelayFails, CacheProxy, RemoveEntry,
     Looking, ScanInv, TypeOK, Entry
<1>2. ASSUME UNCHANGED <<pending, cache>>, scan'[n].rsp = scan[n].rsp,
             scan'[n].left = scan[n].left, scan'[n] # NoScan
      PROVE  OnceInv'
  BY <1>1, <1>2 DEF OnceInv, ScanAll, CachedByScan
<1>3. ASSUME RemoveEntry(n, e),
             \A v \in Url : v # e.url => cache'[n][v] = cache[n][v],
             \/ cache'[n][e.url] = scan[n].rsp.proxy
             \/ cache'[n][e.url] = cache[n][e.url]
      PROVE  OnceInv'
  <2>1. /\ pending'[n] = pending[n] \ {e}
        /\ scan'[n] = IF scan[n].left = {e} THEN NoScan
                      ELSE [at |-> "look", rsp |-> scan[n].rsp, left |-> scan[n].left \ {e}]
    BY <1>3 DEF RemoveEntry, TypeOK
  <2>2. scan'[n] # NoScan <=> scan[n].left # {e}
    BY <2>1 DEF NoScan
  <2>3. ScanAll'
    BY <1>1, <2>1, <2>2 DEF OnceInv, ScanAll
  <2>4. ASSUME up = Node, NEW f \in pending'[n], f.src # None, cache'[n][f.url] # None
        PROVE  CachedByScan(n, f)'
    <3>1. f \in pending[n] /\ f # e /\ f.url \in Url
      BY <2>1 DEF TypeOK, Entry
    <3>2. f.url = e.url
      BY <1>1, <1>3, <2>4, <3>1 DEF OnceInv, CachedByScan
    <3>3. f \in scan[n].left
      BY <1>1, <3>1, <3>2 DEF OnceInv, ScanAll
    <3>4. scan'[n] # NoScan /\ scan'[n].rsp = scan[n].rsp
      BY <2>1, <2>2, <3>1, <3>3
    <3>5. cache'[n][e.url] = scan[n].rsp.proxy
      BY <1>3, <2>4, <3>1, <3>2 DEF OnceInv, CachedByScan
    <3>. QED  BY <1>1, <3>2, <3>4, <3>5 DEF CachedByScan
  <2>. QED  BY <1>1, <2>3, <2>4 DEF OnceInv, CachedByScan
<1>4. CASE CallBack(n, e)
  BY <1>3, <1>4 DEF CallBack
<1>5. CASE CallBackFails(n, e)
  <2>1. up # Node
    BY <1>1, <1>5 DEF CallBackFails, TypeOK, Scan, ResponsePacket
  <2>2. UNCHANGED <<pending, cache>> /\ scan'[n] = NoScan
    BY <1>5 DEF CallBackFails, TypeOK
  <2>. QED  BY <1>1, <2>1, <2>2 DEF OnceInv, ScanAll
<1>6. CASE RelayResponse(n, e)
  <2>1. UNCHANGED <<pending, cache>> /\ scan' = [scan EXCEPT ![n].at = "sent"]
    BY <1>6 DEF RelayResponse
  <2>2. scan'[n].rsp = scan[n].rsp /\ scan'[n].left = scan[n].left /\ scan'[n] # NoScan
    BY <1>1, <2>1 DEF TypeOK, Scan, NoScan
  <2>. QED  BY <1>2, <2>1, <2>2
<1>7. CASE CacheProxy(n, e)
  <2>1. RemoveEntry(n, e) /\ cache' = [cache EXCEPT ![n][e.url] = scan[n].rsp.proxy]
    BY <1>7 DEF CacheProxy
  <2>2. /\ \A v \in Url : v # e.url => cache'[n][v] = cache[n][v]
        /\ cache'[n][e.url] = scan[n].rsp.proxy
    BY <1>1, <2>1 DEF TypeOK
  <2>3. e.src # None
    BY <1>1, <1>7 DEF CacheProxy, ScanInv
  <2>4. up = Node /\ cache[n][e.url] # None => cache[n][e.url] = scan[n].rsp.proxy
    BY <2>3 DEF OnceInv, CachedByScan
  <2>. QED  BY <1>1, <1>3, <2>1, <2>2, <2>4
<1>. QED  BY <1>4, <1>5, <1>6, <1>7 DEF LookUp, RelayFails

LEMMA OnceStep ==
  ASSUME ~Faulty
  PROVE  IInv /\ OnceInv /\ [Next]_vars =>
           /\ OnceInv'
           /\ up = Node => \A n \in Node, u \in Url :
                cache[n][u] # None => cache'[n][u] = cache[n][u] \/ up' # Node
<1>. SUFFICES ASSUME IInv, OnceInv, [Next]_vars
              PROVE  /\ OnceInv'
                     /\ up = Node => \A n \in Node, u \in Url :
                          cache[n][u] # None => cache'[n][u] = cache[n][u] \/ up' # Node
  OBVIOUS
<1>1. ASSUME NEW c \in Conn, Connection(c) PROVE OnceInv' /\ UNCHANGED cache
  <2>1. CASE AddPending(c)
    <3>1. home[c] \in Node /\ NewEntry(home[c], wants[c], None, c).src = None
      BY <2>1 DEF AddPending, At, IInv, TypeOK, NewEntry
    <3>. QED  BY <2>1, <3>1, OnceAdded DEF AddPending
  <2>2. CASE ~AddPending(c)
    BY <1>1, <2>2, OnceKept DEF Connection, Dispatch, ServeLocally, ServeFromCache,
       DispatchFails, NeedsProbe, SendProbe, SendProbeFails, nodeVars
  <2>. QED  BY <2>1, <2>2
<1>2. ASSUME NEW n \in Node, NEW p \in BagToSet(net), ReceiveProbe(n, p)
      PROVE  OnceInv' /\ UNCHANGED cache
  <2>1. CASE ForwardProbe(n, p)
    <3>1. NewEntry(n, p.url, p.from, None).url = p.url
      BY DEF NewEntry
    <3>. QED  BY <2>1, <3>1, OnceAdded DEF ForwardProbe, Receives, ProbeUnchanged
  <2>2. CASE ~ForwardProbe(n, p)
    BY <1>2, <2>2, OnceKept DEF ReceiveProbe, AnswerLocally, AnswerFromCache, ProbeFails,
       ProbeExpires, ProbeUnchanged, nodeVars
  <2>. QED  BY <2>1, <2>2
<1>3. ASSUME NEW n \in Node, NEW p \in BagToSet(net), ReceiveResponse(n, p)
      PROVE  OnceInv' /\ UNCHANGED cache
  <2>. DEFINE matching == {e \in pending[n] : e.url = p.url}
  <2>1. /\ scan[n] = NoScan /\ UNCHANGED <<pending, cache>> /\ up' = up
        /\ scan' = [scan EXCEPT ![n] =
                      IF matching = {} THEN NoScan
                      ELSE [at |-> "look", rsp |-> p, left |-> matching]]
    BY <1>3 DEF ReceiveResponse, Receives
  <2>2. scan'[n] = (IF matching = {} THEN NoScan
                    ELSE [at |-> "look", rsp |-> p, left |-> matching])
        /\ \A x \in Node : x # n => scan'[x] = scan[x]
    BY <2>1 DEF IInv, TypeOK
  <2>. QED  BY <2>1, <2>2 DEF OnceInv, ScanAll, CachedByScan
<1>4. ASSUME NEW n \in Node, Crash(n) PROVE OnceInv' /\ up' # Node
  <2>1. /\ \A x \in Node : x # n => scan'[x] = scan[x] /\ pending'[x] = pending[x]
        /\ scan'[n] = NoScan /\ up' # Node
    BY <1>4 DEF Crash, IInv, TypeOK
  <2>. QED  BY <2>1 DEF OnceInv, ScanAll
<1>5. ASSUME NEW p, Browse \/ Lose(p) \/ Duplicate(p) \/ UNCHANGED vars
      PROVE  OnceInv' /\ UNCHANGED cache
  BY <1>5, OnceKept DEF Browse, Lose, Duplicate, nodeVars, vars
<1>6. ASSUME NEW n \in Node, UDPServer(n)
      PROVE  /\ OnceInv'
             /\ up = Node => \A x \in Node, v \in Url :
                  cache[x][v] # None => cache'[x][v] = cache[x][v]
  BY <1>2, <1>3, <1>6, OnceLookUp DEF UDPServer, Receive
<1>. QED  BY <1>1, <1>4, <1>5, <1>6 DEF Next

(* While all nodes live and no send fails a cached proxy is never replaced,
   however often the network duplicates a response (UDPServer.java:185-219). *)
THEOREM CachedForGood == ASSUME ~Faulty PROVE Spec => CacheWrittenOnce
<1>1. Init => OnceInv
  BY DEF Init, OnceInv, ScanAll
<1>2. IInv /\ OnceInv /\ [Next]_vars =>
        [up = Node /\ up' = Node =>
           \A n \in Node, u \in Url : cache[n][u] # None => cache'[n][u] = cache[n][u]]_vars
  BY OnceStep
<1>3. IInv /\ OnceInv /\ [Next]_vars => OnceInv'
  BY OnceStep
<1>. QED  BY <1>1, <1>2, <1>3, Invariance, PTL DEF Spec, CacheWrittenOnce

-----------------------------------------------------------------------------
(* Where a request for u that n cannot serve itself goes on to: n's cache
   entry, or the one that n has told of and is about to write. *)
Leads(n, u) == IF AboutToCache(n, u) THEN scan[n].rsp.proxy ELSE cache[n][u]

Closed(S, u) == S # {} /\ \A n \in S : Reach[n][u] # "ok" /\ Leads(n, u) \in S

(* What a node has told of is what it has cached, if it has cached before. *)
SentAgrees ==
  \A n \in Node, u \in Url :
    AboutToCache(n, u) /\ cache[n][u] # None => cache[n][u] = scan[n].rsp.proxy

LeadsInv == up = Node => SentAgrees /\ \A S \in SUBSET Node, u \in Url : ~Closed(S, u)

LEMMA SameLeads ==
  ASSUME LeadsInv, up' = Node => up = Node,
         \A n \in Node, u \in Url :
           /\ Leads(n, u)' = Leads(n, u)
           /\ AboutToCache(n, u)' =>
                AboutToCache(n, u) /\ scan'[n].rsp = scan[n].rsp /\ cache'[n][u] = cache[n][u]
  PROVE  LeadsInv'
BY DEF LeadsInv, SentAgrees, Closed

(* Steps that leave the caches alone and begin or end no sending. *)
LEMMA QuietLeads ==
  ASSUME LeadsInv, up' = Node => up = Node, UNCHANGED cache,
         \A n \in Node : \/ scan'[n] = scan[n]
                         \/ /\ scan[n] # NoScan => scan[n].at = "look"
                            /\ scan'[n] # NoScan => scan'[n].at = "look"
  PROVE  LeadsInv'
<1>1. \A n \in Node, u \in Url :
        /\ AboutToCache(n, u)' <=> AboutToCache(n, u)
        /\ AboutToCache(n, u) => scan'[n] = scan[n]
  BY DEF AboutToCache
<1>. QED  BY <1>1, SameLeads DEF Leads

(* The one step that adds a link.  A node that knew nothing of the URL has been
   named by no one, so nothing leads to it; and the proxy that it now leads to
   does know, so it is another node. *)
LEMMA RelayLeads ==
  ASSUME IInv, OnceInv, Named, LeadsInv, NEW n \in Node, NEW e \in pending[n],
         RelayResponse(n, e)
  PROVE  LeadsInv'
<1>. USE DEF IInv
<1>1. /\ scan[n] # NoScan /\ scan[n].at = "look" /\ UNCHANGED <<cache, up, pending>>
      /\ e.src # None /\ e \in scan[n].left
      /\ scan' = [scan EXCEPT ![n].at = "sent"]
  BY DEF RelayResponse, Looking
<1>2. PICK u \in Url, q \in Node : u = scan[n].rsp.url /\ q = scan[n].rsp.proxy /\ e.url = u
  BY <1>1 DEF TypeOK, Scan, ResponsePacket, ScanInv
<1>3. /\ scan'[n] # NoScan /\ scan'[n].at = "sent" /\ scan'[n].rsp = scan[n].rsp
      /\ \A x \in Node : x # n => scan'[x] = scan[x]
  BY <1>1 DEF TypeOK, Scan, NoScan
<1>4. /\ \A x \in Node, v \in Url : x # n \/ v # u =>
           (AboutToCache(x, v)' <=> AboutToCache(x, v)) /\ Leads(x, v)' = Leads(x, v)
      /\ ~AboutToCache(n, u) /\ AboutToCache(n, u)' /\ Leads(n, u)' = q
  <2>1. \A v \in Url : v # u => ~AboutToCache(n, v) /\ ~AboutToCache(n, v)'
    BY <1>1, <1>2, <1>3 DEF AboutToCache
  <2>2. ~AboutToCache(n, u) /\ AboutToCache(n, u)'
    BY <1>1, <1>2, <1>3 DEF AboutToCache
  <2>3. \A x \in Node, v \in Url : x # n =>
          (AboutToCache(x, v)' <=> AboutToCache(x, v)) /\ Leads(x, v)' = Leads(x, v)
    BY <1>1, <1>3 DEF AboutToCache, Leads
  <2>. QED  BY <1>1, <1>2, <1>3, <2>1, <2>2, <2>3 DEF Leads
<1>. SUFFICES ASSUME up = Node PROVE LeadsInv'
  BY <1>1 DEF LeadsInv
<1>5. cache[n][u] # None => cache[n][u] = q
  BY <1>1, <1>2 DEF OnceInv, CachedByScan
<1>6. SentAgrees'
  BY <1>1, <1>2, <1>3, <1>4, <1>5 DEF LeadsInv, SentAgrees, AboutToCache
<1>7. ASSUME NEW S \in SUBSET Node, NEW v \in Url, Closed(S, v)' PROVE FALSE
  <2>1. ~Closed(S, v) /\ ~Closed(S \ {n}, v)
    BY DEF LeadsInv
  <2>2. n \in S /\ v = u
    BY <1>4, <1>7, <2>1 DEF Closed
  <2>3. Reach[n][u] # "ok" /\ q \in S
    BY <1>4, <1>7, <2>2 DEF Closed
  <2>4. cache[n][u] = None
    <3>1. cache[n][u] # None => Leads(n, u) = Leads(n, u)'
      BY <1>4, <1>5 DEF Leads
    <3>. QED  BY <1>4, <1>7, <2>1, <2>2, <3>1 DEF Closed
  <2>5. ~CanServe(n, u)
    BY <1>4, <2>3, <2>4 DEF CanServe
  <2>6. q # n
    BY <1>1, <1>2, <2>5 DEF Named, LookedUp
  <2>7. \A m \in S \ {n} : Leads(m, u) \in S \ {n}
    <3>. SUFFICES ASSUME NEW m \in Node, m \in S, m # n, Leads(m, u) = n PROVE FALSE
      BY <1>4, <1>7, <2>2 DEF Closed
    <3>1. LookedUp(n, u) \/ Cached(n, u)
      BY DEF Leads, AboutToCache, LookedUp, Cached
    <3>. QED  BY <1>2, <2>5, <3>1 DEF Named
  <2>8. Closed(S \ {n}, u)
    BY <1>7, <2>2, <2>3, <2>6, <2>7 DEF Closed
  <2>. QED  BY <2>1, <2>2, <2>8
<1>. QED  BY <1>6, <1>7 DEF LeadsInv

(* The cache entry that is written is the link there was. *)
LEMMA CacheLeads ==
  ASSUME IInv, LeadsInv, NEW n \in Node, NEW e \in pending[n], CacheProxy(n, e)
  PROVE  LeadsInv'
<1>. USE DEF IInv
<1>1. /\ scan[n] # NoScan /\ scan[n].at = "sent" /\ e \in scan[n].left /\ up' = up
      /\ cache' = [cache EXCEPT ![n][e.url] = scan[n].rsp.proxy]
      /\ RemoveEntry(n, e)
  BY DEF CacheProxy
<1>2. e.url = scan[n].rsp.url /\ e.url \in Url
  BY <1>1 DEF ScanInv, TypeOK, Entry
<1>3. /\ \A x \in Node : x # n => cache'[x] = cache[x] /\ scan'[x] = scan[x]
      /\ cache'[n][e.url] = scan[n].rsp.proxy
      /\ \A v \in Url : v # e.url => cache'[n][v] = cache[n][v]
      /\ scan'[n] # NoScan => scan'[n].at = "look"
  BY <1>1, <1>2 DEF RemoveEntry, TypeOK
<1>4. \A v \in Url : ~AboutToCache(n, v)' /\ (AboutToCache(n, v) <=> v = e.url)
  BY <1>1, <1>2, <1>3 DEF AboutToCache
<1>5. \A v \in Url : Leads(n, v)' = Leads(n, v)
  BY <1>2, <1>3, <1>4 DEF Leads
<1>6. \A x \in Node, v \in Url : x # n =>
        (AboutToCache(x, v)' <=> AboutToCache(x, v)) /\ Leads(x, v)' = Leads(x, v)
  BY <1>3 DEF AboutToCache, Leads
<1>. QED  BY <1>1, <1>3, <1>4, <1>5, <1>6, SameLeads

LEMMA LeadsStep ==
  ASSUME ~Faulty PROVE IInv /\ OnceInv /\ Named /\ LeadsInv /\ [Next]_vars => LeadsInv'
<1>. SUFFICES ASSUME IInv, OnceInv, Named, LeadsInv, [Next]_vars PROVE LeadsInv'
  OBVIOUS
<1>. USE DEF IInv
<1>1. ASSUME NEW n \in Node, NEW e \in pending[n], LookUp(n, e) PROVE LeadsInv'
  <2>1. CASE CallBack(n, e) \/ CallBackFails(n, e)
    <3>1. scan[n].at = "look" /\ UNCHANGED <<cache, up>>
      BY <2>1 DEF CallBack, CallBackFails, Looking
    <3>2. \A x \in Node : scan'[x] = scan[x] \/ (x = n /\ (scan'[n] = NoScan \/ scan'[n].at = "look"))
      BY <2>1 DEF CallBack, CallBackFails, RemoveEntry, TypeOK
    <3>. QED  BY <3>1, <3>2, QuietLeads
  <2>. QED  BY <1>1, <2>1, RelayLeads, CacheLeads DEF LookUp, RelayFails
<1>2. ASSUME NEW n \in Node, NEW p, ReceiveResponse(n, p) PROVE LeadsInv'
  <2>1. scan[n] = NoScan /\ UNCHANGED <<cache, up>>
    BY <1>2 DEF ReceiveResponse, Receives
  <2>2. \A x \in Node : scan'[x] = scan[x] \/ (x = n /\ (scan'[n] = NoScan \/ scan'[n].at = "look"))
    BY <1>2 DEF ReceiveResponse, TypeOK
  <2>. QED  BY <2>1, <2>2, QuietLeads
<1>3. ASSUME NEW n \in Node, Crash(n) PROVE LeadsInv'
  BY <1>3 DEF Crash, LeadsInv
<1>4. ASSUME NEW n \in Node, NEW p, ReceiveProbe(n, p) PROVE UNCHANGED <<cache, scan, up>>
  BY <1>4 DEF ReceiveProbe, AnswerLocally, AnswerFromCache, ProbeFails, ProbeExpires,
     ForwardProbe, ProbeUnchanged, nodeVars
<1>5. ASSUME NEW c \in Conn, Connection(c) PROVE UNCHANGED <<cache, scan, up>>
  BY <1>5 DEF Connection, Dispatch, ServeLocally, ServeFromCache, DispatchFails, NeedsProbe,
     AddPending, SendProbe, SendProbeFails, nodeVars
<1>6. ASSUME NEW p, Browse \/ Lose(p) \/ Duplicate(p) \/ UNCHANGED vars
      PROVE  UNCHANGED <<cache, scan, up>>
  BY <1>6 DEF Browse, Lose, Duplicate, nodeVars, vars
<1>7. CASE UNCHANGED <<cache, scan, up>>
  BY <1>7, QuietLeads
<1>. QED  BY <1>1, <1>2, <1>3, <1>4, <1>5, <1>6, <1>7 DEF Next, UDPServer, Receive

(* While all nodes live and no send fails, following cache entries never goes
   round in a circle, in any overlay, whatever nodes put their own names into
   responses: every chain of proxies ends at a node that reaches the web
   server (UDPServer.java:146, 202-211). *)
THEOREM CachesLeadOn == ASSUME ~Faulty PROVE Spec => [](up = Node => CacheLeadsToServer)
<1>1. Init => OnceInv /\ Named /\ LeadsInv
  <2>. SUFFICES ASSUME Init PROVE OnceInv /\ Named /\ LeadsInv
    OBVIOUS
  <2>1. /\ BagToSet(net) = {}
        /\ \A n \in Node : scan[n] = NoScan /\ \A u \in Url : cache[n][u] = None
    BY DEF Init, EmptyBag, SetToBag, BagToSet
  <2>2. \A n \in Node, u \in Url : Leads(n, u) = None /\ ~AboutToCache(n, u)
    BY <2>1 DEF Leads, AboutToCache
  <2>. QED  BY <2>1, <2>2, RoutingAssumption
            DEF Init, OnceInv, ScanAll, Named, InFlight, LookedUp, Cached, LeadsInv, SentAgrees, Closed
<1>2. LeadsInv => (up = Node => CacheLeadsToServer)
  <2>. SUFFICES ASSUME LeadsInv, up = Node, NEW u \in Url, NEW S \in SUBSET Node, S # {},
                       \A n \in S : Reach[n][u] # "ok" /\ cache[n][u] \in S
                PROVE  FALSE
    BY DEF CacheLeadsToServer
  <2>1. \A n \in S : Leads(n, u) = cache[n][u]
    BY RoutingAssumption DEF LeadsInv, SentAgrees, Leads
  <2>. QED  BY <2>1 DEF LeadsInv, Closed
<1>3. IInv /\ OnceInv /\ Named /\ LeadsInv /\ [Next]_vars => OnceInv' /\ Named' /\ LeadsInv'
  BY OnceStep, NamedStep, LeadsStep
<1>. QED  BY <1>1, <1>2, <1>3, Invariance, PTL DEF Spec
=============================================================================
