----------------------------- MODULE ProbeRouting -----------------------------
(***************************************************************************)
(* Probe and response routing between FreeOxy nodes: the Connection        *)
(* threads that dispatch requests (Connection.java), the UDP thread of     *)
(* each node (UDPServer.java), the pending probes and the URL cache they   *)
(* share, and a datagram network that loses, duplicates and reorders.      *)
(*                                                                         *)
(* A node stands for its address (IP and message port).  A URL is what the *)
(* code calls one: a host name.  testURL's outcome is a constant of node   *)
(* and URL.  The pending probes are a Vector in the code; here a set of    *)
(* entries numbered in the order of their insertion.                       *)
(***************************************************************************)
EXTENDS SatisfactionTable, Bags

CONSTANTS
  Node, Url,
  Conn,        \* bound: connections that can ever be accepted, numbers
  Reach,       \* Reach[n][u]: "ok", "refused" or "unreachable" from n
  Known,       \* Known[n]: the neighbours n starts with
  Ask,         \* the browser requests, pairs of a node and a URL
  ProxyAll,    \* the nodes with NoLocalSrv set
  Oracle,      \* the outcomes of UDPServer.oracle()
  MaxTTL,      \* Common.MAX_TTL
  Fanout,      \* Common.MAX_FAN
  Lossy,       \* datagrams to live nodes may be lost
  Faulty,      \* a send, or a connection to a live node, may fail
  MaxDup,      \* bound: datagrams duplicated by the network
  MaxCrash,    \* bound: nodes that exit
  Www,         \* the web server as the source of a pipe
  None         \* no node, no connection

ASSUME RoutingAssumption ==
  /\ Reach \in [Node -> [Url -> {"ok", "refused", "unreachable"}]]
  /\ Known \in [Node -> SUBSET Node]
  /\ Ask \subseteq Node \X Url
  /\ ProxyAll \subseteq Node
  /\ Oracle \subseteq BOOLEAN
  /\ MaxTTL \in Nat /\ Fanout \in Nat /\ MaxDup \in Nat /\ MaxCrash \in Nat
  /\ Lossy \in BOOLEAN /\ Faulty \in BOOLEAN
  /\ Conn \subseteq Nat
  /\ None \notin Node \cup Conn
  /\ Www \notin Conn \cup {None}

VARIABLES
  table,    \* table[n]: m_neighbors of node n
  pending,  \* pending[n]: m_pendingProbe
  nextId,   \* nextId[n]: the insertions into pending[n] so far
  cache,    \* cache[n][u]: the proxy in m_URLCache, or None
  scan,     \* scan[n]: what the UDP thread is doing with a response
  net,      \* the datagrams in flight, a bag
  up,       \* the live nodes
  thread,   \* thread[c]: where the Connection thread of c is
  home,     \* home[c]: the node that accepted c
  wants,    \* wants[c]: the URL of its request
  route,    \* route[c]: what PipeLine copies to it from
  todo,     \* todo[c]: the neighbours its probe loop has still to visit
  asked,    \* the browser requests made
  dups      \* datagrams duplicated so far

connVars == <<thread, home, wants, route, todo>>
nodeVars == <<table, pending, nextId, cache, scan>>
vars == <<nodeVars, net, up, connVars, asked, dups>>

Probe(m, n, u, t) == [type |-> "PROBE", from |-> m, to |-> n, url |-> u, ttl |-> t]
Response(m, n, u, q) == [type |-> "RSP", from |-> m, to |-> n, url |-> u, proxy |-> q]

ProbePacket == [type : {"PROBE"}, from : Node, to : Node, url : Url, ttl : 0 .. MaxTTL]
ResponsePacket == [type : {"RSP"}, from : Node, to : Node, url : Url, proxy : Node]
Packet == ProbePacket \cup ResponsePacket

(* A pending probe: src is m_source, None when a browser waits for it; conn
   is m_callback, the Connection to call back. *)
Entry == [id : Nat, url : Url, src : Node \cup {None}, conn : Conn \cup {None}]

NoScan == [at |-> "idle"]
Scan == [at : {"look", "sent"}, rsp : ResponsePacket, left : SUBSET Entry]

TypeOK ==
  /\ DOMAIN table = Node
  /\ \A n \in Node : /\ DOMAIN table[n] \subseteq Node
                     /\ \A m \in DOMAIN table[n] : table[n][m] \in Nat
  /\ pending \in [Node -> SUBSET Entry]
  /\ nextId \in [Node -> Nat]
  /\ cache \in [Node -> [Url -> Node \cup {None}]]
  /\ DOMAIN scan = Node
  /\ \A n \in Node : scan[n] = NoScan \/ scan[n] \in Scan
  /\ IsABag(net) /\ BagToSet(net) \subseteq Packet
  /\ up \subseteq Node
  /\ thread \in [Conn -> {"free", "dispatch", "add", "send", "done", "dead", "gone"}]
  /\ home \in [Conn -> Node \cup {None}]
  /\ wants \in [Conn -> Url \cup {None}]
  /\ route \in [Conn -> Conn \cup {None, Www}]
  /\ todo \in [Conn -> SUBSET Node]
  /\ asked \subseteq Ask
  /\ dups \in 0 .. MaxDup

Init ==
  /\ table = [n \in Node |-> [m \in Known[n] \ {n} |-> DefaultSat]]
  /\ pending = [n \in Node |-> {}]
  /\ nextId = [n \in Node |-> 0]
  /\ cache = [n \in Node |-> [u \in Url |-> None]]
  /\ scan = [n \in Node |-> NoScan]
  /\ net = EmptyBag
  /\ up = Node
  /\ thread = [c \in Conn |-> "free"]
  /\ home = [c \in Conn |-> None]
  /\ wants = [c \in Conn |-> None]
  /\ route = [c \in Conn |-> None]
  /\ todo = [c \in Conn |-> {}]
  /\ asked = {}
  /\ dups = 0

-----------------------------------------------------------------------------
(* The network. *)
Send(S) == net' = net (+) SetToBag(S)

(* Take p out of the network and put the datagrams of S in. *)
Reply(p, S) == net' = (net (-) SetToBag({p})) (+) SetToBag(S)

Deliverable(p) == BagIn(p, net) /\ p.to \in up

(* Connections are numbered in the order in which they are accepted. *)
Fresh(k) == thread[k] = "free" /\ \A j \in Conn : thread[j] = "free" => k <= j

(* Node n accepts connection k and reads a request for u from it; c, if not
   None, is the connection whose PipeLine k is the far end of. *)
Accept(k, n, u, threads) ==
  /\ thread' = [threads EXCEPT ![k] = "dispatch"]
  /\ home' = [home EXCEPT ![k] = n]
  /\ wants' = [wants EXCEPT ![k] = u]

Browse ==
  \E r \in Ask \ asked, k \in Conn :
    /\ r[1] \in up
    /\ Fresh(k)
    /\ Accept(k, r[1], r[2], thread)
    /\ asked' = asked \cup {r}
    /\ UNCHANGED <<nodeVars, net, up, route, todo, dups>>

-----------------------------------------------------------------------------
(* The Connection thread: dispatch, and sendProbe which it calls. *)
At(c, where) == thread[c] = where /\ home[c] \in up

(* testURL succeeds: the request goes to the web server itself. *)
ServeLocally(c) ==
  /\ At(c, "dispatch")
  /\ home[c] \notin ProxyAll
  /\ Reach[home[c]][wants[c]] = "ok"
  /\ thread' = [thread EXCEPT ![c] = "done"]
  /\ route' = [route EXCEPT ![c] = Www]
  /\ UNCHANGED <<nodeVars, net, up, home, wants, todo, asked, dups>>

(* testURL refuses and the cache names a proxy that accepts: the request goes
   there over SSL. *)
ServeFromCache(c) ==
  LET q == cache[home[c]][wants[c]] IN
    /\ At(c, "dispatch")
    /\ home[c] \notin ProxyAll
    /\ Reach[home[c]][wants[c]] = "refused"
    /\ q \in up
    /\ \E k \in Conn :
         /\ Fresh(k)
         /\ Accept(k, q, wants[c], [thread EXCEPT ![c] = "done"])
         /\ route' = [route EXCEPT ![c] = k]
    /\ UNCHANGED <<nodeVars, net, up, todo, asked, dups>>

(* testURL throws, or the web server or the cached proxy cannot be connected
   to: the exception ends the thread and leaves the client's socket open and
   unanswered. *)
DispatchFails(c) ==
  /\ At(c, "dispatch")
  /\ home[c] \notin ProxyAll
  /\ \/ Reach[home[c]][wants[c]] = "unreachable"
     \/ Faulty /\ Reach[home[c]][wants[c]] = "ok"
     \/ /\ Reach[home[c]][wants[c]] = "refused"
        /\ cache[home[c]][wants[c]] \in IF Faulty THEN Node ELSE Node \ up
  /\ thread' = [thread EXCEPT ![c] = "dead"]
  /\ UNCHANGED <<nodeVars, net, up, home, wants, route, todo, asked, dups>>

(* Neither local nor cached, or NoLocalSrv: probe for it. *)
NeedsProbe(c) ==
  /\ At(c, "dispatch")
  /\ \/ home[c] \in ProxyAll
     \/ /\ Reach[home[c]][wants[c]] = "refused"
        /\ cache[home[c]][wants[c]] = None
  /\ thread' = [thread EXCEPT ![c] = "add"]
  /\ UNCHANGED <<nodeVars, net, up, home, wants, route, todo, asked, dups>>

NewEntry(n, u, src, c) == [id |-> nextId[n], url |-> u, src |-> src, conn |-> c]

(* sendProbe remembers the probe (the Vector's monitor is not to be had while
   a response is looked up) and picks the neighbours. *)
AddPending(c) ==
  LET n == home[c] IN
    /\ At(c, "add")
    /\ scan[n] = NoScan
    /\ pending' = [pending EXCEPT ![n] = @ \cup {NewEntry(n, wants[c], None, c)}]
    /\ nextId' = [nextId EXCEPT ![n] = @ + 1]
    /\ \E A \in GetAddress(table[n], Fanout) :
         /\ todo' = [todo EXCEPT ![c] = A]
         /\ thread' = [thread EXCEPT ![c] = IF A = {} THEN "done" ELSE "send"]
    /\ UNCHANGED <<table, cache, scan, net, up, home, wants, route, asked, dups>>

(* Variant: the TTL is spent before the first hop. *)
SendProbeShort(c) ==
  LET n == home[c] IN
    /\ At(c, "send")
    /\ \E m \in todo[c] :
         /\ Send({Probe(n, m, wants[c], MaxTTL - 1)})
         /\ table' = [table EXCEPT ![n] = Dec(@, {n}, m)]
         /\ todo' = [todo EXCEPT ![c] = @ \ {m}]
         /\ thread' = [thread EXCEPT ![c] = IF todo[c] = {m} THEN "done" ELSE "send"]
    /\ UNCHANGED <<pending, nextId, cache, scan, up, home, wants, route, asked, dups>>

SendProbe(c) ==
  LET n == home[c] IN
    /\ At(c, "send")
    /\ \E m \in todo[c] :
         /\ Send({Probe(n, m, wants[c], MaxTTL)})
         /\ table' = [table EXCEPT ![n] = Dec(@, {n}, m)]
         /\ todo' = [todo EXCEPT ![c] = @ \ {m}]
         /\ thread' = [thread EXCEPT ![c] = IF todo[c] = {m} THEN "done" ELSE "send"]
    /\ UNCHANGED <<pending, nextId, cache, scan, up, home, wants, route, asked, dups>>

(* sendTo throws: the thread ends, the neighbours left are not asked, and the
   entry stays pending. *)
SendProbeFails(c) ==
  /\ Faulty
  /\ At(c, "send")
  /\ todo' = [todo EXCEPT ![c] = {}]
  /\ thread' = [thread EXCEPT ![c] = "done"]
  /\ UNCHANGED <<nodeVars, net, up, home, wants, route, asked, dups>>

-----------------------------------------------------------------------------
(* The UDP thread: receivePacket on a MSG_PROBE p. *)
Receives(n, p) == Deliverable(p) /\ p.to = n /\ scan[n] = NoScan

ProbeUnchanged == UNCHANGED <<up, connVars, asked, dups>>

AnswerLocally(n, p) ==
  /\ Receives(n, p)
  /\ Reach[n][p.url] = "ok"
  /\ Reply(p, {Response(n, p.from, p.url, n)})
  /\ ProbeUnchanged /\ UNCHANGED nodeVars

AnswerFromCache(n, p) ==
  /\ Receives(n, p)
  /\ Reach[n][p.url] = "refused"
  /\ cache[n][p.url] \in up
  /\ Reply(p, {Response(n, p.from, p.url, cache[n][p.url])})
  /\ ProbeUnchanged /\ UNCHANGED nodeVars

(* testURL, the connection to the cached proxy or the sending of the answer
   throws: the probe is lost. *)
ProbeFails(n, p) ==
  /\ Receives(n, p)
  /\ \/ Reach[n][p.url] = "unreachable"
     \/ Faulty /\ Reach[n][p.url] = "ok"
     \/ /\ Reach[n][p.url] = "refused"
        /\ cache[n][p.url] \in IF Faulty THEN Node ELSE Node \ up
  /\ Reply(p, {})
  /\ ProbeUnchanged /\ UNCHANGED nodeVars

(* decTTL says the probe has gone far enough. *)
ProbeExpires(n, p) ==
  /\ Receives(n, p)
  /\ Reach[n][p.url] = "refused"
  /\ cache[n][p.url] = None
  /\ p.ttl = 0
  /\ Reply(p, {})
  /\ ProbeUnchanged /\ UNCHANGED nodeVars

(* dec of every neighbour in A, one after the other. *)
DecAll(m, A) ==
  [x \in {y \in DOMAIN m : y \in A => m[y] - 1 >= MinThreshold} |->
     IF x \in A THEN m[x] - 1 ELSE m[x]]

(* Remember the probe and pass it on, to any neighbours: the sender and nodes
   that have had it before are not excepted.  A sendTo that throws leaves the
   neighbours outside B unasked. *)
ForwardProbe(n, p) ==
  /\ Receives(n, p)
  /\ Reach[n][p.url] = "refused"
  /\ cache[n][p.url] = None
  /\ p.ttl > 0
  /\ pending' = [pending EXCEPT ![n] = @ \cup {NewEntry(n, p.url, p.from, None)}]
  /\ nextId' = [nextId EXCEPT ![n] = @ + 1]
  /\ \E A \in GetAddress(table[n], Fanout) : \E B \in SUBSET A :
       /\ Faulty \/ B = A
       /\ Reply(p, {Probe(n, m, p.url, p.ttl - 1) : m \in B})
       /\ table' = [table EXCEPT ![n] = DecAll(@, B)]
  /\ ProbeUnchanged /\ UNCHANGED <<cache, scan>>

ReceiveProbe(n, p) ==
  \/ AnswerLocally(n, p)
  \/ AnswerFromCache(n, p)
  \/ ProbeFails(n, p)
  \/ ProbeExpires(n, p)
  \/ ForwardProbe(n, p)

-----------------------------------------------------------------------------
(* The UDP thread: receivePacket on a MSG_RSP p.  The source of the datagram
   gains satisfaction, then every pending probe with the URL's hash is
   looked at, oldest first, in the monitor of the Vector. *)
ReceiveResponse(n, p) ==
  LET matching == {e \in pending[n] : e.url = p.url} IN
    /\ Receives(n, p)
    /\ Reply(p, {})
    /\ table' = [table EXCEPT ![n] = Inc(@, {n}, p.from)]
    /\ scan' = [scan EXCEPT ![n] =
                  IF matching = {} THEN NoScan
                  ELSE [at |-> "look", rsp |-> p, left |-> matching]]
    /\ UNCHANGED <<pending, nextId, cache, up, connVars, asked, dups>>

Looking(n, e) ==
  /\ n \in up
  /\ scan[n] # NoScan
  /\ scan[n].at = "look"
  /\ e \in scan[n].left
  /\ \A f \in scan[n].left : e.id <= f.id

(* it.remove(), and on to the next entry or out of the monitor. *)
RemoveEntry(n, e) ==
  /\ pending' = [pending EXCEPT ![n] = @ \ {e}]
  /\ scan' = [scan EXCEPT ![n] =
                IF scan[n].left = {e} THEN NoScan
                ELSE [at |-> "look", rsp |-> scan[n].rsp, left |-> scan[n].left \ {e}]]

(* Move the scan past e without it.remove(). *)
KeepEntry(n, e) ==
  /\ UNCHANGED pending
  /\ scan' = [scan EXCEPT ![n] =
                IF scan[n].left = {e} THEN NoScan
                ELSE [at |-> "look", rsp |-> scan[n].rsp, left |-> scan[n].left \ {e}]]

(* Variant: the iterator's remove is left out for called-back probes. *)
CallBackKeeping(n, e) ==
  LET src == scan[n].rsp.from IN
    /\ Looking(n, e)
    /\ e.src = None
    /\ src \in up
    /\ \E k \in Conn :
         /\ Fresh(k)
         /\ Accept(k, src, wants[e.conn], thread)
         /\ route' = [route EXCEPT ![e.conn] = k]
    /\ KeepEntry(n, e)
    /\ UNCHANGED <<table, nextId, cache, net, up, todo, asked, dups>>

(* Connection.response: an SSL connection to the node the datagram came from,
   which accepts it and reads the browser's request from it. *)
CallBack(n, e) ==
  LET src == scan[n].rsp.from IN
    /\ Looking(n, e)
    /\ e.src = None
    /\ src \in up
    /\ \E k \in Conn :
         /\ Fresh(k)
         /\ Accept(k, src, wants[e.conn], thread)
         /\ route' = [route EXCEPT ![e.conn] = k]
    /\ RemoveEntry(n, e)
    /\ UNCHANGED <<table, nextId, cache, net, up, todo, asked, dups>>

(* Variant: the entry is removed although the call back failed. *)
CallBackFailsDropping(n, e) ==
  /\ Looking(n, e)
  /\ e.src = None
  /\ scan[n].rsp.from \notin up
  /\ RemoveEntry(n, e)
  /\ UNCHANGED <<table, nextId, cache, net, up, connVars, asked, dups>>

(* Variant: nothing catches the exception, the UDP thread stays where it is. *)
CallBackFailsHanging(n, e) == FALSE

(* It throws: the handler ends there, and the entry stays. *)
CallBackFails(n, e) ==
  /\ Looking(n, e)
  /\ e.src = None
  /\ Faulty \/ scan[n].rsp.from \notin up
  /\ scan' = [scan EXCEPT ![n] = NoScan]
  /\ UNCHANGED <<table, pending, nextId, cache, net, up, connVars, asked, dups>>

(* Pass the response back; when the oracle says so, first one that names
   this node as the proxy. *)
RelayResponse(n, e) ==
  LET r == scan[n].rsp
      own == Response(n, e.src, r.url, n)
      fwd == Response(n, e.src, r.url, r.proxy)
  IN
    /\ Looking(n, e)
    /\ e.src # None
    /\ \E forge \in Oracle :
         net' = net (+) SetToBag({fwd}) (+) SetToBag(IF forge THEN {own} ELSE {})
    /\ scan' = [scan EXCEPT ![n].at = "sent"]
    /\ UNCHANGED <<table, pending, nextId, cache, up, connVars, asked, dups>>

(* sendTo throws, of the forged response or, that one being out, of the other:
   the handler ends, the entry stays and nothing is cached. *)
RelayFails(n, e) ==
  LET own == Response(n, e.src, scan[n].rsp.url, n) IN
    /\ Faulty
    /\ Looking(n, e)
    /\ e.src # None
    /\ \E forge \in Oracle : net' = net (+) SetToBag(IF forge THEN {own} ELSE {})
    /\ scan' = [scan EXCEPT ![n] = NoScan]
    /\ UNCHANGED <<table, pending, nextId, cache, up, connVars, asked, dups>>

(* Variant: the requester is cached in place of the proxy. *)
CacheSource(n, e) ==
  /\ n \in up
  /\ scan[n] # NoScan
  /\ scan[n].at = "sent"
  /\ e \in scan[n].left
  /\ \A f \in scan[n].left : e.id <= f.id
  /\ cache' = [cache EXCEPT ![n][e.url] = e.src]
  /\ RemoveEntry(n, e)
  /\ UNCHANGED <<table, nextId, net, up, connVars, asked, dups>>

(* Variant: relayed probes stay pending after their response. *)
CacheProxyKeeping(n, e) ==
  /\ n \in up
  /\ scan[n] # NoScan
  /\ scan[n].at = "sent"
  /\ e \in scan[n].left
  /\ \A f \in scan[n].left : e.id <= f.id
  /\ cache' = [cache EXCEPT ![n][e.url] = scan[n].rsp.proxy]
  /\ KeepEntry(n, e)
  /\ UNCHANGED <<table, nextId, net, up, connVars, asked, dups>>

(* m_URLCache.put, only after the datagrams are out. *)
CacheProxy(n, e) ==
  /\ n \in up
  /\ scan[n] # NoScan
  /\ scan[n].at = "sent"
  /\ e \in scan[n].left
  /\ \A f \in scan[n].left : e.id <= f.id
  /\ cache' = [cache EXCEPT ![n][e.url] = scan[n].rsp.proxy]
  /\ RemoveEntry(n, e)
  /\ UNCHANGED <<table, nextId, net, up, connVars, asked, dups>>

-----------------------------------------------------------------------------
(* The environment. *)
Lose(p) ==
  /\ BagIn(p, net)
  /\ Lossy \/ p.to \notin up
  /\ net' = net (-) SetToBag({p})
  /\ UNCHANGED <<nodeVars, up, connVars, asked, dups>>

Duplicate(p) ==
  /\ BagIn(p, net)
  /\ dups < MaxDup
  /\ Send({p})
  /\ dups' = dups + 1
  /\ UNCHANGED <<nodeVars, up, connVars, asked>>

(* System.exit: all of this state is in memory. *)
Crash(n) ==
  /\ n \in up
  /\ Cardinality(Node \ up) < MaxCrash
  /\ up' = up \ {n}
  /\ pending' = [pending EXCEPT ![n] = {}]
  /\ cache' = [cache EXCEPT ![n] = [u \in Url |-> None]]
  /\ scan' = [scan EXCEPT ![n] = NoScan]
  /\ thread' = [c \in Conn |-> IF home[c] = n THEN "gone" ELSE thread[c]]
  /\ UNCHANGED <<table, nextId, net, home, wants, route, todo, asked, dups>>

Dispatch(c) ==
  ServeLocally(c) \/ ServeFromCache(c) \/ DispatchFails(c) \/ NeedsProbe(c)

Connection(c) == Dispatch(c) \/ AddPending(c) \/ SendProbe(c) \/ SendProbeFails(c)

LookUp(n, e) ==
  \/ CallBack(n, e) \/ CallBackFails(n, e)
  \/ RelayResponse(n, e) \/ RelayFails(n, e) \/ CacheProxy(n, e)

Receive(n) ==
  \E p \in BagToSet(net) :
    \/ p.type = "PROBE" /\ ReceiveProbe(n, p)
    \/ p.type = "RSP" /\ ReceiveResponse(n, p)

UDPServer(n) == Receive(n) \/ \E e \in pending[n] : LookUp(n, e)

Next ==
  \/ Browse
  \/ \E c \in Conn : Connection(c)
  \/ \E n \in Node : UDPServer(n) \/ Crash(n)
  \/ \E p \in BagToSet(net) : Lose(p) \/ Duplicate(p)

Spec == Init /\ [][Next]_vars

(* The threads run: a UDP thread with a datagram or an unfinished look-up, a
   Connection thread with work left, a datagram for a node that has exited.
   Nothing is assumed of browsers, crashes, losses and duplicates. *)
Fairness ==
  /\ \A n \in Node : WF_vars(UDPServer(n))
  /\ \A c \in Conn : WF_vars(Connection(c))
  /\ WF_vars(\E p \in BagToSet(net) : p.to \notin up /\ Lose(p))

FairSpec == Spec /\ Fairness

-----------------------------------------------------------------------------
Waiting(c) == thread[c] \in {"send", "done"} /\ route[c] = None

(* A connection whose probe is out and unanswered has one entry among the
   pending probes of its node, and every entry with a callback belongs to
   such a connection: no answer is lost for want of an entry, and none can
   call back a connection that has its pipe (UDPServer.java:187-219). *)
PendingIffWaiting ==
  /\ \A c \in Conn : Waiting(c) => \E e \in pending[home[c]] : e.conn = c
  /\ \A n \in Node : \A e \in pending[n] :
       e.conn # None => Waiting(e.conn) /\ home[e.conn] = n
  /\ \A n \in Node : \A e, f \in pending[n] :
       e.conn = f.conn /\ e.conn # None => e = f

(* Between the datagram and the cache entry of a relayed response. *)
AboutToCache(q, u) == scan[q] # NoScan /\ scan[q].at = "sent" /\ scan[q].rsp.url = u

CanServe(q, u) ==
  \/ Reach[q][u] = "ok"
  \/ cache[q][u] # None
  \/ AboutToCache(q, u)
  \/ q \notin up

(* Whoever sends a response, and whoever a response or a cache entry names as
   the proxy, has the web server in reach or a cache entry to go on from:
   the requester, which connects to the sender, is not led to a node that
   knows nothing (UDPServer.java:192, 202-211).  Not so when sends fail and
   nodes put their own names into responses: see RelayFails. *)
NamedNodesCanServe ==
  /\ \A p \in BagToSet(net) : p.type = "RSP" =>
       CanServe(p.from, p.url) /\ CanServe(p.proxy, p.url)
  /\ \A n \in Node : scan[n] # NoScan =>
       LET r == scan[n].rsp IN CanServe(r.from, r.url) /\ CanServe(r.proxy, r.url)
  /\ \A n \in Node, u \in Url : cache[n][u] # None => CanServe(cache[n][u], u)

(* Caches never send a request in circles, not even where nodes have put their
   own names into responses: a node that knows a proxy stops collecting
   pending probes, so what it forwards and caches is older than what it
   claims (UDPServer.java:146, 202-211).  A send that fails between the two
   undoes this (RelayFails): it is checked without. *)
CacheLeadsToServer ==
  \A u \in Url : ~\E S \in SUBSET up :
    /\ S # {}
    /\ \A n \in S : Reach[n][u] # "ok" /\ cache[n][u] \in S

(* A cached proxy is never replaced while all nodes live and no send fails: the
   first response settles every pending probe for the URL, and no more are
   accepted (UDPServer.java:146, 185-219). *)
CacheWrittenOnce ==
  [][up = Node /\ up' = Node =>
       \A n \in Node, u \in Url : cache[n][u] # None => cache'[n][u] = cache[n][u]]_vars

(* Every connection's history is one the service allows (ProxyService). *)
Status(c) ==
  CASE thread[c] = "free" -> "idle"
    [] thread[c] = "gone" -> "gone"
    [] thread[c] = "dead" -> "failed"
    [] OTHER -> IF route[c] = None THEN "open" ELSE "routed"

Service == INSTANCE ProxyService WITH
  status <- [c \in Conn |-> Status(c)], Web <- Www, Nowhere <- None

ImplementsService == Service!Spec

(* Probing dies out: the TTL bounds every probe and every response uses up
   pending entries, so the network falls silent after the last request however
   neighbours point at one another, whatever is lost, fails or exits
   (UDPServer.java:155-220, MsgProbe.java:92-98). *)
FallsSilent == <>[](net = EmptyBag)

(* While nothing crashes or is lost, a request for a URL that some node within
   reach of the probe can serve gets its route, and so does every connection
   opened for it along the way. *)
EventuallyRouted == \A c \in Conn : thread[c] = "dispatch" ~> route[c] # None
=============================================================================
