---------------------------- MODULE FreeOxyProofs ----------------------------
(***************************************************************************)
(* Proofs about one FreeOxy node and about many: the neighbour table       *)
(* (NeighborList) for every set of addresses, threads and values, the      *)
(* membership (Gossip) for every set of nodes, overlay and pattern of      *)
(* exits and losses, and starting and stopping a node (Lifecycle) for      *)
(* every bound on the menu and the queue and whether or not the cipher     *)
(* suites are there.                                                       *)
(***************************************************************************)
EXTENDS NeighborList, Gossip, Lifecycle, TLAPS

-----------------------------------------------------------------------------
(* The neighbour table of one node.                                        *)

(* A well-formed table value. *)
IsTable(m) ==
  /\ DOMAIN m \subseteq Addr
  /\ DOMAIN m \cap Local = {}
  /\ \A n \in DOMAIN m : m[n] \in Nat /\ m[n] >= MinThreshold

(* What makes the property of the monitor inductive: the thread between the
   two halves of inc or dec is the one the monitor names, and what it read
   is still in the table. *)
LockInv ==
  /\ \A t \in Caller : op[t] \in {"dec", "inc"} =>
       /\ monitor = t
       /\ target[t] \in Addr
       /\ read[t] = GetValue(table, target[t])
  /\ \A t \in Caller : op[t] = "add" => target[t] \in Addr

TableInv == ListTypeOK /\ TableOK /\ LockInv /\ NoLostVote

-----------------------------------------------------------------------------
(* addNeighbor keeps a table well-formed. *)
LEMMA AddNeighborIsTable ==
  ASSUME NEW m, IsTable(m), NEW n \in Addr, NEW v \in Int
  PROVE  IsTable(AddNeighbor(m, Local, n, v))
BY SatAssumption DEF IsTable, AddNeighbor, Put, Remove

(* What addNeighbor does to the key set and to each value. *)
LEMMA AddNeighborValues ==
  ASSUME NEW m, IsTable(m), NEW n \in Addr, NEW v \in Int,
         NEW r, r = AddNeighbor(m, Local, n, v)
  PROVE  /\ \A x \in DOMAIN r : x # n => x \in DOMAIN m /\ r[x] = m[x]
         /\ n \in DOMAIN r /\ n \notin DOMAIN m => r[n] = DefaultSat
         /\ n \in DOMAIN r /\ n \in DOMAIN m => r[n] = v
         /\ \A x \in DOMAIN m \ DOMAIN r : x = n /\ v < MinThreshold
BY SatAssumption DEF IsTable, AddNeighbor, Put, Remove

LEMMA GetValueNat ==
  ASSUME NEW m, IsTable(m), NEW n
  PROVE  GetValue(m, n) \in Nat
BY DEF IsTable, GetValue

LEMMA TableIsTable == ListTypeOK /\ TableOK => IsTable(table)
BY DEF ListTypeOK, TableOK, IsTable

-----------------------------------------------------------------------------
LEMMA TableInvInit == ListInit => TableInv
<1>. SUFFICES ASSUME ListInit PROVE TableInv
  OBVIOUS
<1>1. DOMAIN table = {}
  BY DEF ListInit, EmptyTable
<1>2. ListTypeOK
  <2>1. DOMAIN table \subseteq Addr /\ \A n \in DOMAIN table : table[n] \in Nat
    BY <1>1
  <2>2. /\ op \in [Caller -> {"idle", "loop", "dec", "inc", "add"}]
        /\ todo \in [Caller -> SUBSET Addr]
        /\ target \in [Caller -> Addr \cup {Nobody}]
        /\ read \in [Caller -> Nat]
        /\ votes \in [Addr -> Int]
    BY DEF ListInit
  <2>. QED  BY <2>1, <2>2 DEF ListInit, ListTypeOK
<1>3. TableOK /\ NoLostVote
  BY <1>1 DEF TableOK, NoLostVote
<1>4. LockInv
  BY DEF ListInit, LockInv
<1>. QED  BY <1>2, <1>3, <1>4 DEF TableInv

(* The write half of inc and dec. *)
LEMMA VoteTableInv ==
  ASSUME TableInv, NEW t \in Caller, NEW v \in Int, NEW next \in {"idle", "loop"},
         op[t] \in {"dec", "inc"}, Vote(t, v, next)
  PROVE  TableInv'
<1>1. IsTable(table)
  BY TableIsTable DEF TableInv
<1>2. /\ target[t] \in Addr
      /\ read[t] = GetValue(table, target[t])
      /\ monitor = t
  BY DEF TableInv, LockInv
<1>3. table' = AddNeighbor(table, Local, target[t], v)
  BY DEF Vote, SetTable
<1>4. IsTable(table')
  BY <1>1, <1>2, <1>3, AddNeighborIsTable
<1>5. ListTypeOK'
  <2>1. read[t] \in Int /\ v - read[t] \in Int
    BY DEF TableInv, ListTypeOK
  <2>2. votes' \in [Addr -> Int]
    BY <1>2, <2>1 DEF Vote, TableInv, ListTypeOK
  <2>3. stale' \in BOOLEAN
    BY DEF Vote, SetTable, TableInv, ListTypeOK
  <2>. QED
    BY <1>4, <2>2, <2>3, ThreadAssumption
       DEF Vote, TableInv, ListTypeOK, IsTable, saveVars
<1>6. TableOK'
  BY <1>4 DEF IsTable, TableOK
<1>7. LockInv'
  <2>1. \A u \in Caller : op'[u] \notin {"dec", "inc"}
    BY <1>2 DEF Vote, TableInv, ListTypeOK, LockInv
  <2>2. \A u \in Caller : op'[u] = "add" => u # t /\ op[u] = "add" /\ target'[u] = target[u]
    BY DEF Vote, TableInv, ListTypeOK
  <2>. QED  BY <2>1, <2>2 DEF LockInv, TableInv
<1>8. NoLostVote'
  <2>. SUFFICES ASSUME NEW x \in DOMAIN table'
                PROVE  table'[x] = DefaultSat + votes'[x]
    BY DEF NoLostVote
  <2>1. CASE x # target[t]
    <3>1. x \in DOMAIN table /\ table'[x] = table[x]
      BY <1>1, <1>2, <1>3, <2>1, AddNeighborValues
    <3>2. votes'[x] = votes[x]
      BY <2>1, <3>1 DEF Vote, TableInv, ListTypeOK
    <3>. QED  BY <3>1, <3>2 DEF TableInv, NoLostVote
  <2>2. CASE x = target[t] /\ x \notin DOMAIN table
    <3>1. table'[x] = DefaultSat
      BY <1>1, <1>2, <1>3, <2>2, AddNeighborValues
    <3>2. votes'[x] = 0
      BY <1>2, <2>2 DEF Vote, TableInv, ListTypeOK
    <3>. QED  BY <3>1, <3>2, SatAssumption
  <2>3. CASE x = target[t] /\ x \in DOMAIN table
    <3>1. table'[x] = v
      BY <1>1, <1>2, <1>3, <2>3, AddNeighborValues
    <3>2. read[t] = table[x] /\ table[x] = DefaultSat + votes[x]
      BY <1>2, <2>3 DEF GetValue, TableInv, NoLostVote
    <3>3. votes'[x] = votes[x] + (v - read[t])
      BY <1>2, <2>3 DEF Vote, TableInv, ListTypeOK
    <3>4. votes[x] \in Int /\ DefaultSat \in Int
      BY <1>2, <2>3, SatAssumption DEF TableInv, ListTypeOK
    <3>. QED  BY <3>1, <3>2, <3>3, <3>4
  <2>. QED  BY <2>1, <2>2, <2>3
<1>. QED  BY <1>5, <1>6, <1>7, <1>8 DEF TableInv

(* addNeighbor(n, DEFAULT_SAT) in one synchronized call. *)
LEMMA EnterTableInv ==
  ASSUME TableInv, NEW n \in Addr, MonitorFree, Enter(n),
         UNCHANGED <<monitor, todo, read, saveVars>>,
         op' \in [Caller -> {"idle", "loop", "dec", "inc", "add"}],
         target' \in [Caller -> Addr \cup {Nobody}],
         \A t \in Caller : op'[t] # "idle" => op'[t] = op[t] /\ target'[t] = target[t]
  PROVE  TableInv'
<1>1. IsTable(table)
  BY TableIsTable DEF TableInv
<1>2. table' = AddNeighbor(table, Local, n, DefaultSat) /\ DefaultSat \in Int
  BY SatAssumption DEF Enter, SetTable
<1>3. IsTable(table')
  BY <1>1, <1>2, AddNeighborIsTable
<1>4. ListTypeOK'
  <2>1. stale' \in BOOLEAN
    BY DEF Enter, SetTable, TableInv, ListTypeOK
  <2>2. votes' \in [Addr -> Int]
    BY DEF Enter, TableInv, ListTypeOK
  <2>. QED
    BY <1>3, <2>1, <2>2 DEF TableInv, ListTypeOK, IsTable, saveVars
<1>5. TableOK'
  BY <1>3 DEF IsTable, TableOK
<1>6. LockInv'
  <2>1. \A t \in Caller : op[t] \notin {"dec", "inc"}
    BY ThreadAssumption DEF MonitorFree, TableInv, LockInv
  <2>. QED  BY <2>1 DEF TableInv, LockInv
<1>7. NoLostVote'
  <2>1. \A x \in DOMAIN table' : x # n => x \in DOMAIN table /\ table'[x] = table[x]
    BY <1>1, <1>2, AddNeighborValues
  <2>2. n \in DOMAIN table' => table'[n] = DefaultSat
    BY <1>1, <1>2, AddNeighborValues
  <2>3. \A x \in Addr : votes'[x] = IF x = n THEN 0 ELSE votes[x]
    BY DEF Enter, TableInv, ListTypeOK
  <2>4. DOMAIN table' \subseteq Addr
    BY <1>3 DEF IsTable
  <2>. QED  BY <2>1, <2>2, <2>3, <2>4, SatAssumption DEF TableInv, NoLostVote
<1>. QED  BY <1>4, <1>5, <1>6, <1>7 DEF TableInv
-----------------------------------------------------------------------------
LEMMA TableInvStep == TableInv /\ [ListNext]_listVars => TableInv'
<1>. SUFFICES ASSUME TableInv, [ListNext]_listVars PROVE TableInv'
  OBVIOUS
<1>. USE DEF TableInv
<1>1. ASSUME NEW t \in Caller, GetTargets(t) PROVE TableInv'
  BY <1>1 DEF GetTargets, GetAddress, ListTypeOK, TableOK, LockInv, NoLostVote, saveVars
<1>2. ASSUME NEW t \in Caller, DecRead(t) PROVE TableInv'
  <2>1. PICK n \in todo[t] :
          /\ todo' = [todo EXCEPT ![t] = @ \ {n}]
          /\ target' = [target EXCEPT ![t] = n]
          /\ read' = [read EXCEPT ![t] = GetValue(table, n)]
    BY <1>2 DEF DecRead
  <2>2. n \in Addr /\ GetValue(table, n) \in Nat
    BY TableIsTable, GetValueNat DEF ListTypeOK
  <2>3. \A u \in Caller : op[u] \notin {"dec", "inc"}
    BY <1>2, ThreadAssumption DEF DecRead, MonitorFree, LockInv
  <2>4. ListTypeOK'
    BY <1>2, <2>1, <2>2 DEF DecRead, ListTypeOK, saveVars
  <2>5. LockInv'
    BY <1>2, <2>1, <2>2, <2>3 DEF DecRead, ListTypeOK, LockInv
  <2>. QED
    BY <1>2, <2>4, <2>5 DEF DecRead, TableOK, NoLostVote
<1>3. ASSUME NEW t \in Caller, DecWrite(t) PROVE TableInv'
  <2>1. read[t] - 1 \in Int /\ op[t] \in {"dec", "inc"}
    BY <1>3 DEF DecWrite, ListTypeOK
  <2>. QED  BY <1>3, <2>1, VoteTableInv DEF DecWrite
<1>4. ASSUME NEW t \in Caller, SendFails(t) PROVE TableInv'
  BY <1>4 DEF SendFails, ListTypeOK, TableOK, LockInv, NoLostVote, saveVars
<1>5. CASE IncRead
  <2>1. PICK n \in Addr :
          /\ target' = [target EXCEPT ![Udp] = n]
          /\ read' = [read EXCEPT ![Udp] = GetValue(table, n)]
    BY <1>5 DEF IncRead
  <2>2. GetValue(table, n) \in Nat /\ Udp \in Caller
    BY TableIsTable, GetValueNat DEF Caller
  <2>3. \A u \in Caller : op[u] \notin {"dec", "inc"}
    BY <1>5, ThreadAssumption DEF IncRead, MonitorFree, LockInv
  <2>4. ListTypeOK'
    BY <1>5, <2>1, <2>2 DEF IncRead, ListTypeOK, saveVars
  <2>5. LockInv'
    BY <1>5, <2>1, <2>2, <2>3 DEF IncRead, ListTypeOK, LockInv
  <2>. QED
    BY <1>5, <2>4, <2>5 DEF IncRead, TableOK, NoLostVote
<1>6. CASE IncWrite
  <2>1. Udp \in Caller /\ read[Udp] + 1 \in Int /\ op[Udp] \in {"dec", "inc"}
    BY <1>6 DEF IncWrite, ListTypeOK, Caller
  <2>. QED  BY <1>6, <2>1, VoteTableInv DEF IncWrite
<1>7. CASE CheckHost
  <2>1. Udp \in Caller
    BY DEF Caller
  <2>. QED
    BY <1>7, <2>1 DEF CheckHost, ListTypeOK, TableOK, LockInv, NoLostVote, saveVars
<1>8. CASE AddHost
  <2>1. Udp \in Caller /\ target[Udp] \in Addr
    BY <1>8 DEF AddHost, LockInv, Caller
  <2>2. op' \in [Caller -> {"idle", "loop", "dec", "inc", "add"}]
        /\ target' \in [Caller -> Addr \cup {Nobody}]
        /\ \A t \in Caller : op'[t] # "idle" => op'[t] = op[t] /\ target'[t] = target[t]
    BY <1>8, <2>1 DEF AddHost, ListTypeOK
  <2>. QED  BY <1>8, <2>1, <2>2, EnterTableInv DEF AddHost
<1>9. CASE EnterByHand
  <2>1. op' \in [Caller -> {"idle", "loop", "dec", "inc", "add"}]
        /\ target' \in [Caller -> Addr \cup {Nobody}]
        /\ \A t \in Caller : op'[t] # "idle" => op'[t] = op[t] /\ target'[t] = target[t]
    BY <1>9 DEF EnterByHand, callVars, ListTypeOK
  <2>. QED  BY <1>9, <2>1, EnterTableInv DEF EnterByHand, callVars
<1>10. CASE SaveTruncate \/ SaveIterate \/ SaveWrite \/ SaveRaced \/ SaveAbort \/ SaveClose
  BY <1>10 DEF SaveTruncate, SaveIterate, SaveWrite, SaveRaced, SaveAbort, SaveClose,
     ListTypeOK, TableOK, LockInv, NoLostVote, callVars
<1>11. CASE UNCHANGED listVars
  BY <1>11 DEF listVars, ListTypeOK, TableOK, LockInv, NoLostVote
<1>. QED
  BY <1>1, <1>2, <1>3, <1>4, <1>5, <1>6, <1>7, <1>8, <1>9, <1>10, <1>11 DEF ListNext

-----------------------------------------------------------------------------
(* The strengthened invariant holds in every reachable state. *)
THEOREM TableInvariant == ListSpec => []TableInv
<1>1. ListInit => TableInv
  BY TableInvInit
<1>2. TableInv /\ [ListNext]_listVars => TableInv'
  BY TableInvStep
<1>. QED  BY <1>1, <1>2, PTL DEF ListSpec

(* Every variable keeps its type. *)
THEOREM TableTyping == ListSpec => []ListTypeOK
<1>1. TableInv => ListTypeOK
  BY DEF TableInv
<1>. QED  BY <1>1, TableInvariant, PTL

(* The table never names the local host and never holds a neighbour worth
   less than the threshold. *)
THEOREM SatisfactionRange == ListSpec => []TableOK
<1>1. TableInv => TableOK
  BY DEF TableInv
<1>. QED  BY <1>1, TableInvariant, PTL

(* The synchronized inc and dec lose no vote. *)
THEOREM VotesAreKept == ListSpec => []NoLostVote
<1>1. TableInv => NoLostVote
  BY DEF TableInv
<1>. QED  BY <1>1, TableInvariant, PTL

(* Only the dec of a neighbour at the threshold removes it. *)
LEMMA StepDrops ==
  TableInv /\ [ListNext]_listVars =>
    [\A n \in DOMAIN table \ DOMAIN table' :
       /\ table[n] = MinThreshold
       /\ \E t \in Caller : op[t] = "dec" /\ target[t] = n]_listVars
<1>. SUFFICES ASSUME TableInv, ListNext, NEW n \in DOMAIN table \ DOMAIN table'
              PROVE  /\ table[n] = MinThreshold
                     /\ \E t \in Caller : op[t] = "dec" /\ target[t] = n
  OBVIOUS
<1>1. IsTable(table)
  BY TableIsTable DEF TableInv
<1>2. ASSUME NEW t \in Caller, DecWrite(t)
      PROVE  /\ table[n] = MinThreshold
             /\ op[t] = "dec" /\ target[t] = n
  <2>1. /\ op[t] = "dec"
        /\ table' = AddNeighbor(table, Local, target[t], read[t] - 1)
    BY <1>2 DEF DecWrite, Vote, SetTable
  <2>2. target[t] \in Addr /\ read[t] \in Nat /\ read[t] = GetValue(table, target[t])
    BY <2>1 DEF TableInv, ListTypeOK, LockInv
  <2>3. n = target[t] /\ read[t] - 1 < MinThreshold
    BY <1>1, <2>1, <2>2, AddNeighborValues
  <2>4. table[n] = read[t] /\ table[n] >= MinThreshold
    BY <1>1, <2>2, <2>3 DEF GetValue, IsTable
  <2>. QED  BY <2>1, <2>2, <2>3, <2>4, SatAssumption
<1>3. ~IncWrite
  <2>. SUFFICES ASSUME IncWrite PROVE FALSE
    OBVIOUS
  <2>1. Udp \in Caller /\ op[Udp] = "inc"
    BY DEF IncWrite, Caller
  <2>2. table' = AddNeighbor(table, Local, target[Udp], read[Udp] + 1)
    BY DEF IncWrite, Vote, SetTable
  <2>3. target[Udp] \in Addr /\ read[Udp] \in Nat /\ read[Udp] = GetValue(table, target[Udp])
    BY <2>1 DEF TableInv, ListTypeOK, LockInv
  <2>4. n = target[Udp] /\ read[Udp] + 1 < MinThreshold
    BY <1>1, <2>2, <2>3, AddNeighborValues
  <2>5. table[n] = read[Udp] /\ table[n] >= MinThreshold
    BY <1>1, <2>3, <2>4 DEF GetValue, IsTable
  <2>. QED  BY <2>3, <2>4, <2>5, SatAssumption
<1>4. ~\E a \in Addr : Enter(a)
  <2>. SUFFICES ASSUME NEW a \in Addr, Enter(a) PROVE FALSE
    OBVIOUS
  <2>1. table' = AddNeighbor(table, Local, a, DefaultSat) /\ DefaultSat \in Int
    BY SatAssumption DEF Enter, SetTable
  <2>2. DefaultSat < MinThreshold
    BY <1>1, <2>1, AddNeighborValues
  <2>. QED  BY <2>2, SatAssumption
<1>5. ~AddHost /\ ~EnterByHand
  <2>1. AddHost => \E a \in Addr : Enter(a)
    BY DEF AddHost, TableInv, LockInv, Caller
  <2>2. EnterByHand => \E a \in Addr : Enter(a)
    BY DEF EnterByHand
  <2>. QED  BY <1>4, <2>1, <2>2
<1>6. table' # table
  OBVIOUS
<1>7. PICK t \in Caller : DecWrite(t)
  BY <1>3, <1>5, <1>6 DEF ListNext, GetTargets, DecRead, SendFails, IncRead, CheckHost,
     SaveTruncate, SaveIterate, SaveWrite, SaveRaced, SaveAbort, SaveClose
<1>. QED  BY <1>2, <1>7

THEOREM RemovalIsEarned == ListSpec => DropsOnlyAtThreshold
<1>. QED  BY TableInvariant, StepDrops, PTL DEF ListSpec, DropsOnlyAtThreshold
-----------------------------------------------------------------------------
(* What makes the save property inductive: the file is empty between its
   truncation and the first entry. *)
SaveInv ==
  /\ saver = "open" => file = {}
  /\ SaveIsComplete

(* An undisturbed save writes every neighbour. *)
THEOREM SaveCompleteness == ListSpec => []SaveIsComplete
<1>1. ListInit => SaveInv
  BY DEF ListInit, SaveInv, SaveIsComplete
<1>2. SaveInv /\ [ListNext]_listVars => SaveInv'
  <2>. SUFFICES ASSUME SaveInv, [ListNext]_listVars PROVE SaveInv'
    OBVIOUS
  <2>. USE DEF SaveInv, SaveIsComplete
  <2>1. ASSUME NEW m, SetTable(m), UNCHANGED saveVars PROVE SaveInv'
    BY <2>1 DEF SetTable, saveVars
  <2>2. ASSUME NEW t \in Caller, DecWrite(t) PROVE SaveInv'
    BY <2>1, <2>2 DEF DecWrite, Vote
  <2>3. CASE IncWrite \/ AddHost \/ EnterByHand
    BY <2>1, <2>3 DEF IncWrite, Vote, AddHost, EnterByHand, Enter
  <2>4. ASSUME NEW t \in Caller, GetTargets(t) \/ DecRead(t) \/ SendFails(t) PROVE SaveInv'
    BY <2>4 DEF GetTargets, DecRead, SendFails, saveVars
  <2>5. CASE IncRead \/ CheckHost \/ UNCHANGED listVars
    BY <2>5 DEF IncRead, CheckHost, saveVars, listVars
  <2>6. CASE SaveTruncate \/ SaveIterate \/ SaveWrite \/ SaveRaced \/ SaveAbort \/ SaveClose
    BY <2>6 DEF SaveTruncate, SaveIterate, SaveWrite, SaveRaced, SaveAbort, SaveClose
  <2>. QED  BY <2>2, <2>3, <2>4, <2>5, <2>6 DEF ListNext
<1>3. SaveInv => SaveIsComplete
  BY DEF SaveInv
<1>. QED  BY <1>1, <1>2, <1>3, PTL DEF ListSpec

-----------------------------------------------------------------------------
(* Who can ever be heard of. *)
GossipInv == TypeOK /\ NamesAreIntroduced

LEMMA GossipInit == Init => GossipInv
<1>. SUFFICES ASSUME Init PROVE GossipInv
  OBVIOUS
<1>1. TypeOK
  BY GossipAssumption DEF Init, TypeOK, ReadConf
<1>2. \A n \in Node : Known[n] \subseteq introduced
  BY DEF Init
<1>3. NamesAreIntroduced
  BY <1>2, GossipAssumption DEF Init, NamesAreIntroduced, ReadConf
<1>. QED  BY <1>1, <1>3 DEF GossipInv

(* What a node names it knows, or has introduced by naming. *)
LEMMA NamesIntroduced ==
  ASSUME GossipInv, NEW n \in Node, NEW h \in Names(n), Naming(n)
  PROVE  h \in Node /\ h \in introduced' /\ introduced \subseteq introduced'
         /\ introduced' \subseteq Node
BY DEF GossipInv, TypeOK, NamesAreIntroduced, Names, Naming

(* Lists, files and saves that gain only names already introduced. *)
LEMMA ThreadStep ==
  ASSUME GossipInv, NEW n \in Node,
         \/ \E m \in Node : PickAddr(n, m)
         \/ PickNobody(n) \/ PingFails(n) \/ Save(n)
  PROVE  GossipInv'
<1>. USE DEF GossipInv
<1>1. UNCHANGED <<knows, up, net, introduced, bounds>>
  BY DEF PickAddr, PickNobody, PingFails, Save, SaveOpen, SaveNext, SaveEnds
<1>2. /\ conf' \in [Node -> SUBSET Node] /\ unsaved' \in [Node -> SUBSET Node]
      /\ pp' \in [Node -> {"idle", "picked", "save", "write"}]
      /\ addr' \in [Node -> Node \cup {None}]
  <2>1. CASE SaveNext(n)
    <3>1. PICK m \in unsaved[n] : /\ unsaved' = [unsaved EXCEPT ![n] = @ \ {m}]
                                  /\ conf' = [conf EXCEPT ![n] = @ \cup {m}]
                                  /\ UNCHANGED <<pp, addr>>
      BY <2>1 DEF SaveNext
    <3>. QED  BY <3>1 DEF TypeOK
  <2>2. CASE SaveOpen(n)
    BY <2>2 DEF SaveOpen, TypeOK
  <2>4. CASE SaveEnds(n)
    BY <2>4 DEF SaveEnds, TypeOK
  <2>3. CASE PickNobody(n)
    BY <2>3 DEF PickNobody, TypeOK
  <2>5. CASE PingFails(n)
    BY <2>5 DEF PingFails, TypeOK
  <2>6. ASSUME NEW m \in Node, PickAddr(n, m)
        PROVE  /\ addr' \in [Node -> Node \cup {None}]
               /\ pp' \in [Node -> {"idle", "picked", "save", "write"}]
               /\ UNCHANGED <<conf, unsaved>>
    BY <2>6 DEF PickAddr, TypeOK
  <2>. QED  BY <2>1, <2>2, <2>3, <2>4, <2>5, <2>6 DEF Save, TypeOK
<1>3. TypeOK'
  BY <1>1, <1>2 DEF TypeOK, bounds
<1>4. \A x \in Node : conf'[x] \cup unsaved'[x] \subseteq knows[x] \cup conf[x] \cup unsaved[x]
  <2>1. CASE SaveOpen(n)
    BY <2>1 DEF SaveOpen, TypeOK
  <2>2. CASE SaveNext(n)
    <3>1. PICK m \in unsaved[n] : /\ unsaved' = [unsaved EXCEPT ![n] = @ \ {m}]
                                  /\ conf' = [conf EXCEPT ![n] = @ \cup {m}]
      BY <2>2 DEF SaveNext
    <3>. QED  BY <3>1 DEF TypeOK
  <2>3. CASE SaveEnds(n)
    BY <2>3 DEF SaveEnds, TypeOK
  <2>4. CASE UNCHANGED <<conf, unsaved>>
    BY <2>4
  <2>. QED  BY <2>1, <2>2, <2>3, <2>4 DEF PickAddr, PickNobody, PingFails, Save
<1>5. NamesAreIntroduced'
  BY <1>1, <1>4 DEF NamesAreIntroduced
<1>. QED  BY <1>3, <1>5

LEMMA PingStep ==
  ASSUME GossipInv, NEW n \in Node, NEW m \in Node, NEW h \in Node, Ping(n, m, h)
  PROVE  GossipInv'
<1>. USE DEF GossipInv
<1>1. /\ h \in introduced' /\ introduced \subseteq introduced' /\ introduced' \subseteq Node
  BY NamesIntroduced DEF Ping
<1>2. /\ net' = net \cup {[type |-> "PING", from |-> n, to |-> m, host |-> h]}
      /\ pp' = [pp EXCEPT ![n] = "save"] /\ addr' = [addr EXCEPT ![n] = None]
      /\ UNCHANGED <<knows, conf, up, unsaved, bounds>>
  BY DEF Ping, Pinging
<1>3. TypeOK'
  BY <1>1, <1>2 DEF TypeOK, Packet, bounds
<1>4. NamesAreIntroduced'
  BY <1>1, <1>2 DEF NamesAreIntroduced
<1>. QED  BY <1>3, <1>4

LEMMA ReceiveStep == ASSUME GossipInv, NEW n \in Node, Receive(n) PROVE GossipInv'
<1>. USE DEF GossipInv
<1>1. PICK p \in net : p.to = n /\ (ReceivePing(n, p) \/ ReceivePong(n, p))
  BY DEF Receive
<1>2. /\ knows' = [knows EXCEPT ![n] = @ \cup ({p.host} \ {n})]
      /\ UNCHANGED <<conf, up, pp, addr, unsaved, bounds>>
  BY <1>1 DEF Receive, ReceivePing, ReceivePong, Learn, threadVars
<1>3. p \in Packet /\ p.host \in Node /\ p.host \in introduced
  BY <1>1 DEF TypeOK, Packet, NamesAreIntroduced
<1>4. /\ introduced \subseteq introduced' /\ introduced' \subseteq Node
      /\ net' \subseteq Packet
      /\ \A q \in net' : q \in net \/ q.host \in introduced'
  <2>1. CASE ReceivePing(n, p)
    <3>1. PICK h \in Names(n) :
            net' = (net \ {p}) \cup {[type |-> "PONG", from |-> n, to |-> p.from, host |-> h]}
      BY <2>1 DEF ReceivePing
    <3>2. h \in Node /\ h \in introduced' /\ introduced \subseteq introduced' /\ introduced' \subseteq Node
      BY <2>1, NamesIntroduced DEF ReceivePing
    <3>. QED  BY <1>3, <3>1, <3>2 DEF TypeOK, Packet
  <2>2. CASE ReceivePong(n, p)
    BY <2>2 DEF ReceivePong, TypeOK
  <2>. QED  BY <1>1, <2>1, <2>2
<1>5. TypeOK'
  BY <1>2, <1>3, <1>4 DEF TypeOK, bounds
<1>6. NamesAreIntroduced'
  <2>1. \A x \in Node : knows'[x] \subseteq knows[x] \cup {p.host}
    BY <1>2 DEF TypeOK
  <2>. QED  BY <1>2, <1>3, <1>4, <2>1 DEF NamesAreIntroduced
<1>. QED  BY <1>5, <1>6

LEMMA RestStep ==
  ASSUME GossipInv, NEW n \in Node,
         \/ \E m \in Node : AddByHand(n, m) \/ Forget(n, m)
         \/ \E p \in net : Lose(p)
         \/ Crash(n) \/ Restart(n)
  PROVE  GossipInv'
<1>. USE DEF GossipInv
<1>1. ASSUME NEW m \in Node, AddByHand(n, m) PROVE GossipInv'
  <2>1. /\ knows' = [knows EXCEPT ![n] = @ \cup ({m} \ {n})]
        /\ introduced' = introduced \cup {m} /\ hands' = hands + 1 /\ hands < MaxHand
        /\ UNCHANGED <<conf, up, net, pp, addr, unsaved, crashes, forgets>>
    BY <1>1 DEF AddByHand, Learn, threadVars
  <2>2. TypeOK'
    BY <2>1, GossipAssumption DEF TypeOK
  <2>3. \A x \in Node : knows'[x] \subseteq knows[x] \cup {m}
    BY <2>1 DEF TypeOK
  <2>. QED  BY <2>1, <2>2, <2>3 DEF NamesAreIntroduced
<1>2. ASSUME NEW m \in Node, Forget(n, m) PROVE GossipInv'
  <2>1. /\ knows' = [knows EXCEPT ![n] = @ \ {m}]
        /\ forgets' = forgets + 1 /\ forgets < MaxForget
        /\ UNCHANGED <<conf, up, net, pp, addr, unsaved, introduced, crashes, hands>>
    BY <1>2 DEF Forget, threadVars
  <2>2. TypeOK'
    BY <2>1, GossipAssumption DEF TypeOK
  <2>3. \A x \in Node : knows'[x] \subseteq knows[x]
    BY <2>1 DEF TypeOK
  <2>. QED  BY <2>1, <2>2, <2>3 DEF NamesAreIntroduced
<1>3. ASSUME NEW p \in net, Lose(p) PROVE GossipInv'
  <2>1. net' = net \ {p}
        /\ UNCHANGED <<knows, conf, up, pp, addr, unsaved, introduced, crashes, forgets, hands>>
    BY <1>3 DEF Lose, threadVars, bounds
  <2>. QED  BY <2>1 DEF TypeOK, NamesAreIntroduced
<1>4. CASE Crash(n)
  <2>1. /\ knows' = [knows EXCEPT ![n] = {}] /\ unsaved' = [unsaved EXCEPT ![n] = {}]
        /\ pp' = [pp EXCEPT ![n] = "idle"] /\ addr' = [addr EXCEPT ![n] = None]
        /\ up' = up \ {n} /\ crashes' = crashes + 1 /\ crashes < MaxCrash
        /\ UNCHANGED <<conf, net, introduced, forgets, hands>>
    BY <1>4 DEF Crash
  <2>2. TypeOK'
    BY <2>1, GossipAssumption DEF TypeOK
  <2>3. \A x \in Node : knows'[x] \subseteq knows[x] /\ unsaved'[x] \subseteq unsaved[x]
    BY <2>1 DEF TypeOK
  <2>. QED  BY <2>1, <2>2, <2>3 DEF NamesAreIntroduced
<1>5. CASE Restart(n)
  <2>1. /\ knows' = [knows EXCEPT ![n] = conf[n] \ {n}] /\ up' = up \cup {n}
        /\ UNCHANGED <<conf, net, pp, addr, unsaved, introduced, crashes, forgets, hands>>
    BY <1>5 DEF Restart, ReadConf, threadVars, bounds
  <2>2. TypeOK'
    BY <2>1 DEF TypeOK
  <2>3. \A x \in Node : knows'[x] \subseteq knows[x] \cup conf[x]
    BY <2>1 DEF TypeOK
  <2>. QED  BY <2>1, <2>2, <2>3 DEF NamesAreIntroduced
<1>. QED  BY <1>1, <1>2, <1>3, <1>4, <1>5

LEMMA GossipStep == GossipInv /\ [Next]_vars => GossipInv'
<1>. SUFFICES ASSUME GossipInv, [Next]_vars PROVE GossipInv'
  OBVIOUS
<1>1. ASSUME NEW n \in Node, PingPong(n) PROVE GossipInv'
  BY <1>1, ThreadStep, PingStep DEF PingPong
<1>2. ASSUME NEW p \in net, Lose(p) PROVE GossipInv'
  BY <1>2, RestStep DEF GossipInv, TypeOK, Packet
<1>3. CASE UNCHANGED vars
  BY <1>3 DEF vars, threadVars, bounds, GossipInv, TypeOK, NamesAreIntroduced
<1>. QED  BY <1>1, <1>2, <1>3, ReceiveStep, RestStep DEF Next

(* Lists, files and datagrams hold nodes, and the local variables of the
   threads what the code puts in them. *)
THEOREM GossipTyping == Spec => []TypeOK
<1>1. GossipInv => TypeOK
  BY DEF GossipInv
<1>. QED  BY GossipInit, GossipStep, <1>1, PTL DEF Spec

(* A node that nobody lists, that is entered nowhere by hand and that keeps a
   neighbour is never heard of, in any overlay and whatever is lost
   (PingPong.java:26-31, UDPServer.java:92-104). *)
THEOREM UnintroducedStayUnknown == Spec => []NamesAreIntroduced
<1>1. GossipInv => NamesAreIntroduced
  BY DEF GossipInv
<1>. QED  BY GossipInit, GossipStep, <1>1, PTL DEF Spec

-----------------------------------------------------------------------------
(* Starting and stopping. *)
LifeInv == LifeTypeOK /\ NeverHalfUp

LEMMA LifeInvInit == LifeInit => LifeInv
BY LifecycleAssumption DEF LifeInit, LifeInv, LifeTypeOK, NeverHalfUp, Thread, Port, Acceptor

LEMMA LifeTypeStep == LifeTypeOK /\ [LifeNext]_lifeVars => LifeTypeOK'
<1>. SUFFICES ASSUME LifeTypeOK, [LifeNext]_lifeVars PROVE LifeTypeOK'
  OBVIOUS
<1>. USE LifecycleAssumption DEF LifeTypeOK
<1>1. CASE StartSucceeds
  BY <1>1 DEF StartSucceeds, Click
<1>2. CASE StartFails
  <2>1. \A taken : Bound(taken) \subseteq Acceptor
    BY DEF Bound, Acceptor
  <2>2. leaked' \subseteq Acceptor
    BY <1>2, <2>1 DEF StartFails
  <2>. QED  BY <1>2, <2>2 DEF StartFails, Click
<1>3. CASE Stop
  BY <1>3 DEF Stop, Click
<1>4. ASSUME NEW p \in Acceptor, Collect(p) \/ AcceptorEnds(p) PROVE LifeTypeOK'
  BY <1>4 DEF Collect, AcceptorEnds
<1>5. CASE PingPongEnds
  BY <1>5 DEF PingPongEnds
<1>6. CASE Datagram
  BY <1>6 DEF Datagram
<1>7. CASE HandleDatagram \/ HandlerThrows
  <2>1. queue' \in 0 .. MaxQueue
    BY <1>7 DEF HandleDatagram, HandlerThrows
  <2>2. late' \in Nat /\ thread' \in [Thread -> {"none", "running", "interrupted", "ended"}]
    BY <1>7 DEF HandleDatagram, HandlerThrows
  <2>. QED  BY <1>7, <2>1, <2>2 DEF HandleDatagram, HandlerThrows
<1>8. CASE UNCHANGED lifeVars
  BY <1>8 DEF lifeVars
<1>. QED  BY <1>1, <1>2, <1>3, <1>4, <1>5, <1>6, <1>7, <1>8 DEF LifeNext

(* While an acceptor runs only Stop ends it, and Stop ends the other threads
   with it; no step of another thread can then take anything away. *)
LEMMA HalfStep == LifeInv /\ [LifeNext]_lifeVars => NeverHalfUp'
<1>. SUFFICES ASSUME LifeTypeOK, NeverHalfUp, [LifeNext]_lifeVars, NEW t \in Acceptor, thread'[t] = "running"
              PROVE  held' = Port /\ \A u \in Thread : thread'[u] = "running"
  BY DEF LifeInv, NeverHalfUp
<1>0. t \in Thread /\ t \in Port
  BY DEF Acceptor, Thread, Port
<1>1. CASE StartSucceeds
  BY <1>1 DEF StartSucceeds
<1>2. CASE Stop
  BY <1>0, <1>2 DEF Stop, LifeTypeOK
<1>3. CASE ~StartSucceeds /\ ~Stop
  <2>1. thread[t] = "running"
    BY <1>0, <1>3 DEF LifeNext, StartFails, Collect, AcceptorEnds, PingPongEnds, Datagram,
       HandleDatagram, HandlerThrows, lifeVars, LifeTypeOK
  <2>2. held = Port /\ \A u \in Thread : thread[u] = "running"
    BY <2>1 DEF NeverHalfUp
  <2>3. held' = held
    BY <1>3 DEF LifeNext, StartFails, Collect, AcceptorEnds, PingPongEnds, Datagram,
       HandleDatagram, HandlerThrows, lifeVars
  <2>4. thread' = thread
    <3>1. thread["pp"] = "running" /\ thread["udp"] = "running"
      BY <2>2 DEF Thread
    <3>2. ~PingPongEnds /\ \A p \in Acceptor : ~AcceptorEnds(p)
      BY <2>2, <3>1 DEF PingPongEnds, AcceptorEnds, Acceptor, Port
    <3>. QED  BY <1>3, <3>1, <3>2 DEF LifeNext, StartFails, Collect, Datagram, HandleDatagram,
              HandlerThrows, lifeVars
  <2>. QED  BY <2>2, <2>3, <2>4
<1>. QED  BY <1>1, <1>2, <1>3

(* Every variable keeps its type: only acceptors' sockets are ever leaked. *)
THEOREM LifecycleTyping == LifeSpec => []LifeTypeOK
BY LifeInvInit, LifeTypeStep, PTL DEF LifeSpec, LifeInv

(* A node that accepts browsers has all its sockets and all its threads
   (FreeOxy.java:90-140). *)
THEOREM AcceptorsAreServed == LifeSpec => []NeverHalfUp
<1>1. LifeInv /\ [LifeNext]_lifeVars => LifeInv'
  BY LifeTypeStep, HalfStep DEF LifeInv
<1>. QED  BY LifeInvInit, <1>1, PTL DEF LifeSpec, LifeInv

(* Once the UDP thread has been told, its socket stays open, so that no Start
   can run it again; the one datagram it may still handle ends it. *)
UdpInv ==
  /\ thread["udp"] # "none" => "udp" \in held
  /\ late = 0 \/ (late = 1 /\ thread["udp"] = "ended")

LEMMA UdpInit == LifeInit => UdpInv
BY DEF LifeInit, UdpInv, Thread

LEMMA UdpStep == LifeTypeOK /\ UdpInv /\ [LifeNext]_lifeVars => UdpInv'
<1>. SUFFICES ASSUME LifeTypeOK, UdpInv, [LifeNext]_lifeVars PROVE UdpInv'
  OBVIOUS
<1>. USE DEF UdpInv
<1>0. thread \in [Thread -> {"none", "running", "interrupted", "ended"}]
      /\ "udp" \in Thread /\ "udp" \notin Acceptor
  BY DEF LifeTypeOK, Thread, Acceptor
<1>1. CASE StartSucceeds
  <2>1. "udp" \in Port /\ "udp" \notin held
    BY <1>1 DEF StartSucceeds, Free, Port
  <2>. QED  BY <1>0, <1>1, <2>1 DEF StartSucceeds
<1>2. CASE StartFails
  BY <1>2 DEF StartFails
<1>3. CASE Stop
  BY <1>0, <1>3 DEF Stop
<1>4. ASSUME NEW p \in Acceptor, Collect(p) \/ AcceptorEnds(p) PROVE UdpInv'
  BY <1>0, <1>4 DEF Collect, AcceptorEnds
<1>5. CASE PingPongEnds
  BY <1>0, <1>5 DEF PingPongEnds
<1>6. CASE Datagram \/ HandlerThrows
  BY <1>6 DEF Datagram, HandlerThrows
<1>7. CASE HandleDatagram
  <2>1. late = 0
    BY <1>7 DEF HandleDatagram
  <2>. QED  BY <1>0, <1>7, <2>1 DEF HandleDatagram
<1>8. CASE UNCHANGED lifeVars
  BY <1>8 DEF lifeVars
<1>. QED  BY <1>1, <1>2, <1>3, <1>4, <1>5, <1>6, <1>7, <1>8 DEF LifeNext

(* A stopped node handles one more datagram to its end and no second: the
   interrupt is seen then, and nothing starts the thread again
   (UDPServer.java:49-60). *)
THEOREM LateDatagrams == LifeSpec => []OneLateDatagram
<1>1. UdpInv => OneLateDatagram
  BY DEF UdpInv, OneLateDatagram
<1>. QED  BY <1>1, LifeInvInit, LifeTypeStep, UdpInit, UdpStep, PTL DEF LifeSpec, LifeInv
=============================================================================
