----------------------------- MODULE ProxyService -----------------------------
(***************************************************************************)
(* What FreeOxy promises of the connections it proxies, whatever messages  *)
(* it takes: a connection is opened by a browser or as the far end of one  *)
(* other connection's pipe; it is given a route at most once and keeps it; *)
(* it may be given up, or lost with its node, but never answered twice.    *)
(***************************************************************************)
CONSTANTS Conn, Web, Nowhere

VARIABLES status, route

vars == <<status, route>>

Init ==
  /\ status = [c \in Conn |-> "idle"]
  /\ route = [c \in Conn |-> Nowhere]

Open(c) ==
  /\ status[c] = "idle"
  /\ status' = [status EXCEPT ![c] = "open"]
  /\ UNCHANGED route

RouteToWeb(c) ==
  /\ status[c] = "open"
  /\ status' = [status EXCEPT ![c] = "routed"]
  /\ route' = [route EXCEPT ![c] = Web]

RouteToPeer(c, k) ==
  /\ status[c] = "open"
  /\ status[k] = "idle"
  /\ status' = [status EXCEPT ![c] = "routed", ![k] = "open"]
  /\ route' = [route EXCEPT ![c] = k]

GiveUp(c) ==
  /\ status[c] = "open"
  /\ status' = [status EXCEPT ![c] = "failed"]
  /\ UNCHANGED route

LoseNode(S) ==
  /\ \A c \in S : status[c] # "idle"
  /\ status' = [c \in Conn |-> IF c \in S THEN "gone" ELSE status[c]]
  /\ UNCHANGED route

Next ==
  \/ \E c \in Conn : Open(c) \/ RouteToWeb(c) \/ GiveUp(c)
  \/ \E c, k \in Conn : RouteToPeer(c, k)
  \/ \E S \in SUBSET Conn : LoseNode(S)

Spec == Init /\ [][Next]_vars
=============================================================================
