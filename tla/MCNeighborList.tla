---------------------------- MODULE MCNeighborList ----------------------------
(* Two remote neighbours and the local address, two Connection threads beside
   the UDP thread, and a satisfaction range of four values. *)
EXTENDS NeighborList

CONSTANTS n1, n2, me, p1, p2, udp, none

MCAddr == {n1, n2, me}
MCLocal == {me}
MCProber == {p1, p2}
=============================================================================
