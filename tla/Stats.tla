------------------------------- MODULE Stats -------------------------------
(***************************************************************************)
(* The state of the stats service (stats/src/adapters/stats.ts), the NATS  *)
(* messages that change it (stats/src/service.ts) and what is answered     *)
(* from it at /peers and /islands (stats/src/controllers/handlers).        *)
(*                                                                         *)
(* Whatever is read from it is a copy of maps of two services, at two      *)
(* different times.  Islands are records of their id and their peers.      *)
(***************************************************************************)
EXTENDS Naturals

CONSTANTS
  Peer,             \* wallet addresses
  NoPosition        \* the "position" of a peer that stats do not know

VARIABLES
  peers,            \* the position of each peer, as of its last heartbeat
  islands           \* the last report of the islands

Known == {p \in Peer : peers[p] # NoPosition}

Init ==
  /\ peers = [p \in Peer |-> NoPosition]
  /\ islands = {}

\* peer.*.heartbeat; one without a position is ignored.
OnPeerUpdated(p, x) ==
  /\ peers' = [peers EXCEPT ![p] = x]
  /\ UNCHANGED islands

\* Mutant: a disconnect is not looked at.
KeepPeer(p) == UNCHANGED <<peers, islands>>

\* peer.*.disconnect
OnPeerDisconnected(p) ==
  /\ peers' = [peers EXCEPT ![p] = NoPosition]
  /\ UNCHANGED islands

\* Mutant: the islands of a report are added.
AddIslands(report) ==
  /\ islands' = islands \cup report
  /\ UNCHANGED peers

\* engine.islands: a report takes the place of the one before.
OnIslandsDataReceived(report) ==
  /\ islands' = report
  /\ UNCHANGED peers

----------------------------------------------------------------------------

\* /peers, for the addresses that are asked for, or for all
PeersAnswer(ids) == IF ids = {} THEN Known ELSE Known \cap ids

\* processIsland: a peer of the report that is unknown by now is left out.
ProcessIsland(island) == [island EXCEPT !.peers = @ \cap Known]

\* /islands
IslandsAnswer == {ProcessIsland(i) : i \in islands}

============================================================================
