----------------------------- MODULE SplitLoop -----------------------------
(***************************************************************************)
(* The loop with which checkSplitIsland (core/src/adapters/engine.ts)      *)
(* groups the peers of an island: one step per peer, in any order.         *)
(* Engine takes its result as PeerGroups.                                  *)
(***************************************************************************)
EXTENDS Islands, FiniteSets

CONSTANTS
  Peer,             \* the peers of the island
  Pos,              \* where they may be
  LeaveDistance     \* ARCHIPELAGO_LEAVE_DISTANCE

ASSUME PosAssumption == Pos \subseteq [x : Int, z : Int]

ASSUME DistanceAssumption == LeaveDistance \in Nat

VARIABLES
  pos,              \* the positions, which do not change during the loop
  passed,           \* the peers that the loop has passed
  peerGroups

vars == <<pos, passed, peerGroups>>

Init ==
  /\ pos \in [Peer -> Pos]
  /\ passed = {}
  /\ peerGroups = {}

GroupsIntersected(p) ==
  {g \in peerGroups : IntersectPeerGroup(p, g, pos, LeaveDistance)}

\* Mutant: the peer joins one of the groups it is near to, and they stay apart.
JoinOneOnly(p) ==
  \E g \in GroupsIntersected(p) : peerGroups' = (peerGroups \ {g}) \cup {g \cup {p}}

\* The groups that the peer is near to become one, with the peer.
JoinGroups(p) ==
  peerGroups' = (peerGroups \ GroupsIntersected(p)) \cup {{p} \cup UNION GroupsIntersected(p)}

Pass(p) ==
  /\ p \notin passed
  /\ passed' = passed \cup {p}
  /\ IF GroupsIntersected(p) = {} THEN peerGroups' = peerGroups \cup {{p}} ELSE JoinGroups(p)
  /\ UNCHANGED pos

Next == \E p \in Peer : Pass(p)

Spec == Init /\ [][Next]_vars

----------------------------------------------------------------------------

\* The groups are at every moment the connected components of the peers passed
\* so far, whatever the order of the array: a peer that connects several groups
\* joins them all (the merging branch of checkSplitIsland).
GroupsAreComponents == peerGroups = PeerGroups(passed, pos, LeaveDistance)

============================================================================
