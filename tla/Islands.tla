------------------------------ MODULE Islands ------------------------------
(***************************************************************************)
(* The geometry of core/src/logic/islands.ts and the grouping that         *)
(* checkSplitIsland (core/src/adapters/engine.ts) computes with it.        *)
(*                                                                         *)
(* A position is a point [x, z] of the ground plane: squaredDistance       *)
(* ignores the height.  pos maps a peer object to its position, a group    *)
(* of peers is a set of peer objects.                                      *)
(***************************************************************************)
EXTENDS Integers

Squared(n) == n * n

SquaredDistance(p, q) == Squared(q.x - p.x) + Squared(q.z - p.z)

\* intersectPeerGroup: some member of the group is within the distance.
IntersectPeerGroup(o, group, pos, distance) ==
  \E m \in group : SquaredDistance(pos[o], pos[m]) <= Squared(distance)

\* intersectIslands: some pair of members is within the distance.  The test
\* on the two enclosing circles that precedes it in the code only spares the
\* pairwise one: a pair within d implies |c1 - c2| <= r1 + r2 + d.
IntersectIslands(members, others, pos, distance) ==
  \E m \in members : IntersectPeerGroup(m, others, pos, distance)

----------------------------------------------------------------------------

\* Nobody of one set is within the distance of anybody of the other.
Apart(C, D, pos, distance) ==
  /\ ~ IntersectIslands(C, D, pos, distance)
  /\ ~ IntersectIslands(D, C, pos, distance)

\* The subsets of S that are apart from the rest of S.
Closed(S, pos, distance) ==
  {C \in SUBSET S : Apart(C, S \ C, pos, distance)}

\* The connected component of o in S: what every closed set around o contains.
Component(o, S, pos, distance) ==
  {m \in S : \A C \in Closed(S, pos, distance) : o \in C => m \in C}

\* The peerGroups that checkSplitIsland builds from the members S of an
\* island: the connected components under the leave distance.
\* SplitLoop compares the loop of the code with this definition.
PeerGroups(S, pos, distance) == {Component(o, S, pos, distance) : o \in S}

============================================================================
