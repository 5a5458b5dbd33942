--------------------------- MODULE SplitLoopProof ---------------------------
(***************************************************************************)
(* The loop of checkSplitIsland computes PeerGroups, for any number of     *)
(* peers anywhere, in any order.                                           *)
(***************************************************************************)
EXTENDS SplitLoop, IslandsProof

Inv ==
  /\ pos \in [Peer -> Pos]
  /\ passed \subseteq Peer
  /\ GroupsAreComponents

LEMMA PeersMutual ==
  ASSUME pos \in [Peer -> Pos], NEW S \in SUBSET Peer
  PROVE  Mutual(S, pos, LeaveDistance)
<1>1. \A m \in S : pos[m] \in [x : Int, z : Int]
  BY PosAssumption
<1> QED
  BY <1>1, SquaredDistanceSymmetric DEF Mutual, Near

LEMMA InitInv == Init => Inv
BY DEF Init, Inv, GroupsAreComponents, PeerGroups

LEMMA PassInv ==
  ASSUME Inv, NEW p \in Peer, Pass(p)
  PROVE  Inv'
<1>1. /\ UNCHANGED pos /\ passed' = passed \cup {p} /\ p \notin passed
      /\ pos \in [Peer -> Pos] /\ passed' \subseteq Peer
      /\ peerGroups = PeerGroups(passed, pos, LeaveDistance)
  BY DEF Pass, Inv, GroupsAreComponents
<1>2. peerGroups' = (peerGroups \ GroupsIntersected(p)) \cup {{p} \cup UNION GroupsIntersected(p)}
  BY DEF Pass, JoinGroups
<1> DEFINE groups == PeerGroups(passed, pos, LeaveDistance)
           near == NearGroups(p, passed, pos, LeaveDistance)
<1>3. GroupsIntersected(p) = near
  BY <1>1 DEF GroupsIntersected, NearGroups
<1>4. PeerGroups(passed', pos, LeaveDistance) = (groups \ near) \cup {{p} \cup UNION near}
  <2>1. p \notin passed /\ passed' = passed \cup {p}
    BY <1>1
  <2>2. Mutual(passed', pos, LeaveDistance)
    BY <1>1, PeersMutual
  <2> QED
    BY <2>1, <2>2, OneMorePeer
<1>5. peerGroups' = PeerGroups(passed', pos', LeaveDistance)
  <2>1. peerGroups' = (groups \ near) \cup {{p} \cup UNION near}
    BY <1>1, <1>2, <1>3
  <2> QED
    BY <1>1, <1>4, <2>1
<1> QED
  BY <1>1, <1>5 DEF Inv, GroupsAreComponents

\* Whatever the order in which the loop passes the peers, its groups are at
\* every moment the connected components of those passed: a split separates
\* exactly the peers that no chain of neighbours connects, which Engine takes
\* as Groups.
THEOREM LoopFindsComponents == Spec => []GroupsAreComponents
<1>1. Inv => GroupsAreComponents
  BY DEF Inv
<1>2. Inv /\ [Next]_vars => Inv'
  <2>1. Inv /\ UNCHANGED vars => Inv'
    BY DEF vars, Inv, GroupsAreComponents
  <2> QED
    BY <2>1, PassInv DEF Next
<1> QED
  BY <1>1, <1>2, InitInv, PTL DEF Spec

============================================================================
