---------------------------- MODULE IslandsProof ----------------------------
(***************************************************************************)
(* The groups of checkSplitIsland partition the island, whatever the       *)
(* positions and the distance are.                                         *)
(***************************************************************************)
EXTENDS Islands, TLAPS

\* What is apart from the rest leaves a rest that is apart from it.
LEMMA ComplementClosed ==
  ASSUME NEW S, NEW pos, NEW distance, NEW C \in Closed(S, pos, distance)
  PROVE  S \ C \in Closed(S, pos, distance)
<1>1. C \subseteq S /\ Apart(C, S \ C, pos, distance)
  BY DEF Closed
<1>2. S \ (S \ C) = C
  BY <1>1
<1>3. Apart(S \ C, C, pos, distance)
  BY <1>1 DEF Apart
<1> QED
  BY <1>2, <1>3 DEF Closed

LEMMA InComponent ==
  ASSUME NEW S, NEW pos, NEW distance, NEW o, NEW m
  PROVE  m \in Component(o, S, pos, distance) <=>
           /\ m \in S
           /\ \A C \in Closed(S, pos, distance) : o \in C => m \in C
BY DEF Component

\* Two peers share their components or have none in common.
LEMMA ComponentsAgree ==
  ASSUME NEW S, NEW pos, NEW distance, NEW o \in S, NEW q \in S,
         NEW m \in Component(o, S, pos, distance), m \in Component(q, S, pos, distance)
  PROVE  Component(o, S, pos, distance) = Component(q, S, pos, distance)
<1> DEFINE K == Closed(S, pos, distance)
           In(x) == Component(x, S, pos, distance)
<1>1. ASSUME NEW x \in S, NEW y \in S, m \in In(x), m \in In(y), NEW C \in K, x \in C
      PROVE  y \in C
  <2>1. SUFFICES ASSUME y \notin C PROVE FALSE
    OBVIOUS
  <2>2. S \ C \in K /\ y \in S \ C
    BY <2>1, ComplementClosed
  <2>3. m \in C
    BY <1>1, InComponent
  <2>4. m \in S \ C
    BY <1>1, <2>2, InComponent
  <2> QED
    BY <2>3, <2>4
<1>2. ASSUME NEW z \in In(o) PROVE z \in In(q)
  <2>1. \A C \in K : q \in C => o \in C
    BY <1>1
  <2> QED
    BY <2>1, <1>2, InComponent
<1>3. ASSUME NEW z \in In(q) PROVE z \in In(o)
  <2>1. \A C \in K : o \in C => q \in C
    BY <1>1
  <2> QED
    BY <2>1, <1>3, InComponent
<1> QED
  BY <1>2, <1>3

\* Every group is made of members of the island and has one.
LEMMA GroupsInside ==
  ASSUME NEW S, NEW pos, NEW distance, NEW g \in PeerGroups(S, pos, distance)
  PROVE  g \subseteq S /\ g # {}
<1>1. PICK o \in S : g = Component(o, S, pos, distance)
  BY DEF PeerGroups
<1>2. g \subseteq S
  BY <1>1, InComponent
<1>3. o \in g
  BY <1>1, InComponent
<1> QED
  BY <1>2, <1>3

\* The groups of checkSplitIsland are a partition of the members: none is empty,
\* everybody is in one of them and nobody is in two, so that a split loses no
\* peer, puts no peer on two islands and makes no island for nobody.
THEOREM PeerGroupsPartition ==
  ASSUME NEW S, NEW pos, NEW distance
  PROVE  /\ UNION PeerGroups(S, pos, distance) = S
         /\ \A g \in PeerGroups(S, pos, distance) : g # {}
         /\ \A g, h \in PeerGroups(S, pos, distance) : g # h => g \cap h = {}
<1>1. ASSUME NEW o \in S PROVE \E g \in PeerGroups(S, pos, distance) : o \in g
  <2>1. o \in Component(o, S, pos, distance)
    BY InComponent
  <2> QED
    BY <2>1 DEF PeerGroups
<1>2. UNION PeerGroups(S, pos, distance) = S
  BY <1>1, GroupsInside
<1>3. ASSUME NEW g \in PeerGroups(S, pos, distance), NEW h \in PeerGroups(S, pos, distance),
             NEW m \in g \cap h
      PROVE  g = h
  <2>1. PICK o \in S : g = Component(o, S, pos, distance)
    BY DEF PeerGroups
  <2>2. PICK q \in S : h = Component(q, S, pos, distance)
    BY DEF PeerGroups
  <2> QED
    BY <1>3, <2>1, <2>2, ComponentsAgree
<1>4. \A g \in PeerGroups(S, pos, distance) : g # {}
  BY GroupsInside
<1> QED
  BY <1>2, <1>3, <1>4

----------------------------------------------------------------------------
(* How the groups change with one more peer *)

LEMMA SquaredDistanceSymmetric ==
  ASSUME NEW p \in [x : Int, z : Int], NEW q \in [x : Int, z : Int]
  PROVE  SquaredDistance(p, q) = SquaredDistance(q, p)
<1>1. ASSUME NEW m \in Int, NEW n \in Int PROVE Squared(m - n) = Squared(n - m)
  BY DEF Squared
<1> QED
  BY <1>1 DEF SquaredDistance

Near(m, n, pos, distance) == SquaredDistance(pos[m], pos[n]) <= Squared(distance)

\* Among the peers of S, who is near to whom is near to it in turn.
Mutual(S, pos, distance) ==
  \A m, n \in S : Near(m, n, pos, distance) => Near(n, m, pos, distance)

LEMMA ClosedIs ==
  ASSUME NEW S, NEW pos, NEW distance, Mutual(S, pos, distance), NEW C
  PROVE  C \in Closed(S, pos, distance) <=>
           /\ C \subseteq S
           /\ \A m \in C, n \in S \ C : ~ Near(m, n, pos, distance)
BY DEF Closed, Apart, IntersectIslands, IntersectPeerGroup, Near, Mutual

LEMMA OwnComponent ==
  ASSUME NEW S, NEW pos, NEW distance, NEW o \in S
  PROVE  o \in Component(o, S, pos, distance)
BY InComponent

\* A group is apart from the rest of the island.
LEMMA GroupsClosed ==
  ASSUME NEW S, NEW pos, NEW distance, Mutual(S, pos, distance),
         NEW g \in PeerGroups(S, pos, distance)
  PROVE  g \in Closed(S, pos, distance)
<1>1. PICK o \in S : g = Component(o, S, pos, distance)
  BY DEF PeerGroups
<1>2. ASSUME NEW m \in g, NEW n \in S \ g PROVE ~ Near(m, n, pos, distance)
  <2>1. PICK C \in Closed(S, pos, distance) : o \in C /\ n \notin C
    BY <1>1, InComponent
  <2>2. m \in C
    BY <1>1, <2>1, InComponent
  <2> QED
    BY <2>1, <2>2, ClosedIs
<1> QED
  BY <1>2, ClosedIs, GroupsInside

\* A group is the component of each of its members.
LEMMA GroupOfMember ==
  ASSUME NEW S, NEW pos, NEW distance, NEW g \in PeerGroups(S, pos, distance), NEW m \in g
  PROVE  m \in S /\ g = Component(m, S, pos, distance)
<1>1. PICK o \in S : g = Component(o, S, pos, distance)
  BY DEF PeerGroups
<1>2. m \in S
  BY GroupsInside
<1> QED
  BY <1>1, <1>2, OwnComponent, ComponentsAgree

\* The groups of S that p is near to.
NearGroups(p, S, pos, distance) ==
  {g \in PeerGroups(S, pos, distance) : IntersectPeerGroup(p, g, pos, distance)}

\* With the peer p, the groups that p is near to become one with p, and the
\* others stay as they are.
THEOREM OneMorePeer ==
  ASSUME NEW S, NEW p, p \notin S, NEW pos, NEW distance,
         NEW T, T = S \cup {p}, Mutual(T, pos, distance)
  PROVE  PeerGroups(T, pos, distance) =
           (PeerGroups(S, pos, distance) \ NearGroups(p, S, pos, distance))
             \cup {{p} \cup UNION NearGroups(p, S, pos, distance)}
<1> DEFINE groups == PeerGroups(S, pos, distance)
           near == NearGroups(p, S, pos, distance)
           joined == {p} \cup UNION near
<1>1. Mutual(S, pos, distance) /\ Mutual(T, pos, distance)
  BY DEF Mutual
<1>2. /\ near \subseteq groups
      /\ \A g \in groups : g \in near <=> \E n \in g : Near(p, n, pos, distance)
  BY DEF NearGroups, IntersectPeerGroup, Near
<1>3. ASSUME NEW C \in Closed(T, pos, distance) PROVE C \cap S \in Closed(S, pos, distance)
  BY <1>1, ClosedIs
<1>4. ASSUME NEW g \in groups PROVE g \subseteq S /\ \A m \in g, n \in S \ g : ~ Near(m, n, pos, distance)
  BY <1>1, ClosedIs, GroupsClosed
<1>5. ASSUME NEW g \in groups \ near PROVE g \in Closed(T, pos, distance)
  <2>1. ASSUME NEW m \in g, NEW n \in T \ g PROVE ~ Near(m, n, pos, distance)
    <3>1. CASE n = p
      BY <1>1, <1>2, <1>4, <3>1 DEF Mutual
    <3>2. CASE n # p
      BY <1>2, <1>4, <3>2
    <3> QED
      BY <3>1, <3>2
  <2> QED
    BY <1>1, <1>2, <1>4, <2>1, ClosedIs
<1>6. \A n \in S : \E g \in groups : n \in g
  BY PeerGroupsPartition
<1>7. joined \in Closed(T, pos, distance)
  <2>1. joined \subseteq T
    BY <1>2, <1>4
  <2>2. ASSUME NEW m \in joined, NEW n \in T \ joined PROVE ~ Near(m, n, pos, distance)
    <3>1. PICK h \in groups : n \in h /\ h \notin near
      BY <1>6
    <3>2. CASE m = p
      BY <1>2, <3>1, <3>2
    <3>3. CASE m # p
      <4>1. PICK g \in near : m \in g
        BY <3>3
      <4> QED
        BY <1>2, <1>4, <4>1
    <3> QED
      BY <3>2, <3>3
  <2> QED
    BY <1>1, <2>1, <2>2, ClosedIs
<1>8. ASSUME NEW g \in groups, NEW m \in g, NEW n \in g, NEW C \in Closed(T, pos, distance), m \in C
      PROVE  n \in C
  <2>1. m \in S /\ n \in Component(m, S, pos, distance)
    BY GroupOfMember
  <2>2. C \cap S \in Closed(S, pos, distance) /\ m \in C \cap S
    BY <1>2, <1>3, <1>8, <2>1
  <2> QED
    BY <2>1, <2>2, InComponent
<1>9. ASSUME NEW g \in groups \ near, NEW o \in g PROVE Component(o, T, pos, distance) = g
  <2>1. Component(o, T, pos, distance) \subseteq g
    BY <1>5, InComponent
  <2>2. g \subseteq Component(o, T, pos, distance)
    BY <1>2, <1>4, <1>8, InComponent
  <2> QED
    BY <2>1, <2>2
<1>10. Component(p, T, pos, distance) = joined
  <2>1. Component(p, T, pos, distance) \subseteq joined
    BY <1>7, InComponent
  <2>2. ASSUME NEW m \in joined, NEW C \in Closed(T, pos, distance), p \in C PROVE m \in C
    <3>1. CASE m # p
      <4>1. PICK g \in near : m \in g
        BY <3>1
      <4>2. PICK n \in g : Near(p, n, pos, distance)
        BY <1>2
      <4>3. n \in C
        BY <1>1, <1>2, <1>4, <2>2, <4>2, ClosedIs
      <4> QED
        BY <1>2, <1>8, <4>1, <4>3
    <3> QED
      BY <2>2, <3>1
  <2>3. joined \subseteq Component(p, T, pos, distance)
    BY <1>2, <1>4, <2>2, InComponent
  <2> QED
    BY <2>1, <2>3
<1>11. ASSUME NEW o \in joined PROVE Component(o, T, pos, distance) = joined
  <2>1. o \in T /\ p \in T
    BY <1>2, <1>4
  <2>2. o \in Component(o, T, pos, distance) /\ o \in Component(p, T, pos, distance)
    BY <1>10, <2>1, OwnComponent
  <2>3. Component(o, T, pos, distance) = Component(p, T, pos, distance)
    BY <2>1, <2>2, ComponentsAgree
  <2> QED
    BY <1>10, <2>3
<1>12. ASSUME NEW o \in T PROVE Component(o, T, pos, distance) \in (groups \ near) \cup {joined}
  <2>1. CASE o \in joined
    BY <1>11, <2>1
  <2>2. CASE o \notin joined
    <3>1. PICK g \in groups : o \in g
      BY <1>6, <2>2
    <3>2. g \in groups \ near
      BY <2>2, <3>1
    <3> QED
      BY <1>9, <3>1, <3>2
  <2> QED
    BY <2>1, <2>2
<1>13. ASSUME NEW g \in (groups \ near) \cup {joined} PROVE \E o \in T : g = Component(o, T, pos, distance)
  <2>1. CASE g = joined
    BY <1>10, <2>1
  <2>2. CASE g \in groups \ near
    <3>1. PICK o \in g : o \in S
      BY <1>2, <1>4, <2>2, GroupsInside
    <3>2. g = Component(o, T, pos, distance)
      BY <1>9, <2>2, <3>1
    <3> QED
      BY <3>1, <3>2
  <2> QED
    BY <2>1, <2>2
<1>14. PeerGroups(T, pos, distance) = {Component(o, T, pos, distance) : o \in T}
  BY DEF PeerGroups
<1> HIDE DEF groups, near, joined
<1>15. PeerGroups(T, pos, distance) = (groups \ near) \cup {joined}
  BY <1>12, <1>13, <1>14
<1> QED
  BY <1>15 DEF groups, near, joined

============================================================================
