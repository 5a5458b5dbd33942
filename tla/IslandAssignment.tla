-------------------------- MODULE IslandAssignment --------------------------
(***************************************************************************)
(* What the engine promises to whoever follows the islands of its peers:   *)
(* the only ways in which the assignment of peers to islands may change.   *)
(*                                                                         *)
(* A peer enters on an island of its own; a group leaves an island         *)
(* together for a brand-new one; an island moves as a whole into another   *)
(* that has room for it; and at any time peers of an island may be dropped *)
(* (disconnected, or evicted by the transport).  An island id, which names *)
(* a voice room, is never given out twice.                                 *)
(*                                                                         *)
(* Where an island may still list peers that have left, two more things    *)
(* can be seen: whoever has come back elsewhere is dropped there if it is  *)
(* refused as one of the old island, and an island of nobody but the gone  *)
(* can merge.                                                              *)
(***************************************************************************)
EXTENDS Naturals, FiniteSets

CONSTANTS Peer, IslandId, MaxIslandSize, NoIsland

CONSTANT Ghosts   \* may an island list a peer that has left it?

VARIABLES
  assign,       \* the island of each peer
  used          \* the island ids given out so far

On(i) == {p \in Peer : assign[p] = i}

\* The peers of S end up in one of the islands of to, the others stay.
Move(S, to) ==
  /\ DOMAIN assign' = Peer
  /\ \A p \in Peer : assign'[p] \in IF p \in S THEN to ELSE {assign[p]}

\* So they do, but another peer may be dropped for its ghost among them.
MoveGroup(S, to) ==
  /\ DOMAIN assign' = Peer
  /\ \A p \in S : assign'[p] \in to
  /\ \A p \in Peer \ S : assign'[p] = assign[p] \/ (Ghosts /\ assign'[p] = NoIsland)

GiveOut(j) ==
  /\ j \notin used
  /\ used' = used \cup {j}

Init ==
  /\ assign = [p \in Peer |-> NoIsland]
  /\ used = {}

\* A peer gets the island to itself.
Enter(p, j) ==
  /\ assign[p] = NoIsland
  /\ Move({p}, {j})

\* Some peers of i found the island; those the transport rejects are dropped.
\* Nobody may be left to found it, and then the id is wasted.
SplitOff(i, j) == MoveGroup(On(i), {i, j, NoIsland})

\* Island i moves into j, except for those the transport rejects.
Merge(i, j) ==
  /\ i # j /\ {i, j} \subseteq used
  /\ Ghosts \/ (On(i) # {} /\ On(j) # {})
  /\ Cardinality(On(i)) + Cardinality(On(j)) <= MaxIslandSize
  /\ MoveGroup(On(i), {j, NoIsland})

Disconnect(p) == Move({p}, {NoIsland})

NewIsland ==
  \E j \in IslandId :
    /\ GiveOut(j)
    /\ \/ \E p \in Peer : Enter(p, j)
       \/ \E i \in IslandId : SplitOff(i, j)

SameIslands ==
  /\ UNCHANGED used
  /\ \/ \E i, j \in IslandId : Merge(i, j)
     \/ \E p \in Peer : Disconnect(p)

Next == NewIsland \/ SameIslands

Spec == Init /\ [][Next]_<<assign, used>>

============================================================================
