----------------------------- MODULE IslandFeed -----------------------------
(***************************************************************************)
(* What the core service promises to the other services: whose heartbeats  *)
(* it keeps, the islands it puts those peers on, and what it sends to      *)
(* them.  Islands change in the ways of IslandAssignment only.             *)
(***************************************************************************)
EXTENDS Naturals, FiniteSets

CONSTANTS Peer, IslandId, MaxIslandSize, NoIsland

CONSTANT PublishFails       \* may a publish throw?

VARIABLES
  heard,        \* the peers whose heartbeat time is kept
  assign,       \* the island of each peer
  used,         \* the island ids given out so far
  told,         \* the island each known peer was last sent
  missed        \* the peers whose last update was lost when a publish threw

Assignment == INSTANCE IslandAssignment WITH
  assign <- assign,
  used <- used,
  Ghosts <- FALSE

OnIsland == {p \in Peer : assign[p] # NoIsland}

Init ==
  /\ Assignment!Init
  /\ heard = {}
  /\ told = [p \in Peer |-> NoIsland]
  /\ missed = {}

Hear(p) ==
  /\ heard' = heard \cup {p}
  /\ UNCHANGED <<assign, used, told, missed>>

\* A disconnect, or nothing was heard of p for too long.  Should p be heard
\* again, it is told its new island, whatever it was told before.
Forget(p) ==
  /\ heard' = heard \ {p}
  /\ assign' = [assign EXCEPT ![p] = NoIsland]
  /\ told' = [told EXCEPT ![p] = NoIsland]
  /\ missed' = missed \ {p}
  /\ UNCHANGED used

\* A step of the engine: only peers that it keeps a heartbeat of enter.
Regroup ==
  /\ Assignment!Next
  /\ \A p \in Peer \ heard : assign'[p] # NoIsland => assign[p] # NoIsland
  /\ UNCHANGED <<heard, told, missed>>

\* After a flush, sent are told their islands; some who are told nothing new may
\* be among them.  Nobody is left who does not know, but those of lost.  Peers
\* that were refused meanwhile may yet be sent an island they were on, which
\* counts for nothing once they are back.
Tell(sent, lost, refused) ==
  /\ sent \subseteq OnIsland
  /\ refused \subseteq Peer \ OnIsland
  /\ PublishFails \/ lost = {}
  /\ told' = [p \in Peer |-> IF p \in sent THEN assign[p]
                             ELSE IF p \in refused THEN NoIsland ELSE told[p]]
  /\ missed' = (missed \ (sent \cup refused)) \cup lost
  /\ \A p \in OnIsland \ missed' : told'[p] = assign[p]
  /\ UNCHANGED <<heard, assign, used>>

Next ==
  \/ \E p \in Peer : Hear(p) \/ Forget(p)
  \/ Regroup
  \/ \E sent, lost, refused \in SUBSET Peer : Tell(sent, lost, refused)

Spec == Init /\ [][Next]_<<heard, assign, used, told, missed>>

============================================================================
