-------------------------- MODULE EngineImplements --------------------------
(***************************************************************************)
(* The refinement mapping from Engine to IslandAssignment.                 *)
(***************************************************************************)
EXTENDS Engine

\* The island a known peer says it is on; somebody who waits for a first
\* island, or is unknown, is on none.
islandOf ==
  [p \in Peer |-> IF peers[p] = NoObj THEN NoIsland ELSE home[peers[p]]]

\* The ids generated so far, but for the one a createIsland still waits with.
givenOut == {i \in IslandId : i <= nextId} \ (IF group = {} THEN {} ELSE {room})

Assignment == INSTANCE IslandAssignment WITH
  assign <- islandOf,
  used <- givenOut,
  Ghosts <- "createSplit" \in TransportFails

\* Whatever runs during the transport calls, the engine changes the
\* assignment of its peers only in the ways of IslandAssignment: groups move
\* together, merges take whole islands within the capacity, ids are fresh.  A
\* split whose call rejects is what makes ghosts.
ImplementsAssignment == Assignment!Spec

============================================================================
