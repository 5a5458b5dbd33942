-------------------------- MODULE ServiceImplements --------------------------
(***************************************************************************)
(* The refinement mapping from CoreService to IslandFeed: the islands are  *)
(* those of EngineImplements, the rest is the service's own state.         *)
(***************************************************************************)
EXTENDS CoreService, EngineImplements

Feed == INSTANCE IslandFeed WITH
  heard <- heard,
  assign <- islandOf,
  used <- givenOut,
  told <- told,
  missed <- missed

\* Over all flushes, with NATS callbacks during their awaits, calls that reject
\* and publishing that throws, what the other services see of core is what
\* IslandFeed allows: only peers with a heartbeat time enter an island, whoever
\* is forgotten leaves it at once, and each round of updates leaves nobody with
\* an island it was not told of, but for those whose update was lost.
ImplementsFeed == Feed!Spec

============================================================================
