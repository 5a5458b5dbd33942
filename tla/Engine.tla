------------------------------- MODULE Engine -------------------------------
(***************************************************************************)
(* The island engine: createArchipelagoEngine in                           *)
(* core/src/adapters/engine.ts.                                            *)
(*                                                                         *)
(* One flush() runs at a time.  It is cut here at its awaits: every call   *)
(* of transport.getConnectionStrings is a state ("createNew",              *)
(* "createSplit", "mergeInto") in which the NATS callbacks                 *)
(* onPeerPositionsUpdate and onPeerDisconnected may run before the answer  *)
(* arrives.  Between two awaits the flush runs alone.                      *)
(*                                                                         *)
(* The engine's maps are keyed by peer id but the arrays of an island hold *)
(* references: Obj is the set of PeerData objects, IdOf their ids, and     *)
(* peers and pendingNew are maps from ids to objects.  An array whose      *)
(* order decides nothing but ties is a set, and the ties are broken by any *)
(* choice.  Island ids are numbers in generation order; an island id also  *)
(* stands for its sequenceId, which grows with it.                         *)
(***************************************************************************)
EXTENDS Islands, FiniteSets

CONSTANTS
  Peer,             \* peer ids
  Obj,              \* references to PeerData objects
  IdOf,             \* the id field of each object
  NoObj,            \* what a map holds for an absent key
  Pos,              \* the positions peers report
  JoinDistance,     \* ARCHIPELAGO_JOIN_DISTANCE
  LeaveDistance,    \* ARCHIPELAGO_LEAVE_DISTANCE
  MaxIslandSize,    \* transport.maxIslandSize
  IslandId,         \* the ids the generator may give; a bound in the runs
  Preference,       \* the preferedIslandId values a position change may carry
  Keep,             \* the change has no preferedIslandId key
  Bannable,         \* the peers the transport may leave out of its answer
  TransportFails,   \* which calls of getConnectionStrings may reject, by their place
  Interleaved       \* do callbacks run during the awaits of a flush?

NoIsland == 0

ASSUME ObjAssumption ==
  /\ IdOf \in [Obj -> Peer]
  /\ NoObj \notin Obj

ASSUME PosAssumption == Pos \subseteq [x : Int, z : Int]

ASSUME DistanceAssumption == JoinDistance \in Nat /\ LeaveDistance \in Nat

ASSUME SizeAssumption == MaxIslandSize \in Nat \ {0}

ASSUME IdAssumption ==
  /\ IslandId \subseteq Nat \ {NoIsland}
  /\ Preference \subseteq IslandId \cup {NoIsland, Keep}
  /\ Keep \notin IslandId \cup {NoIsland}

ASSUME TransportAssumption ==
  /\ Bannable \subseteq Peer
  /\ TransportFails \subseteq {"createNew", "createSplit", "mergeInto"}
  /\ Interleaved \in BOOLEAN

VARIABLES
  peers,        \* peers: id -> object
  pendingNew,   \* pendingNewPeers: id -> object
  visited,      \* the keys of pendingNewPeers that the running flush has passed
  islands,      \* the keys of islands
  members,      \* island.peers, {} for an id that is not in islands
  dirty,        \* the islands whose _geometryDirty is set
  pos,          \* position of each object
  home,         \* islandId of each object
  pref,         \* preferedIslandId of each object
  updates,      \* pendingUpdates
  nextId,       \* the last id generated
  pc,           \* where the flush is
  group,        \* the argument of the createIsland under way
  room,         \* the island the transport call under way is for
  affected,     \* affectedIslands
  done,         \* the affected islands the running loop has passed
  splitting,    \* the island checkSplitIsland works on
  limbo,        \* its groups that have no island yet
  queue,        \* sortedIslands
  targets,      \* biggestIslands
  sizeAt,       \* the sizes sortedIslands was sorted by
  merging,      \* anIsland
  prefered,     \* preferedIsland
  tried         \* the targets anIsland has been tried with

mapVars == <<peers, pendingNew, visited>>
islandVars == <<islands, members, dirty>>
objVars == <<pos, home, pref>>
callVars == <<group, room>>
splitVars == <<splitting, limbo>>
loopVars == <<affected, done>>
mergeVars == <<queue, targets, sizeAt, merging, prefered, tried>>
flushVars == <<pc, callVars, splitVars, loopVars, mergeVars>>
vars == <<mapVars, islandVars, objVars, updates, nextId, flushVars>>

----------------------------------------------------------------------------
(* Values *)

Update == [action : {"none", "changeTo", "leave"}, islandId : IslandId \cup {NoIsland}]
NoUpdate == [action |-> "none", islandId |-> NoIsland]
ChangeTo(i) == [action |-> "changeTo", islandId |-> i]
Leave(i) == [action |-> "leave", islandId |-> i]

Awaiting == {"createNew", "createSplit", "mergeInto"}
Location ==
  Awaiting \cup {"idle", "new", "split", "groups", "merge", "queue", "try", "returned"}

Ids(objs) == {IdOf[o] : o \in objs}

\* The objects with the id p that nothing refers to, apart from an entry of
\* pendingNewPeers that is about to be replaced.
Unreferenced(p) ==
  {o \in Obj : /\ IdOf[o] = p
               /\ o # peers[p]
               /\ o \notin group \cup UNION limbo
               /\ \A i \in islands : o \notin members[i]}

NewObject(p) == CHOOSE o \in Unreferenced(p) : TRUE

----------------------------------------------------------------------------
(* The initial state: createArchipelagoEngine *)

Init ==
  /\ peers = [p \in Peer |-> NoObj]
  /\ pendingNew = [p \in Peer |-> NoObj]
  /\ visited = {}
  /\ islands = {}
  /\ members = [i \in IslandId |-> {}]
  /\ dirty = {}
  /\ pos \in [Obj -> Pos]
  /\ home = [o \in Obj |-> NoIsland]
  /\ pref = [o \in Obj |-> NoIsland]
  /\ updates = [p \in Peer |-> NoUpdate]
  /\ nextId = 0
  /\ pc = "idle"
  /\ group = {}
  /\ room = NoIsland
  /\ affected = {}
  /\ done = {}
  /\ splitting = NoIsland
  /\ limbo = {}
  /\ queue = {}
  /\ targets = {}
  /\ sizeAt = [i \in IslandId |-> 0]
  /\ merging = NoIsland
  /\ prefered = NoIsland
  /\ tried = {}

----------------------------------------------------------------------------
(* The NATS callbacks *)

CallbacksRun == pc = "idle" \/ (Interleaved /\ pc \in Awaiting)

\* onPeerPositionsUpdate for one change.  An unknown peer waits in
\* pendingNewPeers as a new object; Map.set keeps the place of a key it
\* already holds, so a key the flush has passed stays passed.
NewPeerPosition(p, x, r) ==
  /\ CallbacksRun
  /\ peers[p] = NoObj
  /\ Unreferenced(p) # {}
  /\ pendingNew' = [pendingNew EXCEPT ![p] = NewObject(p)]
  /\ pos' = [pos EXCEPT ![NewObject(p)] = x]
  /\ home' = [home EXCEPT ![NewObject(p)] = NoIsland]
  /\ pref' = [pref EXCEPT ![NewObject(p)] = IF r = Keep THEN NoIsland ELSE r]
  /\ UNCHANGED <<peers, visited, islandVars, updates, nextId, flushVars>>

\* Mutant: the flag is set without looking for the island.
MarkDirtyBlindly(i) == dirty \cup {i}

\* island._geometryDirty = true, if there is such an island.
MarkDirty(i) == IF i \in islands THEN dirty \cup {i} ELSE dirty

KnownPeerPosition(p, x, r) ==
  /\ CallbacksRun
  /\ peers[p] # NoObj
  /\ pos' = [pos EXCEPT ![peers[p]] = x]
  /\ pref' = [pref EXCEPT ![peers[p]] = IF r = Keep THEN @ ELSE r]
  /\ dirty' = MarkDirty(home[peers[p]])
  /\ UNCHANGED <<mapVars, islands, members, home, updates, nextId, flushVars>>

\* Mutant: a disconnect leaves the waiting entry in place.
DeletePendingForgotten(p) == UNCHANGED <<pendingNew, visited>>

\* pendingNewPeers.delete(id): a later set of the key puts it last again.
DeletePending(p) ==
  /\ pendingNew' = [pendingNew EXCEPT ![p] = NoObj]
  /\ visited' = visited \ {p}

Assigned(p) == peers[p] # NoObj /\ home[peers[p]] # NoIsland

\* onPeerDisconnected of a peer that has no island yet.
DisconnectPending(p) ==
  /\ CallbacksRun
  /\ ~ Assigned(p)
  /\ DeletePending(p)
  /\ peers' = [peers EXCEPT ![p] = NoObj]
  /\ UNCHANGED <<islandVars, objVars, updates, nextId, flushVars>>

\* The array without the first object of that id, if there is one.
Spliced(objs, p) ==
  IF p \in Ids(objs) THEN {objs \ {o} : o \in {m \in objs : IdOf[m] = p}} ELSE {objs}

\* onPeerDisconnected of a peer that has been assigned to an island.
DisconnectAssigned(p) ==
  /\ CallbacksRun
  /\ Assigned(p)
  /\ LET i == home[peers[p]] IN
       /\ \E left \in Spliced(members[i], p) :
            /\ members' = [members EXCEPT ![i] = left]
            /\ islands' = IF left = {} THEN islands \ {i} ELSE islands
            /\ dirty' = IF left = {} THEN dirty \ {i} ELSE MarkDirty(i)
       /\ updates' = [updates EXCEPT ![p] = Leave(i)]
  /\ peers' = [peers EXCEPT ![p] = NoObj]
  /\ DeletePending(p)
  /\ UNCHANGED <<objVars, nextId, flushVars>>

----------------------------------------------------------------------------
(* createIsland *)

\* What the transport may answer for the ids it is asked about.
Answers(ids) == {granted \in SUBSET ids : ids \ Bannable \subseteq granted}

\* Mutant: a peer left out of the answer stays known, without an island.
EvictNobody(objs, granted) == peers

\* Peers left out of the answer are evicted from peers.
Evict(objs, granted) ==
  [p \in Peer |-> IF p \in Ids(objs) \ granted THEN NoObj ELSE peers[p]]

\* Mutants: no filter after the await; the filter looks at the answer only.
ActiveUnfiltered(objs, granted) == objs
ActiveIfGranted(objs, granted) == {o \in objs : IdOf[o] \in granted}

\* activePeers: those neither evicted nor disconnected during the await.
Active(objs, granted) ==
  {o \in objs : peers[IdOf[o]] # NoObj /\ IdOf[o] \in granted}

\* Mutant: a peer that has an island keeps naming the old one.
SetFirstIsland(i, objs) ==
  /\ home' = [o \in Obj |-> IF o \in objs /\ home[o] = NoIsland THEN i ELSE home[o]]
  /\ updates' = [p \in Peer |-> IF p \in Ids(objs) THEN ChangeTo(i) ELSE updates[p]]

\* setPeersIsland
SetPeersIsland(i, objs) ==
  /\ home' = [o \in Obj |-> IF o \in objs THEN i ELSE home[o]]
  /\ updates' = [p \in Peer |-> IF p \in Ids(objs) THEN ChangeTo(i) ELSE updates[p]]

\* Mutant: the island is created even if nobody is left for it.
IslandsWithNobody(active) == islands \cup {room}

\* An island is created only for somebody.
IslandsWith(active) == IF active = {} THEN islands ELSE islands \cup {room}

\* Mutant: the id generator does not advance.
GenerateIdStuck == nextId' = nextId

GenerateId == nextId' = nextId + 1

\* The call of createIsland, up to its await.
CallCreateIsland(objs) ==
  /\ nextId + 1 \in IslandId
  /\ GenerateId
  /\ room' = nextId + 1
  /\ group' = objs

\* Where the flush goes on once a createIsland has ended.
AfterCreate == IF pc = "createNew" THEN "new" ELSE "groups"

\* The rest of createIsland; checkSplitIsland adds its result to
\* affectedIslands, created or not.
CreateIsland(granted) ==
  /\ pc \in {"createNew", "createSplit"}
  /\ LET active == Active(group, granted) IN
       /\ peers' = Evict(group, granted)
       /\ SetPeersIsland(room, active)
       /\ members' = [members EXCEPT ![room] = active]
       /\ islands' = IslandsWith(active)
       /\ dirty' = IF active = {} THEN dirty ELSE dirty \cup {room}
  /\ affected' = IF pc = "createSplit" THEN affected \cup {room} ELSE affected
  /\ pc' = AfterCreate
  /\ group' = {}
  /\ room' = NoIsland
  /\ UNCHANGED <<pendingNew, visited, pos, pref, nextId, done, splitVars, mergeVars>>

----------------------------------------------------------------------------
(* flush, first phase: an island for every new peer *)

BeginFlush ==
  /\ pc = "idle"
  /\ pc' = "new"
  /\ UNCHANGED <<mapVars, islandVars, objVars, updates, nextId, callVars, splitVars,
                 loopVars, mergeVars>>

PlaceNewPeer(p) ==
  /\ pc = "new"
  /\ pendingNew[p] # NoObj /\ p \notin visited
  /\ visited' = visited \cup {p}
  /\ peers' = [peers EXCEPT ![p] = pendingNew[p]]
  /\ CallCreateIsland({pendingNew[p]})
  /\ pc' = "createNew"
  /\ UNCHANGED <<pendingNew, islandVars, objVars, updates, splitVars, loopVars, mergeVars>>

\* The catch of the first phase.
NewPeerFails ==
  /\ pc = "createNew" /\ pc \in TransportFails
  /\ peers' = Evict(group, {})
  /\ group' = {}
  /\ room' = NoIsland
  /\ pc' = AfterCreate
  /\ UNCHANGED <<pendingNew, visited, islandVars, objVars, updates, nextId, splitVars,
                 loopVars, mergeVars>>

\* pendingNewPeers.clear(), then affectedIslands is taken from the dirty flags.
AllPlaced ==
  /\ pc = "new"
  /\ \A p \in Peer : pendingNew[p] # NoObj => p \in visited
  /\ pendingNew' = [p \in Peer |-> NoObj]
  /\ visited' = {}
  /\ affected' = dirty
  /\ pc' = "split"
  /\ UNCHANGED <<peers, islandVars, objVars, updates, nextId, callVars, done, splitVars,
                 mergeVars>>

----------------------------------------------------------------------------
(* flush, second phase: checkSplitIsland *)

Groups(i) == PeerGroups(members[i], pos, LeaveDistance)

\* popMax(peerGroups, (group) => group.length)
Biggest(groups) ==
  {g \in groups : \A h \in groups : Cardinality(g) >= Cardinality(h)}

\* An affected island that is gone or in one piece is passed over.
KeepIsland(i) ==
  /\ pc = "split"
  /\ i \in affected \ done
  /\ i \in islands => Cardinality(Groups(i)) <= 1
  /\ done' = done \cup {i}
  /\ UNCHANGED <<mapVars, islandVars, objVars, updates, nextId, pc, callVars, splitVars,
                 affected, mergeVars>>

SplitIsland(i) ==
  /\ pc = "split"
  /\ i \in (affected \ done) \cap islands
  /\ Cardinality(Groups(i)) > 1
  /\ done' = done \cup {i}
  /\ \E g \in Biggest(Groups(i)) :
       /\ members' = [members EXCEPT ![i] = g]
       /\ limbo' = Groups(i) \ {g}
  /\ dirty' = dirty \cup {i}
  /\ splitting' = i
  /\ pc' = "groups"
  /\ UNCHANGED <<mapVars, islands, objVars, updates, nextId, callVars, affected, mergeVars>>

PlaceGroup(g) ==
  /\ pc = "groups"
  /\ g \in limbo
  /\ limbo' = limbo \ {g}
  /\ CallCreateIsland(g)
  /\ pc' = "createSplit"
  /\ UNCHANGED <<mapVars, islandVars, objVars, updates, splitting, loopVars, mergeVars>>

\* Mutant: the group is lost.
PutNobodyBack(i, objs) == members

\* The catch of checkSplitIsland: the whole group goes back to the array of
\* the original island, which may have left the islands map meanwhile.
PutBack(i, objs) ==
  IF i \in islands THEN [members EXCEPT ![i] = @ \cup objs] ELSE members

GroupFails ==
  /\ pc = "createSplit" /\ pc \in TransportFails
  /\ members' = PutBack(splitting, group)
  /\ group' = {}
  /\ room' = NoIsland
  /\ pc' = AfterCreate
  /\ UNCHANGED <<mapVars, islands, dirty, objVars, updates, nextId, splitVars, loopVars,
                 mergeVars>>

EndSplit ==
  /\ pc = "groups" /\ limbo = {}
  /\ splitting' = NoIsland
  /\ pc' = "split"
  /\ UNCHANGED <<mapVars, islandVars, objVars, updates, nextId, callVars, limbo, loopVars,
                 mergeVars>>

AllSplit ==
  /\ pc = "split"
  /\ affected \subseteq done
  /\ done' = {}
  /\ pc' = "merge"
  /\ UNCHANGED <<mapVars, islandVars, objVars, updates, nextId, callVars, splitVars,
                 affected, mergeVars>>

----------------------------------------------------------------------------
(* flush, third phase: mergeIslands *)

\* The islands that intersect island i.
Intersected(i) ==
  {j \in islands \ {i} : IntersectIslands(members[i], members[j], pos, JoinDistance)}

\* intersectIslands reads center and radius of island i and of every other
\* island, and recalculateGeometryIfNeeded clears the flag of what it reads.
DirtyAfterScan(i) == IF islands = {i} THEN dirty ELSE {}

\* An affected island that is gone or has nothing to merge with.
PassIsland(i) ==
  /\ pc = "merge"
  /\ i \in affected \ done
  /\ i \in islands => Intersected(i) = {}
  /\ dirty' = IF i \in islands THEN DirtyAfterScan(i) ELSE dirty
  /\ done' = done \cup {i}
  /\ UNCHANGED <<mapVars, islands, members, objVars, updates, nextId, pc, callVars,
                 splitVars, affected, mergeVars>>

\* The order of sortedIslands: bigger first, the older one of equals.
Before(size, i, j) == size[i] > size[j] \/ (size[i] = size[j] /\ i < j)

IsFirst(i, S, size) == i \in S /\ \A j \in S \ {i} : Before(size, i, j)

\* mergeIslands up to its loop: sort, and shift the first into biggestIslands.
MergeIslands(i) ==
  /\ pc = "merge"
  /\ i \in (affected \ done) \cap islands
  /\ Intersected(i) # {}
  /\ dirty' = DirtyAfterScan(i)
  /\ done' = done \cup {i}
  /\ sizeAt' = [j \in IslandId |-> Cardinality(members[j])]
  /\ \E first \in Intersected(i) \cup {i} :
       /\ IsFirst(first, Intersected(i) \cup {i}, sizeAt')
       /\ targets' = {first}
       /\ queue' = (Intersected(i) \cup {i}) \ {first}
  /\ pc' = "queue"
  /\ UNCHANGED <<mapVars, islands, members, objVars, updates, nextId, callVars, splitVars,
                 affected, merging, prefered, tried>>

\* Islands that a disconnect deleted during an earlier await are skipped.
SkipQueued ==
  /\ pc = "queue"
  /\ \E i \in queue \ islands : IsFirst(i, queue, sizeAt) /\ queue' = queue \ {i}
  /\ UNCHANGED <<mapVars, islandVars, objVars, updates, nextId, pc, callVars, splitVars,
                 loopVars, targets, sizeAt, merging, prefered, tried>>

Votes(objs, i) == Cardinality({o \in objs : pref[o] = i})

\* getPreferedIslandFor: a most voted preference; ties go to the first counted.
MostVoted(objs) ==
  LET voted == {pref[o] : o \in objs} \ {NoIsland} IN
  IF voted = {} THEN {NoIsland}
  ELSE {i \in voted : \A j \in voted : Votes(objs, i) >= Votes(objs, j)}

\* preferedIsland, which counts only if it is one of biggestIslands.
PreferedTargets(objs) ==
  {IF i \in targets THEN i ELSE NoIsland : i \in MostVoted(objs)}

TakeQueued ==
  /\ pc = "queue"
  /\ \E i \in queue \cap islands :
       /\ IsFirst(i, queue, sizeAt)
       /\ queue' = queue \ {i}
       /\ merging' = i
       /\ prefered' \in PreferedTargets(members[i])
  /\ tried' = {}
  /\ pc' = "try"
  /\ UNCHANGED <<mapVars, islandVars, objVars, updates, nextId, callVars, splitVars,
                 loopVars, targets, sizeAt>>

\* The next of biggestIslands to be tried: the prefered one, then the others in order.
IsNextTarget(i) ==
  IF prefered \in targets \ tried THEN i = prefered ELSE IsFirst(i, targets \ tried, sizeAt)

\* Mutant: only the island that grows is looked at.
CanMergeNotFull(i, j) == Cardinality(members[i]) <= MaxIslandSize

\* The capacity test of mergeIntoIfPossible, before and again after its await.
CanMerge(i, j) == Cardinality(members[i]) + Cardinality(members[j]) <= MaxIslandSize

\* Mutant: the loop does not move on to the next of biggestIslands.
MarkTriedForgotten(i) == UNCHANGED tried

\* Each of biggestIslands is tried once.
MarkTried(i) == tried' = tried \cup {i}

CallMerge ==
  /\ pc = "try"
  /\ \E i \in targets \ tried :
       /\ IsNextTarget(i) /\ CanMerge(i, merging)
       /\ room' = i
       /\ MarkTried(i)
  /\ pc' = "mergeInto"
  /\ UNCHANGED <<mapVars, islandVars, objVars, updates, nextId, group, splitVars, loopVars,
                 queue, targets, sizeAt, merging, prefered>>

TargetFull ==
  /\ pc = "try"
  /\ \E i \in targets \ tried : IsNextTarget(i) /\ ~ CanMerge(i, merging) /\ MarkTried(i)
  /\ UNCHANGED <<mapVars, islandVars, objVars, updates, nextId, pc, callVars, splitVars,
                 loopVars, queue, targets, sizeAt, merging, prefered>>

\* No target took the island: it becomes one of biggestIslands itself.
KeepApart ==
  /\ pc = "try" /\ targets \subseteq tried
  /\ targets' = targets \cup {merging}
  /\ merging' = NoIsland
  /\ prefered' = NoIsland
  /\ tried' = {}
  /\ pc' = "queue"
  /\ UNCHANGED <<mapVars, islandVars, objVars, updates, nextId, callVars, splitVars,
                 loopVars, queue, sizeAt>>

\* Mutant: the sizes are looked at again after the await, the islands are not.
StillSmallEnough == CanMerge(room, merging)

StillMergeable == {room, merging} \subseteq islands /\ CanMerge(room, merging)

\* The rest of mergeIntoIfPossible when the islands are still there.
MergeInto(granted) ==
  /\ pc = "mergeInto"
  /\ StillMergeable
  /\ LET active == Active(members[merging], granted) IN
       /\ peers' = Evict(members[merging], granted)
       /\ SetPeersIsland(room, active)
       /\ members' = [members EXCEPT ![room] = @ \cup active, ![merging] = {}]
       /\ islands' = islands \ {merging}
       /\ dirty' = (IF active = {} THEN dirty ELSE dirty \cup {room}) \ {merging}
  /\ room' = NoIsland
  /\ merging' = NoIsland
  /\ prefered' = NoIsland
  /\ tried' = {}
  /\ pc' = "queue"
  /\ UNCHANGED <<pendingNew, visited, pos, pref, nextId, group, splitVars, loopVars, queue,
                 targets, sizeAt>>

\* The call rejected, or a callback made the merge invalid during the await.
MergeFails ==
  /\ pc = "mergeInto"
  /\ pc \in TransportFails \/ ~ StillMergeable
  /\ room' = NoIsland
  /\ pc' = "try"
  /\ UNCHANGED <<mapVars, islandVars, objVars, updates, nextId, group, splitVars, loopVars,
                 mergeVars>>

EndMerge ==
  /\ pc = "queue" /\ queue = {}
  /\ targets' = {}
  /\ sizeAt' = [i \in IslandId |-> 0]
  /\ pc' = "merge"
  /\ UNCHANGED <<mapVars, islandVars, objVars, updates, nextId, callVars, splitVars,
                 loopVars, queue, merging, prefered, tried>>

----------------------------------------------------------------------------
(* The end of flush and what its caller does next *)

\* The caller gets pendingUpdates, which start anew.
Return ==
  /\ pc = "merge"
  /\ affected \subseteq done
  /\ updates' = [p \in Peer |-> NoUpdate]
  /\ affected' = {}
  /\ done' = {}
  /\ pc' = "returned"
  /\ UNCHANGED <<mapVars, islandVars, objVars, nextId, callVars, splitVars, mergeVars>>

\* The islands report reads the geometry of every island.
Report ==
  /\ pc = "returned"
  /\ dirty' = {}
  /\ pc' = "idle"
  /\ UNCHANGED <<mapVars, islands, members, objVars, updates, nextId, callVars, splitVars,
                 loopVars, mergeVars>>

\* Publishing threw before the report.
SkipReport ==
  /\ pc = "returned"
  /\ pc' = "idle"
  /\ UNCHANGED <<mapVars, islandVars, objVars, updates, nextId, callVars, splitVars,
                 loopVars, mergeVars>>

----------------------------------------------------------------------------

Callback ==
  \E p \in Peer :
    \/ \E x \in Pos, r \in Preference : NewPeerPosition(p, x, r)
    \/ \E x \in Pos, r \in Preference : KnownPeerPosition(p, x, r)
    \/ DisconnectPending(p)
    \/ DisconnectAssigned(p)

Answer ==
  \/ \E granted \in Answers(Ids(group)) : CreateIsland(granted)
  \/ NewPeerFails
  \/ GroupFails
  \/ merging # NoIsland /\ \E granted \in Answers(Ids(members[merging])) : MergeInto(granted)
  \/ MergeFails

Step ==
  \/ \E p \in Peer : PlaceNewPeer(p)
  \/ AllPlaced
  \/ \E i \in affected : KeepIsland(i) \/ SplitIsland(i)
  \/ \E i \in affected : PassIsland(i) \/ MergeIslands(i)
  \/ \E g \in limbo : PlaceGroup(g)
  \/ EndSplit
  \/ AllSplit
  \/ SkipQueued
  \/ TakeQueued
  \/ CallMerge
  \/ TargetFull
  \/ KeepApart
  \/ EndMerge
  \/ Return

Next == Callback \/ BeginFlush \/ Step \/ Answer \/ Report \/ SkipReport

Spec == Init /\ [][Next]_vars

----------------------------------------------------------------------------
(* Properties *)

\* Every variable stays within its type.
TypeOK ==
  /\ peers \in [Peer -> Obj \cup {NoObj}]
  /\ pendingNew \in [Peer -> Obj \cup {NoObj}]
  /\ visited \subseteq Peer
  /\ islands \subseteq IslandId
  /\ members \in [IslandId -> SUBSET Obj]
  /\ dirty \subseteq islands
  /\ pos \in [Obj -> Pos]
  /\ home \in [Obj -> IslandId \cup {NoIsland}]
  /\ pref \in [Obj -> IslandId \cup {NoIsland}]
  /\ updates \in [Peer -> Update]
  /\ nextId \in IslandId \cup {NoIsland}
  /\ pc \in Location
  /\ group \subseteq Obj
  /\ room \in IslandId \cup {NoIsland}
  /\ affected \subseteq IslandId
  /\ done \subseteq affected
  /\ splitting \in IslandId \cup {NoIsland}
  /\ limbo \subseteq SUBSET Obj
  /\ queue \subseteq IslandId
  /\ targets \subseteq IslandId
  /\ sizeAt \in [IslandId -> Nat]
  /\ merging \in IslandId \cup {NoIsland}
  /\ prefered \in IslandId \cup {NoIsland}
  /\ tried \subseteq targets

\* No ghosts and nobody in two islands: an island lists only peers the engine
\* still knows, by the very object it knows them by, and those peers agree
\* that it is their island.  Disconnects during a transport call are what
\* breaks this (the filter after the await of createIsland and of
\* mergeIntoIfPossible).
MembersAreKnown ==
  \A i \in islands : \A o \in members[i] : peers[IdOf[o]] = o /\ home[o] = i

\* No orphans: a known peer is in an island, or in a group whose island is
\* being created.  An orphan would never be placed again, since its
\* heartbeats only move it.
EveryPeerPlaced ==
  \A p \in Peer :
    \/ peers[p] = NoObj
    \/ peers[p] \in group \cup UNION limbo
    \/ \E i \in islands : peers[p] \in members[i]

\* What is left of the two when a transport call of a split rejects: ghosts name
\* the island that lists them, and who is in no array names a deleted island.
\* So no peer is in the arrays of two islands, a heartbeat of a listed peer
\* marks the island that lists it, and a merge moves all who are on the island.
ListsAgreeWithHomes ==
  /\ \A i \in islands : \A o \in members[i] : home[o] = i
  /\ \A p \in Peer : peers[p] # NoObj /\ home[peers[p]] \in islands =>
       peers[p] \in members[home[peers[p]]] \cup group \cup UNION limbo

\* An island never outgrows maxPeers, whatever leaves or joins while a merge
\* waits for its connection strings (mergeIntoIfPossible).
Capacity == \A i \in islands : Cardinality(members[i]) <= MaxIslandSize

\* No island without peers is left in the map: the islands report reads its
\* center, which an empty island that was never measured does not have.
NoEmptyIsland == \A i \in islands : members[i] # {}

\* When a flush is over, an island whose flag is clear is in one piece under
\* the leave distance, and would be split otherwise: the flag is the only reason
\* for a later flush to look again.
CleanIslandsTogether ==
  pc = "idle" => \A i \in islands \ dirty : Cardinality(Groups(i)) = 1

\* An island one of whose peers moves is marked for the next flush: a heartbeat
\* marks the island its object names (onPeerPositionsUpdate), so the object must
\* be the one that is listed and must name the island that lists it.
MovesAreNoticed ==
  [][\A i \in islands : (\E o \in members[i] : pos'[o] # pos[o]) => i \in dirty']_vars

\* pendingNewPeers.clear() drops no heartbeat of a peer that is never refused:
\* what it drops has been taken over into peers, although heartbeats, leaves and
\* returns change the map while the flush walks it.
NoHeartbeatDropped ==
  [][pc = "new" /\ pc' = "split" =>
       \A p \in Peer \ Bannable : pendingNew[p] \in {NoObj, peers[p]}]_vars

PhasesLeft ==
  IF pc \in {"new", "createNew"} THEN {"new", "split", "merge"}
  ELSE IF pc \in {"split", "groups", "createSplit"} THEN {"split", "merge"}
  ELSE IF pc \in {"merge", "queue", "try", "mergeInto"} THEN {"merge"}
  ELSE {}

\* The peers that the first phase has yet to place.
NotPassed ==
  IF "new" \in PhasesLeft THEN {p \in Peer \ visited : pendingNew[p] # NoObj} ELSE {}

\* The peers that the second phase may yet split off.
NotSplit ==
  IF "split" \in PhasesLeft /\ "new" \notin PhasesLeft
  THEN (UNION {members[i] : i \in affected \ done}) \cup group \cup UNION limbo
  ELSE {}

\* The work before a flush, the most telling first.
WorkLeft ==
  <<PhasesLeft, NotPassed, NotSplit, limbo, {pc} \cap {"createSplit"}, affected \ done,
    queue, {merging} \ {NoIsland}, targets \ tried,
    {pc} \cap {"createNew", "groups", "mergeInto", "queue"}>>

Shrinks(new, old) == new \subseteq old /\ new # old

\* The first of the sets that changes shrinks.  They are finite, so that there
\* is no endless descent.
Less(new, old) ==
  \E k \in 1..10 : Shrinks(new[k], old[k]) /\ \A j \in 1..(k - 1) : new[j] = old[j]

PeerJoins == \E p \in Peer : pendingNew[p] = NoObj /\ pendingNew'[p] # NoObj

\* Each step of a flush brings its end nearer, although splits add to
\* affectedIslands and put peers back, merges add to biggestIslands, and callbacks
\* run at every await.  They give it no work back, but for a peer that joins while
\* the loop over pendingNewPeers waits for an answer: that loop walks the entries
\* which are set meanwhile as well, and ends only if peers stop joining.
FlushAdvances ==
  [][pc \notin {"idle", "returned"} =>
       \/ Less(WorkLeft', WorkLeft)
       \/ UNCHANGED flushVars /\ (WorkLeft' = WorkLeft \/ (pc = "createNew" /\ PeerJoins))]_vars

============================================================================
