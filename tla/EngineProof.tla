---------------------------- MODULE EngineProof ----------------------------
(***************************************************************************)
(* Theorems about Engine, for any peers, positions, distances, island      *)
(* sizes and transports:                                                   *)
(*                                                                         *)
(*   - types, ids and sizes (Sound);                                       *)
(*   - which island an object names and which array lists it, whatever     *)
(*     disconnects, heartbeats, bans and rejected calls arrive while the   *)
(*     flush waits for the transport (Placed);                             *)
(*   - each step of a flush brings its end nearer;                       *)
(*   - neither ghosts nor orphans, as long as no transport call of a split *)
(*     rejects (RefInv);                                                   *)
(*   - what follows: who changes islands has an update pending, and the    *)
(*     engine implements IslandAssignment.                                 *)
(***************************************************************************)
EXTENDS EngineImplements, IslandsProof, FiniteSetTheorems

----------------------------------------------------------------------------
(* Types *)

\* What the locals of a flush are at each of its places.
LocalsInv ==
  /\ pc \in {"createNew", "createSplit"} => room \in IslandId
  /\ pc \in {"idle", "new", "createNew", "returned"} => affected = {}
  /\ pc \notin {"try", "mergeInto"} => tried = {}
  /\ pc \in {"try", "mergeInto"} => merging \in IslandId

\* Only finitely many objects are in an array.
FiniteInv ==
  /\ \A i \in IslandId : IsFiniteSet(members[i])
  /\ IsFiniteSet(group)
  /\ \A g \in limbo : IsFiniteSet(g)

TypeInv == TypeOK /\ LocalsInv /\ FiniteInv

\* The constants, as the provers need them.
LEMMA Constants ==
  /\ NoIsland \notin IslandId
  /\ IslandId \subseteq Nat
  /\ Preference \subseteq IslandId \cup {NoIsland, Keep}
  /\ IdOf \in [Obj -> Peer]
  /\ NoObj \notin Obj
BY ObjAssumption, IdAssumption DEF NoIsland

\* A new object is one that nothing refers to.
LEMMA NewObjectIsFree ==
  ASSUME NEW p \in Peer, Unreferenced(p) # {}
  PROVE  NewObject(p) \in Unreferenced(p) /\ NewObject(p) \in Obj
BY DEF NewObject, Unreferenced

THEOREM InitTypes == Init => TypeInv
<1> SUFFICES ASSUME Init PROVE TypeInv
  OBVIOUS
<1> USE Constants
<1>1. TypeOK
  BY DEF Init, TypeOK, Update, NoUpdate, Location, Awaiting, NoIsland
<1>2. LocalsInv
  BY DEF Init, LocalsInv
<1>3. FiniteInv
  BY FS_EmptySet DEF Init, FiniteInv
<1> QED
  BY <1>1, <1>2, <1>3 DEF TypeInv

\* The callbacks.
LEMMA CallbackTypes ==
  ASSUME TypeInv, Callback
  PROVE  TypeInv'
<1> USE Constants DEF TypeInv, mapVars, islandVars, objVars, callVars, splitVars, loopVars,
        mergeVars, flushVars
<1>1. ASSUME NEW p \in Peer, NEW x \in Pos, NEW r \in Preference, NewPeerPosition(p, x, r)
      PROVE  TypeInv'
  <2>1. NewObject(p) \in Obj
    BY <1>1, NewObjectIsFree DEF NewPeerPosition
  <2>2. TypeOK'
    BY <1>1, <2>1 DEF NewPeerPosition, TypeOK
  <2>3. LocalsInv' /\ FiniteInv'
    BY <1>1 DEF NewPeerPosition, LocalsInv, FiniteInv
  <2> QED
    BY <2>2, <2>3
<1>2. ASSUME NEW p \in Peer, NEW x \in Pos, NEW r \in Preference, KnownPeerPosition(p, x, r)
      PROVE  TypeInv'
  <2>1. peers[p] \in Obj /\ dirty' \subseteq islands
    BY <1>2 DEF KnownPeerPosition, MarkDirty, TypeOK
  <2>2. TypeOK'
    BY <1>2, <2>1 DEF KnownPeerPosition, TypeOK
  <2>3. LocalsInv' /\ FiniteInv'
    BY <1>2 DEF KnownPeerPosition, LocalsInv, FiniteInv
  <2> QED
    BY <2>2, <2>3
<1>3. ASSUME NEW p \in Peer, DisconnectPending(p)
      PROVE  TypeInv'
  <2>1. TypeOK'
    BY <1>3 DEF DisconnectPending, DeletePending, TypeOK
  <2>2. LocalsInv' /\ FiniteInv'
    BY <1>3 DEF DisconnectPending, DeletePending, LocalsInv, FiniteInv
  <2> QED
    BY <2>1, <2>2
<1>4. ASSUME NEW p \in Peer, DisconnectAssigned(p)
      PROVE  TypeInv'
  <2> DEFINE i == home[peers[p]]
  <2>1. i \in IslandId
    BY <1>4 DEF DisconnectAssigned, Assigned, TypeOK
  <2>2. PICK left \in Spliced(members[i], p) :
          /\ members' = [members EXCEPT ![i] = left]
          /\ islands' = IF left = {} THEN islands \ {i} ELSE islands
          /\ dirty' = IF left = {} THEN dirty \ {i} ELSE MarkDirty(i)
    BY <1>4 DEF DisconnectAssigned
  <2>3. left \subseteq members[i]
    BY <2>2 DEF Spliced
  <2>4. left \in SUBSET Obj /\ IsFiniteSet(left)
    <3>1. members[i] \subseteq Obj /\ IsFiniteSet(members[i])
      BY <2>1 DEF TypeOK, FiniteInv
    <3> QED
      BY <2>3, <3>1, FS_Subset
  <2>5. updates' \in [Peer -> Update]
    BY <1>4, <2>1 DEF DisconnectAssigned, TypeOK, Update, Leave
  <2>6. TypeOK'
    <3> HIDE DEF i
    <3>1. islands' \subseteq IslandId
      BY <2>2 DEF TypeOK
    <3>2. dirty' \subseteq islands'
      BY <2>2 DEF MarkDirty, TypeOK
    <3>3. members' \in [IslandId -> SUBSET Obj]
      BY <2>1, <2>2, <2>4 DEF TypeOK
    <3> QED
      BY <1>4, <2>5, <3>1, <3>2, <3>3 DEF DisconnectAssigned, DeletePending, TypeOK
  <2>7. LocalsInv' /\ FiniteInv'
    BY <1>4, <2>1, <2>2, <2>4 DEF DisconnectAssigned, LocalsInv, FiniteInv, TypeOK
  <2> QED
    BY <2>6, <2>7
<1> QED
  BY <1>1, <1>2, <1>3, <1>4 DEF Callback

\* What createIsland does after its await is well typed, whatever the answer.
LEMMA CreateIslandTypes ==
  ASSUME TypeInv, NEW granted, CreateIsland(granted)
  PROVE  TypeInv'
<1> USE Constants DEF TypeInv, mapVars, islandVars, objVars, callVars, splitVars, loopVars,
        mergeVars, flushVars
<1> DEFINE active == Active(group, granted)
<1>1. room \in IslandId
  BY DEF CreateIsland, LocalsInv
<1>2. active \subseteq group /\ active \subseteq Obj /\ IsFiniteSet(active)
  BY FS_Subset DEF Active, TypeOK, FiniteInv
<1>3. peers' \in [Peer -> Obj \cup {NoObj}]
  BY DEF CreateIsland, Evict, TypeOK
<1>4. home' \in [Obj -> IslandId \cup {NoIsland}] /\ updates' \in [Peer -> Update]
  BY <1>1 DEF CreateIsland, SetPeersIsland, ChangeTo, Update, TypeOK
<1>5. /\ members' \in [IslandId -> SUBSET Obj]
      /\ islands' \subseteq IslandId
      /\ dirty' \subseteq islands'
  BY <1>1, <1>2 DEF CreateIsland, IslandsWith, TypeOK
<1>6. /\ affected' \subseteq IslandId
      /\ done' \subseteq affected'
      /\ pc' \in Location
  BY <1>1 DEF CreateIsland, AfterCreate, Location, TypeOK
<1>7. TypeOK'
  BY <1>3, <1>4, <1>5, <1>6, FS_EmptySet DEF CreateIsland, TypeOK
<1>8. LocalsInv'
  BY DEF CreateIsland, AfterCreate, LocalsInv
<1>9. FiniteInv'
  <2>1. members' = [members EXCEPT ![room] = active] /\ group' = {} /\ limbo' = limbo
    BY DEF CreateIsland
  <2> QED
    BY <1>1, <1>2, <2>1, FS_EmptySet DEF FiniteInv, TypeOK
<1> QED
  BY <1>7, <1>8, <1>9

\* So is what mergeIntoIfPossible does after its await.
LEMMA MergeIntoTypes ==
  ASSUME TypeInv, NEW granted, MergeInto(granted)
  PROVE  TypeInv'
<1> USE Constants DEF TypeInv, mapVars, islandVars, objVars, callVars, splitVars, loopVars,
        mergeVars, flushVars
<1> DEFINE active == Active(members[merging], granted)
<1>1. room \in islands /\ merging \in islands /\ room \in IslandId /\ merging \in IslandId
  BY DEF MergeInto, StillMergeable, TypeOK
<1>2. /\ active \subseteq members[merging] /\ active \subseteq Obj
      /\ IsFiniteSet(active) /\ IsFiniteSet(members[room] \cup active)
  <2>1. members[merging] \subseteq Obj /\ IsFiniteSet(members[merging])
    BY <1>1 DEF TypeOK, FiniteInv
  <2>2. active \subseteq members[merging]
    BY DEF Active
  <2>3. IsFiniteSet(active) /\ IsFiniteSet(members[room])
    BY <1>1, <2>1, <2>2, FS_Subset DEF FiniteInv
  <2> QED
    BY <2>1, <2>2, <2>3, FS_Union
<1>3. peers' \in [Peer -> Obj \cup {NoObj}]
  BY DEF MergeInto, Evict, TypeOK
<1>4. home' \in [Obj -> IslandId \cup {NoIsland}] /\ updates' \in [Peer -> Update]
  BY <1>1 DEF MergeInto, SetPeersIsland, ChangeTo, Update, TypeOK
<1>5. /\ members' = [members EXCEPT ![room] = @ \cup active, ![merging] = {}]
      /\ members' \in [IslandId -> SUBSET Obj]
      /\ islands' \subseteq IslandId
      /\ dirty' \subseteq islands'
  BY <1>1, <1>2 DEF MergeInto, TypeOK
<1>6. TypeOK'
  BY <1>3, <1>4, <1>5 DEF MergeInto, TypeOK, Location
<1>7. LocalsInv'
  BY DEF MergeInto, LocalsInv
<1>8. FiniteInv'
  <2>1. \A i \in IslandId : IsFiniteSet(members'[i])
    BY <1>1, <1>2, <1>5, FS_EmptySet DEF FiniteInv, TypeOK
  <2> QED
    BY <2>1 DEF MergeInto, FiniteInv
<1> QED
  BY <1>6, <1>7, <1>8

\* The steps of a flush up to the merge phase.
LEMMA SplitTypes ==
  ASSUME TypeInv,
         \/ BeginFlush \/ NewPeerFails \/ AllPlaced \/ GroupFails \/ EndSplit \/ AllSplit
         \/ \E p \in Peer : PlaceNewPeer(p)
         \/ \E i \in affected : KeepIsland(i) \/ SplitIsland(i)
         \/ \E g \in limbo : PlaceGroup(g)
  PROVE  TypeInv'
<1> USE Constants DEF TypeInv, mapVars, islandVars, objVars, callVars, splitVars, loopVars,
        mergeVars, flushVars
<1>1. ASSUME BeginFlush PROVE TypeInv'
  <2>1. TypeOK'
    BY <1>1 DEF BeginFlush, TypeOK, Location, Awaiting
  <2>2. LocalsInv' /\ FiniteInv'
    BY <1>1 DEF BeginFlush, LocalsInv, FiniteInv
  <2> QED
    BY <2>1, <2>2
<1>2. ASSUME NewPeerFails PROVE TypeInv'
  <2>1. TypeOK'
    BY <1>2 DEF NewPeerFails, TypeOK, Evict, AfterCreate, Location, Awaiting
  <2>2. LocalsInv' /\ FiniteInv'
    BY <1>2, FS_EmptySet DEF NewPeerFails, LocalsInv, FiniteInv, AfterCreate
  <2> QED
    BY <2>1, <2>2
<1>3. ASSUME AllPlaced PROVE TypeInv'
  <2>1. TypeOK'
    BY <1>3 DEF AllPlaced, TypeOK, LocalsInv, Location, Awaiting
  <2>2. LocalsInv' /\ FiniteInv'
    BY <1>3 DEF AllPlaced, LocalsInv, FiniteInv
  <2> QED
    BY <2>1, <2>2
<1>4. ASSUME GroupFails PROVE TypeInv'
  <2>1. /\ members' = PutBack(splitting, group)
        /\ members' \in [IslandId -> SUBSET Obj]
        /\ \A i \in IslandId : IsFiniteSet(members'[i])
    <3>1. \A i \in IslandId : IsFiniteSet(members[i] \cup group)
      BY FS_Union DEF FiniteInv
    <3> QED
      BY <1>4, <3>1 DEF GroupFails, PutBack, TypeOK, FiniteInv
  <2>2. TypeOK'
    BY <1>4, <2>1 DEF GroupFails, AfterCreate, TypeOK, Location, Awaiting
  <2>3. LocalsInv' /\ FiniteInv'
    BY <1>4, <2>1, FS_EmptySet DEF GroupFails, AfterCreate, LocalsInv, FiniteInv
  <2> QED
    BY <2>2, <2>3
<1>5. ASSUME EndSplit PROVE TypeInv'
  <2>1. TypeOK'
    BY <1>5 DEF EndSplit, TypeOK, Location, Awaiting
  <2>2. LocalsInv' /\ FiniteInv'
    BY <1>5 DEF EndSplit, LocalsInv, FiniteInv
  <2> QED
    BY <2>1, <2>2
<1>6. ASSUME AllSplit PROVE TypeInv'
  <2>1. TypeOK'
    BY <1>6 DEF AllSplit, TypeOK, Location, Awaiting
  <2>2. LocalsInv' /\ FiniteInv'
    BY <1>6 DEF AllSplit, LocalsInv, FiniteInv
  <2> QED
    BY <2>1, <2>2
<1>7. ASSUME NEW p \in Peer, PlaceNewPeer(p) PROVE TypeInv'
  <2>1. nextId + 1 \in IslandId /\ pendingNew[p] \in Obj /\ IsFiniteSet({pendingNew[p]})
    BY <1>7, FS_Singleton DEF PlaceNewPeer, CallCreateIsland, TypeOK
  <2>2. TypeOK'
    BY <1>7, <2>1 DEF PlaceNewPeer, CallCreateIsland, GenerateId, TypeOK, Location, Awaiting
  <2>3. LocalsInv' /\ FiniteInv'
    BY <1>7, <2>1 DEF PlaceNewPeer, CallCreateIsland, LocalsInv, FiniteInv
  <2> QED
    BY <2>2, <2>3
<1>8. ASSUME NEW i \in affected, KeepIsland(i) PROVE TypeInv'
  <2>1. TypeOK'
    BY <1>8 DEF KeepIsland, TypeOK, Location, Awaiting
  <2>2. LocalsInv' /\ FiniteInv'
    BY <1>8 DEF KeepIsland, LocalsInv, FiniteInv
  <2> QED
    BY <2>1, <2>2
<1>9. ASSUME NEW i \in affected, SplitIsland(i) PROVE TypeInv'
  <2>1. PICK g \in Biggest(Groups(i)) :
          members' = [members EXCEPT ![i] = g] /\ limbo' = Groups(i) \ {g}
    BY <1>9 DEF SplitIsland
  <2>2. i \in IslandId /\ i \in islands
    BY <1>9 DEF SplitIsland, TypeOK
  <2>3. ASSUME NEW h \in Groups(i) PROVE h \in SUBSET Obj /\ IsFiniteSet(h)
    <3>1. h \subseteq members[i]
      BY GroupsInside DEF Groups
    <3>2. members[i] \subseteq Obj /\ IsFiniteSet(members[i])
      BY <2>2 DEF TypeOK, FiniteInv
    <3> QED
      BY <3>1, <3>2, FS_Subset
  <2>4. g \in Groups(i)
    BY DEF Biggest
  <2>5. TypeOK'
    <3>1. /\ members' \in [IslandId -> SUBSET Obj]
          /\ limbo' \subseteq SUBSET Obj
      BY <2>1, <2>2, <2>3, <2>4 DEF TypeOK
    <3> QED
      BY <1>9, <2>2, <3>1 DEF SplitIsland, TypeOK, Location, Awaiting
  <2>6. LocalsInv' /\ FiniteInv'
    <3>1. LocalsInv'
      BY <1>9 DEF SplitIsland, LocalsInv
    <3>2. FiniteInv'
      BY <1>9, <2>1, <2>2, <2>3, <2>4 DEF SplitIsland, FiniteInv, TypeOK
    <3> QED
      BY <3>1, <3>2
  <2> QED
    BY <2>5, <2>6
<1>10. ASSUME NEW g \in limbo, PlaceGroup(g) PROVE TypeInv'
  <2>1. nextId + 1 \in IslandId /\ g \subseteq Obj
    BY <1>10 DEF PlaceGroup, CallCreateIsland, TypeOK
  <2>2. TypeOK'
    BY <1>10, <2>1 DEF PlaceGroup, CallCreateIsland, GenerateId, TypeOK, Location, Awaiting
  <2>3. LocalsInv' /\ FiniteInv'
    BY <1>10, <2>1 DEF PlaceGroup, CallCreateIsland, LocalsInv, FiniteInv
  <2> QED
    BY <2>2, <2>3
<1> QED
  BY <1>1, <1>2, <1>3, <1>4, <1>5, <1>6, <1>7, <1>8, <1>9, <1>10

\* The steps of the merge phase and what follows it.
LEMMA MergeTypes ==
  ASSUME TypeInv,
         \/ SkipQueued \/ TakeQueued \/ CallMerge \/ TargetFull \/ KeepApart \/ MergeFails
         \/ EndMerge \/ Return \/ Report \/ SkipReport
         \/ \E i \in affected : PassIsland(i) \/ MergeIslands(i)
  PROVE  TypeInv'
<1> USE Constants DEF TypeInv, mapVars, islandVars, objVars, callVars, splitVars, loopVars,
        mergeVars, flushVars
<1>1. ASSUME SkipQueued PROVE TypeInv'
  <2>1. TypeOK'
    BY <1>1 DEF SkipQueued, TypeOK
  <2>2. LocalsInv' /\ FiniteInv'
    BY <1>1 DEF SkipQueued, LocalsInv, FiniteInv
  <2> QED
    BY <2>1, <2>2
<1>2. ASSUME TakeQueued PROVE TypeInv'
  <2>1. PICK i \in queue \cap islands :
          queue' = queue \ {i} /\ merging' = i /\ prefered' \in PreferedTargets(members[i])
    BY <1>2 DEF TakeQueued
  <2>2. prefered' \in IslandId \cup {NoIsland}
    <3>1. PICK j \in MostVoted(members[i]) : prefered' = IF j \in targets THEN j ELSE NoIsland
      BY <2>1 DEF PreferedTargets
    <3>2. targets \subseteq IslandId
      BY DEF TypeOK
    <3> QED
      BY <3>1, <3>2
  <2>3. TypeOK'
    BY <1>2, <2>1, <2>2 DEF TakeQueued, TypeOK, Location, Awaiting
  <2>4. LocalsInv' /\ FiniteInv'
    BY <1>2, <2>1 DEF TakeQueued, LocalsInv, FiniteInv, TypeOK
  <2> QED
    BY <2>3, <2>4
<1>3. ASSUME CallMerge PROVE TypeInv'
  <2>1. TypeOK'
    BY <1>3 DEF CallMerge, TypeOK, MarkTried, Location, Awaiting
  <2>2. LocalsInv' /\ FiniteInv'
    BY <1>3 DEF CallMerge, LocalsInv, FiniteInv
  <2> QED
    BY <2>1, <2>2
<1>4. ASSUME TargetFull PROVE TypeInv'
  <2>1. TypeOK'
    BY <1>4 DEF TargetFull, TypeOK, MarkTried, Location, Awaiting
  <2>2. LocalsInv' /\ FiniteInv'
    BY <1>4 DEF TargetFull, LocalsInv, FiniteInv
  <2> QED
    BY <2>1, <2>2
<1>5. ASSUME KeepApart PROVE TypeInv'
  <2>1. TypeOK'
    BY <1>5 DEF KeepApart, TypeOK, LocalsInv, Location, Awaiting
  <2>2. LocalsInv' /\ FiniteInv'
    BY <1>5 DEF KeepApart, LocalsInv, FiniteInv
  <2> QED
    BY <2>1, <2>2
<1>6. ASSUME MergeFails PROVE TypeInv'
  <2>1. TypeOK'
    BY <1>6 DEF MergeFails, TypeOK, Location, Awaiting
  <2>2. LocalsInv' /\ FiniteInv'
    BY <1>6 DEF MergeFails, LocalsInv, FiniteInv
  <2> QED
    BY <2>1, <2>2
<1>7. ASSUME EndMerge PROVE TypeInv'
  <2>1. TypeOK'
    BY <1>7 DEF EndMerge, TypeOK, LocalsInv, Location, Awaiting
  <2>2. LocalsInv' /\ FiniteInv'
    BY <1>7 DEF EndMerge, LocalsInv, FiniteInv
  <2> QED
    BY <2>1, <2>2
<1>8. ASSUME Return PROVE TypeInv'
  <2>1. TypeOK'
    BY <1>8 DEF Return, TypeOK, Update, NoUpdate, Location, Awaiting
  <2>2. LocalsInv' /\ FiniteInv'
    BY <1>8 DEF Return, LocalsInv, FiniteInv
  <2> QED
    BY <2>1, <2>2
<1>9. ASSUME Report PROVE TypeInv'
  <2>1. TypeOK'
    BY <1>9 DEF Report, TypeOK, Location, Awaiting
  <2>2. LocalsInv' /\ FiniteInv'
    BY <1>9 DEF Report, LocalsInv, FiniteInv
  <2> QED
    BY <2>1, <2>2
<1>10. ASSUME SkipReport PROVE TypeInv'
  <2>1. TypeOK'
    BY <1>10 DEF SkipReport, TypeOK, Location, Awaiting
  <2>2. LocalsInv' /\ FiniteInv'
    BY <1>10 DEF SkipReport, LocalsInv, FiniteInv
  <2> QED
    BY <2>1, <2>2
<1>11. ASSUME NEW i \in affected, PassIsland(i) PROVE TypeInv'
  <2>1. TypeOK'
    BY <1>11 DEF PassIsland, TypeOK, DirtyAfterScan
  <2>2. LocalsInv' /\ FiniteInv'
    BY <1>11 DEF PassIsland, LocalsInv, FiniteInv
  <2> QED
    BY <2>1, <2>2
<1>12. ASSUME NEW i \in affected, MergeIslands(i) PROVE TypeInv'
  <2>1. Intersected(i) \cup {i} \subseteq IslandId
    <3>1. i \in IslandId /\ islands \subseteq IslandId
      BY DEF TypeOK
    <3>2. Intersected(i) \subseteq islands
      BY DEF Intersected
    <3> QED
      BY <3>1, <3>2
  <2>2. PICK first \in Intersected(i) \cup {i} :
          targets' = {first} /\ queue' = (Intersected(i) \cup {i}) \ {first}
    BY <1>12 DEF MergeIslands
  <2>3. sizeAt' \in [IslandId -> Nat]
    BY <1>12, FS_CardinalityType DEF MergeIslands, FiniteInv
  <2>4. dirty' \subseteq islands
    BY <1>12 DEF MergeIslands, DirtyAfterScan, TypeOK
  <2>5. tried = {}
    BY <1>12 DEF MergeIslands, LocalsInv
  <2>6. TypeOK'
    BY <1>12, <2>1, <2>2, <2>3, <2>4, <2>5 DEF MergeIslands, TypeOK, Location, Awaiting
  <2>7. LocalsInv' /\ FiniteInv'
    BY <1>12 DEF MergeIslands, LocalsInv, FiniteInv
  <2> QED
    BY <2>6, <2>7
<1> QED
  BY <1>1, <1>2, <1>3, <1>4, <1>5, <1>6, <1>7, <1>8, <1>9, <1>10, <1>11, <1>12

LEMMA NextTypes == TypeInv /\ [Next]_vars => TypeInv'
<1>1. ASSUME TypeInv, Next PROVE TypeInv'
  BY <1>1, CallbackTypes, CreateIslandTypes, MergeIntoTypes, SplitTypes, MergeTypes
     DEF Next, Step, Answer
<1>2. ASSUME TypeInv, UNCHANGED vars PROVE TypeInv'
  BY <1>2 DEF vars, mapVars, islandVars, objVars, callVars, splitVars, loopVars, mergeVars,
     flushVars, TypeInv, TypeOK, LocalsInv, FiniteInv
<1> QED
  BY <1>1, <1>2

\* Every variable of the engine stays within its type, for any number of
\* peers, objects and islands.
THEOREM TypeCorrect == Spec => []TypeOK
<1>1. TypeInv => TypeOK
  BY DEF TypeInv
<1> QED
  BY <1>1, InitTypes, NextTypes, PTL DEF Spec

----------------------------------------------------------------------------
(* Sizes: no island is empty and none outgrows maxPeers, with any transport *)

\* A set of peers that an island can hold.
Fits(S) == IsFiniteSet(S) /\ Cardinality(S) <= MaxIslandSize

\* The ids of islands have been generated, the one a createIsland waits with last.
IdInv ==
  /\ \A i \in islands : i <= nextId
  /\ pc \in {"createNew", "createSplit"} => room = nextId /\ room \notin islands

\* A split spreads what was one island over its array, the group under way and
\* the groups that wait; since a failed group goes back to the array, it is all
\* of these together that has to fit.
SizeInv ==
  /\ \A i \in islands : members[i] # {} /\ Fits(members[i])
  /\ pc \notin {"createNew", "createSplit"} => group = {}
  /\ pc = "createNew" => Fits(group)
  /\ pc \in {"groups", "createSplit"} =>
       splitting \in IslandId /\ Fits(members[splitting] \cup group \cup UNION limbo)

Sound == TypeInv /\ IdInv /\ SizeInv

LEMMA FitsSubset ==
  ASSUME NEW S, NEW T, Fits(S), T \subseteq S
  PROVE  Fits(T)
<1>1. IsFiniteSet(T) /\ Cardinality(T) <= Cardinality(S)
  BY FS_Subset DEF Fits
<1>2. Cardinality(T) \in Nat /\ Cardinality(S) \in Nat
  BY <1>1, FS_CardinalityType DEF Fits
<1> QED
  BY <1>1, <1>2, SizeAssumption DEF Fits

LEMMA FitsOne ==
  ASSUME NEW o
  PROVE  Fits({o})
BY FS_Singleton, SizeAssumption DEF Fits

LEMMA FitsUnion ==
  ASSUME NEW S, NEW T, NEW A, IsFiniteSet(S), IsFiniteSet(T), A \subseteq T,
         Cardinality(S) + Cardinality(T) <= MaxIslandSize
  PROVE  Fits(S \cup A)
<1>1. IsFiniteSet(A) /\ Cardinality(A) <= Cardinality(T)
  BY FS_Subset
<1>2. /\ IsFiniteSet(S \cup A)
      /\ Cardinality(S \cup A) = Cardinality(S) + Cardinality(A) - Cardinality(S \cap A)
  BY <1>1, FS_Union
<1>3. /\ Cardinality(S) \in Nat /\ Cardinality(T) \in Nat /\ Cardinality(A) \in Nat
      /\ Cardinality(S \cap A) \in Nat
  BY <1>1, FS_CardinalityType, FS_Intersection
<1> QED
  BY <1>1, <1>2, <1>3, SizeAssumption DEF Fits

\* Callbacks only take peers out of arrays, and islands that they empty out of
\* the map.
LEMMA ShrinkingIsSound ==
  ASSUME Sound, islands' \subseteq islands,
         \A i \in IslandId : members'[i] \subseteq members[i],
         \A i \in islands' : members'[i] # {},
         UNCHANGED <<nextId, pc, group, room, splitting, limbo>>
  PROVE  IdInv' /\ SizeInv'
<1>1. IdInv'
  BY DEF Sound, IdInv
<1>2. \A i \in islands' : members'[i] # {} /\ Fits(members'[i])
  BY FitsSubset DEF Sound, SizeInv, TypeInv, TypeOK
<1>3. ASSUME pc \in {"groups", "createSplit"}
      PROVE  Fits(members'[splitting] \cup group \cup UNION limbo)
  <2>1. splitting \in IslandId /\ Fits(members[splitting] \cup group \cup UNION limbo)
    BY <1>3 DEF Sound, SizeInv
  <2> QED
    BY <2>1, FitsSubset
<1>4. SizeInv'
  BY <1>2, <1>3 DEF Sound, SizeInv, Fits
<1> QED
  BY <1>1, <1>4

LEMMA CallbackSound ==
  ASSUME Sound, Callback
  PROVE  IdInv' /\ SizeInv'
<1> USE Constants DEF mapVars, islandVars, objVars, callVars, splitVars, loopVars,
        mergeVars, flushVars
<1>0. members \in [IslandId -> SUBSET Obj] /\ \A i \in islands : members[i] # {}
  BY DEF Sound, TypeInv, TypeOK, SizeInv
<1>1. ASSUME NEW p \in Peer, NEW x \in Pos, NEW r \in Preference, NewPeerPosition(p, x, r)
      PROVE  IdInv' /\ SizeInv'
  BY <1>0, <1>1, ShrinkingIsSound DEF NewPeerPosition
<1>2. ASSUME NEW p \in Peer, NEW x \in Pos, NEW r \in Preference, KnownPeerPosition(p, x, r)
      PROVE  IdInv' /\ SizeInv'
  BY <1>0, <1>2, ShrinkingIsSound DEF KnownPeerPosition
<1>3. ASSUME NEW p \in Peer, DisconnectPending(p)
      PROVE  IdInv' /\ SizeInv'
  BY <1>0, <1>3, ShrinkingIsSound DEF DisconnectPending
<1>4. ASSUME NEW p \in Peer, DisconnectAssigned(p)
      PROVE  IdInv' /\ SizeInv'
  <2> DEFINE i == home[peers[p]]
  <2>1. i \in IslandId
    BY <1>4 DEF DisconnectAssigned, Assigned, Sound, TypeInv, TypeOK
  <2>2. PICK left \in Spliced(members[i], p) :
          /\ members' = [members EXCEPT ![i] = left]
          /\ islands' = IF left = {} THEN islands \ {i} ELSE islands
    BY <1>4 DEF DisconnectAssigned
  <2>3. left \subseteq members[i]
    BY <2>2 DEF Spliced
  <2>4. /\ islands' \subseteq islands
        /\ \A j \in IslandId : members'[j] \subseteq members[j]
        /\ \A j \in islands' : members'[j] # {}
    BY <1>0, <2>1, <2>2, <2>3 DEF Sound, TypeInv, TypeOK
  <2> QED
    BY <1>4, <2>4, ShrinkingIsSound DEF DisconnectAssigned
<1> QED
  BY <1>1, <1>2, <1>3, <1>4 DEF Callback

LEMMA CreateIslandSound ==
  ASSUME Sound, NEW granted, CreateIsland(granted)
  PROVE  IdInv' /\ SizeInv'
<1> USE Constants DEF callVars, splitVars
<1> DEFINE active == Active(group, granted)
<1>1. /\ room \in IslandId /\ room \notin islands /\ room = nextId
      /\ members \in [IslandId -> SUBSET Obj]
  BY DEF CreateIsland, Sound, TypeInv, TypeOK, LocalsInv, IdInv
<1>2. /\ members' = [members EXCEPT ![room] = active]
      /\ islands' = IF active = {} THEN islands ELSE islands \cup {room}
      /\ active \subseteq group
  BY DEF CreateIsland, IslandsWith, Active
<1>3. IdInv'
  BY <1>1, <1>2 DEF CreateIsland, AfterCreate, IdInv, Sound, TypeInv, TypeOK
<1>4. Fits(active)
  <2>1. CASE pc = "createNew"
    BY <1>2, <2>1, FitsSubset DEF Sound, SizeInv
  <2>2. CASE pc = "createSplit"
    <3>1. Fits(members[splitting] \cup group \cup UNION limbo)
      BY <2>2 DEF Sound, SizeInv
    <3> QED
      BY <1>2, <3>1, FitsSubset
  <2> QED
    BY <2>1, <2>2 DEF CreateIsland
<1>5. \A i \in islands' : members'[i] # {} /\ Fits(members'[i])
  BY <1>1, <1>2, <1>4 DEF Sound, SizeInv, TypeInv, TypeOK
<1>6. ASSUME pc' \in {"groups", "createSplit"}
      PROVE  splitting' \in IslandId /\ Fits(members'[splitting'] \cup group' \cup UNION limbo')
  <2>1. /\ splitting \in IslandId /\ Fits(members[splitting] \cup group \cup UNION limbo)
        /\ splitting' = splitting /\ limbo' = limbo /\ group' = {}
    BY <1>6 DEF CreateIsland, AfterCreate, Sound, SizeInv
  <2>2. members'[splitting] \subseteq members[splitting] \cup group
    BY <1>1, <1>2, <2>1
  <2> QED
    BY <2>1, <2>2, FitsSubset
<1>7. SizeInv'
  BY <1>5, <1>6 DEF CreateIsland, AfterCreate, SizeInv, Fits
<1> QED
  BY <1>3, <1>7

LEMMA MergeIntoSound ==
  ASSUME Sound, NEW granted, MergeInto(granted)
  PROVE  IdInv' /\ SizeInv'
<1> USE Constants DEF callVars, splitVars
<1> DEFINE active == Active(members[merging], granted)
<1>1. /\ room \in islands /\ merging \in islands /\ islands \subseteq IslandId
      /\ members \in [IslandId -> SUBSET Obj]
      /\ Cardinality(members[room]) + Cardinality(members[merging]) <= MaxIslandSize
  BY DEF MergeInto, StillMergeable, CanMerge, Sound, TypeInv, TypeOK
<1>2. /\ members' = [members EXCEPT ![room] = @ \cup active, ![merging] = {}]
      /\ islands' = islands \ {merging}
      /\ active \subseteq members[merging]
  BY DEF MergeInto, Active
<1>3. IdInv'
  BY <1>2 DEF MergeInto, IdInv, Sound, TypeInv, TypeOK
<1>4. Fits(members[room] \cup active)
  BY <1>1, <1>2, FitsUnion DEF Sound, TypeInv, FiniteInv
<1>5. ASSUME NEW i \in islands'
      PROVE  members'[i] # {} /\ Fits(members'[i])
  <2>1. i \in islands /\ i # merging /\ members[i] # {} /\ Fits(members[i])
    BY <1>2 DEF Sound, SizeInv
  <2>2. members'[i] = IF i = room THEN members[room] \cup active ELSE members[i]
    BY <1>1, <1>2, <2>1
  <2> QED
    BY <1>4, <2>1, <2>2
<1>6. SizeInv'
  BY <1>5 DEF MergeInto, SizeInv, Sound, Fits
<1> QED
  BY <1>3, <1>6

\* Steps that touch no array, no id and no group.
LEMMA UntouchedSound ==
  ASSUME Sound, UNCHANGED <<islands, members, nextId, group, limbo, splitting>>,
         pc' = pc \/ pc' \notin {"groups", "createNew", "createSplit"},
         pc \notin {"createNew", "createSplit"} \/ group = {} \/ pc' = pc,
         room' = room \/ pc' \notin {"createNew", "createSplit"}
  PROVE  IdInv' /\ SizeInv'
<1>1. IdInv'
  BY DEF Sound, IdInv
<1>2. SizeInv'
  BY DEF Sound, SizeInv, Fits
<1> QED
  BY <1>1, <1>2

LEMMA FlushSound ==
  ASSUME Sound,
         \/ BeginFlush \/ AllPlaced \/ AllSplit \/ EndSplit
         \/ \E i \in affected : KeepIsland(i) \/ PassIsland(i) \/ MergeIslands(i)
         \/ SkipQueued \/ TakeQueued \/ CallMerge \/ TargetFull \/ KeepApart \/ MergeFails
         \/ EndMerge \/ Return \/ Report \/ SkipReport
  PROVE  IdInv' /\ SizeInv'
<1> USE DEF mapVars, islandVars, callVars, splitVars, loopVars, mergeVars, flushVars
<1>1. CASE BeginFlush \/ AllPlaced \/ AllSplit
  BY <1>1, UntouchedSound DEF BeginFlush, AllPlaced, AllSplit
<1>2. CASE EndSplit
  <2>1. IdInv'
    BY <1>2 DEF EndSplit, Sound, IdInv
  <2>2. SizeInv'
    BY <1>2 DEF EndSplit, Sound, SizeInv, Fits
  <2> QED
    BY <2>1, <2>2
<1>3. CASE \E i \in affected : KeepIsland(i) \/ PassIsland(i) \/ MergeIslands(i)
  BY <1>3, UntouchedSound DEF KeepIsland, PassIsland, MergeIslands
<1>4. CASE SkipQueued \/ TakeQueued \/ TargetFull \/ KeepApart
  BY <1>4, UntouchedSound DEF SkipQueued, TakeQueued, TargetFull, KeepApart
<1>5. CASE CallMerge \/ MergeFails
  BY <1>5, UntouchedSound DEF CallMerge, MergeFails
<1>6. CASE EndMerge \/ Return \/ Report \/ SkipReport
  BY <1>6, UntouchedSound DEF EndMerge, Return, Report, SkipReport
<1> QED
  BY <1>1, <1>2, <1>3, <1>4, <1>5, <1>6

\* A new id is above those of all islands.
LEMMA NewIdIsFresh ==
  ASSUME Sound, nextId + 1 \in IslandId
  PROVE  nextId + 1 \notin islands /\ \A i \in islands : i <= nextId + 1
<1>1. nextId \in Nat /\ \A i \in islands : i \in Nat /\ i <= nextId
  BY Constants DEF Sound, IdInv, TypeInv, TypeOK, NoIsland
<1> QED
  BY <1>1

LEMMA PlacingSound ==
  ASSUME Sound,
         \/ NewPeerFails \/ GroupFails
         \/ \E p \in Peer : PlaceNewPeer(p)
         \/ \E i \in affected : SplitIsland(i)
         \/ \E g \in limbo : PlaceGroup(g)
  PROVE  IdInv' /\ SizeInv'
<1> USE DEF mapVars, islandVars, callVars, splitVars, loopVars, mergeVars, flushVars
<1>0. /\ members \in [IslandId -> SUBSET Obj]
      /\ islands \subseteq IslandId
      /\ NoIsland \notin IslandId
  BY Constants DEF Sound, TypeInv, TypeOK
<1>1. CASE NewPeerFails
  <2>1. IdInv'
    BY <1>1 DEF NewPeerFails, AfterCreate, Sound, IdInv
  <2>2. SizeInv'
    BY <1>1 DEF NewPeerFails, AfterCreate, Sound, SizeInv, Fits
  <2> QED
    BY <2>1, <2>2
<1>2. CASE GroupFails
  <2>1. IdInv'
    BY <1>2 DEF GroupFails, AfterCreate, Sound, IdInv
  <2>2. /\ splitting \in IslandId
        /\ Fits(members[splitting] \cup group \cup UNION limbo)
        /\ members' = PutBack(splitting, group)
        /\ UNCHANGED <<islands, splitting, limbo>> /\ group' = {} /\ pc' = "groups"
    BY <1>2 DEF GroupFails, AfterCreate, Sound, SizeInv
  <2>3. \A i \in IslandId : members'[i] = members[i]
                            \/ (i = splitting /\ members'[i] = members[i] \cup group)
    BY <1>0, <2>2 DEF PutBack
  <2>4. ASSUME NEW i \in islands' PROVE members'[i] # {} /\ Fits(members'[i])
    <3>1. i \in IslandId /\ members[i] # {} /\ Fits(members[i])
      BY <1>0, <2>2 DEF Sound, SizeInv
    <3>2. Fits(members[splitting] \cup group)
      BY <2>2, FitsSubset
    <3> QED
      BY <2>3, <3>1, <3>2
  <2>5. Fits(members'[splitting'] \cup group' \cup UNION limbo')
    <3>1. members'[splitting'] \cup group' \cup UNION limbo'
            \subseteq members[splitting] \cup group \cup UNION limbo
      BY <2>2, <2>3
    <3> QED
      BY <2>2, <3>1, FitsSubset
  <2>6. SizeInv'
    BY <2>2, <2>4, <2>5 DEF SizeInv, Fits
  <2> QED
    BY <2>1, <2>6
<1>3. ASSUME NEW p \in Peer, PlaceNewPeer(p) PROVE IdInv' /\ SizeInv'
  <2>1. /\ nextId + 1 \in IslandId /\ nextId' = nextId + 1 /\ room' = nextId + 1
        /\ group' = {pendingNew[p]} /\ pc' = "createNew"
        /\ UNCHANGED <<islands, members>>
    BY <1>3 DEF PlaceNewPeer, CallCreateIsland, GenerateId
  <2>2. IdInv'
    BY <2>1, NewIdIsFresh DEF IdInv
  <2>3. SizeInv'
    BY <2>1, FitsOne DEF Sound, SizeInv, Fits
  <2> QED
    BY <2>2, <2>3
<1>4. ASSUME NEW i \in affected, SplitIsland(i) PROVE IdInv' /\ SizeInv'
  <2>1. PICK g \in Biggest(Groups(i)) :
          members' = [members EXCEPT ![i] = g] /\ limbo' = Groups(i) \ {g}
    BY <1>4 DEF SplitIsland
  <2>2. /\ i \in islands /\ i \in IslandId /\ splitting' = i /\ pc = "split" /\ pc' = "groups"
        /\ UNCHANGED <<islands, nextId, group, room>>
    BY <1>0, <1>4 DEF SplitIsland
  <2>3. IdInv'
    BY <2>2 DEF Sound, IdInv
  <2>4. g \in Groups(i) /\ g # {} /\ g \subseteq members[i] /\ UNION Groups(i) = members[i]
    BY GroupsInside, PeerGroupsPartition DEF Biggest, Groups
  <2>5. group' = {}
    BY <2>2 DEF Sound, SizeInv
  <2>6. Fits(members[i])
    BY <2>2 DEF Sound, SizeInv
  <2>7. ASSUME NEW j \in islands' PROVE members'[j] # {} /\ Fits(members'[j])
    <3>1. j \in IslandId /\ members[j] # {} /\ Fits(members[j])
      BY <1>0, <2>2 DEF Sound, SizeInv
    <3>2. members'[j] = IF j = i THEN g ELSE members[j]
      BY <1>0, <2>1, <3>1
    <3> QED
      BY <2>4, <2>6, <3>1, <3>2, FitsSubset
  <2>8. Fits(members'[splitting'] \cup group' \cup UNION limbo')
    <3>1. members'[splitting'] \cup group' \cup UNION limbo' \subseteq members[i]
      BY <1>0, <2>1, <2>2, <2>4, <2>5
    <3> QED
      BY <2>6, <3>1, FitsSubset
  <2>9. SizeInv'
    BY <2>2, <2>5, <2>7, <2>8 DEF SizeInv, Fits
  <2> QED
    BY <2>3, <2>9
<1>5. ASSUME NEW g \in limbo, PlaceGroup(g) PROVE IdInv' /\ SizeInv'
  <2>1. /\ nextId + 1 \in IslandId /\ nextId' = nextId + 1 /\ room' = nextId + 1
        /\ group' = g /\ limbo' = limbo \ {g} /\ pc = "groups" /\ pc' = "createSplit"
        /\ UNCHANGED <<islands, members, splitting>>
    BY <1>5 DEF PlaceGroup, CallCreateIsland, GenerateId
  <2>2. IdInv'
    BY <2>1, NewIdIsFresh DEF IdInv
  <2>3. Fits(members[splitting] \cup group \cup UNION limbo) /\ splitting \in IslandId
    BY <2>1 DEF Sound, SizeInv
  <2>4. Fits(members'[splitting'] \cup group' \cup UNION limbo')
    <3>1. members'[splitting'] \cup group' \cup UNION limbo'
            \subseteq members[splitting] \cup group \cup UNION limbo
      BY <2>1
    <3> QED
      BY <2>3, <3>1, FitsSubset
  <2>5. SizeInv'
    BY <2>1, <2>3, <2>4 DEF Sound, SizeInv, Fits
  <2> QED
    BY <2>2, <2>5
<1> QED
  BY <1>1, <1>2, <1>3, <1>4, <1>5

LEMMA InitSound == Init => Sound
<1> SUFFICES ASSUME Init PROVE Sound
  OBVIOUS
<1>1. IdInv /\ SizeInv
  BY DEF Init, IdInv, SizeInv
<1> QED
  BY <1>1, InitTypes DEF Sound

LEMMA NextSound == Sound /\ [Next]_vars => Sound'
<1>1. ASSUME Sound, Next PROVE IdInv' /\ SizeInv'
  BY <1>1, CallbackSound, CreateIslandSound, MergeIntoSound, FlushSound, PlacingSound
     DEF Next, Step, Answer
<1>2. ASSUME Sound, UNCHANGED vars PROVE IdInv' /\ SizeInv'
  BY <1>2 DEF vars, mapVars, islandVars, objVars, callVars, splitVars, loopVars, mergeVars,
     flushVars, Sound, IdInv, SizeInv, Fits
<1> QED
  BY <1>1, <1>2, NextTypes DEF Sound

\* No island ever holds more than maxPeers, whatever the transport answers or
\* rejects and whoever leaves or comes back during its calls.
THEOREM CapacityKept == Spec => []Capacity
<1>1. Sound => Capacity
  BY DEF Sound, SizeInv, Fits, Capacity
<1> QED
  BY <1>1, InitSound, NextSound, PTL DEF Spec

\* No island is ever left in the map without peers.
THEOREM IslandsInhabited == Spec => []NoEmptyIsland
<1>1. Sound => NoEmptyIsland
  BY DEF Sound, SizeInv, NoEmptyIsland
<1> QED
  BY <1>1, InitSound, NextSound, PTL DEF Spec

----------------------------------------------------------------------------
(* Places: which island an object names, and which array lists it, whatever *)
(* the transport answers or rejects                                         *)

\* Maps hold an object under its own id.
KeysInv ==
  \A p \in Peer :
    /\ peers[p] # NoObj => IdOf[peers[p]] = p
    /\ pendingNew[p] # NoObj => IdOf[pendingNew[p]] = p

\* An entry of pendingNewPeers that the flush has still to pass is of an unknown
\* peer, and has no island yet.
PendingInv ==
  \A p \in Peer : pendingNew[p] # NoObj /\ p \notin visited =>
    peers[p] = NoObj /\ home[pendingNew[p]] = NoIsland

\* Who is in an array names the island of the array, which exists.
ListedInv ==
  \A i \in IslandId : \A o \in members[i] : i \in islands /\ home[o] = i

\* The peers that have been taken from an island, or are new, and wait for one.
InTransit == group \cup UNION limbo

\* They are in no array and name the island that is being split, or none; the
\* groups are apart.
TransitInv ==
  /\ pc \notin {"groups", "createSplit"} => limbo = {}
  /\ \A o \in InTransit : \A i \in IslandId : o \notin members[i]
  /\ \A g \in limbo : g \cap group = {}
  /\ \A g, h \in limbo : g # h => g \cap h = {}
  /\ pc \in {"groups", "createSplit"} => \A o \in InTransit : home[o] = splitting
  /\ pc = "createNew" =>
       \E o \in Obj : group = {o} /\ home[o] = NoIsland /\ peers[IdOf[o]] \in {o, NoObj}

\* A known peer that names an island of the map is in transit or in its array.
HomeInv ==
  \A p \in Peer : peers[p] # NoObj /\ home[peers[p]] \in islands =>
    peers[p] \in InTransit \/ peers[p] \in members[home[peers[p]]]

\* Nobody names an island whose id is still to be given out.
HomeIdInv ==
  /\ \A o \in Obj : home[o] <= nextId
  /\ pc \in {"createNew", "createSplit"} => \A o \in Obj : home[o] # room

\* The island that is being merged is none of its targets.
TargetsInv ==
  /\ queue \cap targets = {}
  /\ merging \notin queue \cup targets
  /\ pc = "mergeInto" => room \in targets
  /\ pc \notin {"queue", "try", "mergeInto"} => queue = {}
  /\ pc \notin {"try", "mergeInto"} => merging = NoIsland

PlaceInv ==
  KeysInv /\ PendingInv /\ ListedInv /\ TransitInv /\ HomeInv /\ HomeIdInv /\ TargetsInv

Placed == Sound /\ PlaceInv

\* The types, where a proof needs them with an object in a map.
LEMMA PlaceTypes ==
  ASSUME Sound
  PROVE  /\ peers \in [Peer -> Obj \cup {NoObj}]
         /\ pendingNew \in [Peer -> Obj \cup {NoObj}]
         /\ members \in [IslandId -> SUBSET Obj]
         /\ home \in [Obj -> IslandId \cup {NoIsland}]
         /\ islands \subseteq IslandId
         /\ group \subseteq Obj /\ limbo \subseteq SUBSET Obj /\ InTransit \subseteq Obj
         /\ nextId \in Nat
         /\ pc \in {"createNew", "createSplit"} => room \in IslandId
BY Constants DEF Sound, TypeInv, TypeOK, LocalsInv, InTransit, NoIsland

LEMMA NewPeerPlaces ==
  ASSUME Placed, NEW p \in Peer, NEW x \in Pos, NEW r \in Preference, NewPeerPosition(p, x, r)
  PROVE  PlaceInv'
<1> USE DEF islandVars, callVars, splitVars, loopVars, mergeVars, flushVars
<1> DEFINE o == NewObject(p)
<1>1. /\ o \in Unreferenced(p) /\ o \in Obj
      /\ UNCHANGED <<peers, visited, islands, members, group, limbo, pc, queue, targets,
                     merging, room, splitting, nextId>>
      /\ pendingNew' = [pendingNew EXCEPT ![p] = o]
      /\ home' = [home EXCEPT ![o] = NoIsland]
      /\ peers[p] = NoObj
  BY NewObjectIsFree DEF NewPeerPosition
<1>2. /\ \A m \in Obj : home'[m] = IF m = o THEN NoIsland ELSE home[m]
      /\ \A q \in Peer : pendingNew'[q] = IF q = p THEN o ELSE pendingNew[q]
      /\ IdOf[o] = p
  BY <1>1, PlaceTypes DEF Placed, Unreferenced
<1>3. /\ o \notin InTransit
      /\ \A i \in IslandId : o \notin members[i]
      /\ \A q \in Peer : peers[q] # o
  BY <1>1, <1>2, Constants DEF Placed, PlaceInv, ListedInv, KeysInv, Unreferenced, InTransit
<1>4. KeysInv'
  BY <1>1, <1>2 DEF Placed, PlaceInv, KeysInv
<1>5. PendingInv'
  <2>1. \A q \in Peer : pendingNew[q] # NoObj => pendingNew[q] \in Obj
    BY PlaceTypes DEF Placed
  <2> QED
    BY <1>1, <1>2, <2>1 DEF Placed, PlaceInv, PendingInv
<1>6. ListedInv'
  <2>1. \A i \in IslandId : \A m \in members[i] : m \in Obj
    BY PlaceTypes DEF Placed
  <2> QED
    BY <1>1, <1>2, <1>3, <2>1 DEF Placed, PlaceInv, ListedInv
<1>7. TransitInv'
  <2>1. InTransit' = InTransit /\ group \subseteq InTransit /\ InTransit \subseteq Obj
    BY <1>1, PlaceTypes DEF Placed, InTransit
  <2>2. pc \in {"groups", "createSplit"} => \A m \in InTransit : home'[m] = splitting
    BY <1>2, <1>3, <2>1 DEF Placed, PlaceInv, TransitInv
  <2>3. pc = "createNew" =>
          \E m \in Obj : group = {m} /\ home'[m] = NoIsland /\ peers[IdOf[m]] \in {m, NoObj}
    BY <1>2 DEF Placed, PlaceInv, TransitInv
  <2> QED
    BY <1>1, <2>1, <2>2, <2>3 DEF Placed, PlaceInv, TransitInv
<1>8. HomeInv'
  <2>1. InTransit' = InTransit
    BY <1>1 DEF InTransit
  <2>2. \A q \in Peer : peers[q] # NoObj => home'[peers[q]] = home[peers[q]]
    BY <1>2, <1>3, PlaceTypes DEF Placed
  <2> QED
    BY <1>1, <2>1, <2>2 DEF Placed, PlaceInv, HomeInv
<1>9. HomeIdInv'
  <2>1. NoIsland <= nextId /\ (pc \in {"createNew", "createSplit"} => room # NoIsland)
    BY PlaceTypes, Constants DEF Placed, NoIsland
  <2> QED
    BY <1>1, <1>2, <2>1 DEF Placed, PlaceInv, HomeIdInv
<1>10. TargetsInv'
  BY <1>1 DEF Placed, PlaceInv, TargetsInv
<1> QED
  BY <1>4, <1>5, <1>6, <1>7, <1>8, <1>9, <1>10 DEF PlaceInv

\* Steps that leave these variables alone.
LEMMA SamePlaces ==
  ASSUME Placed, UNCHANGED <<peers, pendingNew, visited, islands, members, home, group, limbo, room,
                             splitting, nextId, pc, queue, targets, merging>>
  PROVE  PlaceInv'
BY DEF Placed, PlaceInv, KeysInv, PendingInv, ListedInv, TransitInv, InTransit, HomeInv, HomeIdInv,
       TargetsInv

LEMMA KnownPeerPlaces ==
  ASSUME Placed, NEW p \in Peer, NEW x \in Pos, NEW r \in Preference, KnownPeerPosition(p, x, r)
  PROVE  PlaceInv'
BY SamePlaces DEF KnownPeerPosition, mapVars, callVars, splitVars, loopVars, mergeVars, flushVars

\* A peer is forgotten, and perhaps taken out of an array.
LEMMA DisconnectPlaces ==
  ASSUME Placed, NEW p \in Peer, DisconnectPending(p) \/ DisconnectAssigned(p)
  PROVE  PlaceInv'
<1> USE DEF islandVars, objVars, callVars, splitVars, loopVars, mergeVars, flushVars
<1>1. /\ UNCHANGED <<home, group, limbo, pc, queue, targets, merging, room, splitting, nextId>>
      /\ pendingNew' = [pendingNew EXCEPT ![p] = NoObj]
      /\ visited' = visited \ {p}
      /\ peers' = [peers EXCEPT ![p] = NoObj]
  BY DEF DisconnectPending, DisconnectAssigned, DeletePending
<1>2. /\ \A q \in Peer : peers'[q] = IF q = p THEN NoObj ELSE peers[q]
      /\ \A q \in Peer : pendingNew'[q] = IF q = p THEN NoObj ELSE pendingNew[q]
      /\ InTransit' = InTransit
  BY <1>1, PlaceTypes DEF Placed, InTransit
<1>3. /\ islands' \subseteq islands
      /\ \A i \in IslandId : /\ members'[i] \subseteq members[i]
                             /\ \A o \in members[i] : IdOf[o] # p => o \in members'[i]
                             /\ members'[i] # {} /\ i \in islands => i \in islands'
  <2>1. CASE DisconnectPending(p)
    BY <2>1 DEF DisconnectPending
  <2>2. CASE DisconnectAssigned(p)
    <3> DEFINE i == home[peers[p]]
    <3>1. PICK left \in Spliced(members[i], p) :
            /\ members' = [members EXCEPT ![i] = left]
            /\ islands' = IF left = {} THEN islands \ {i} ELSE islands
      BY <2>2 DEF DisconnectAssigned
    <3>2. i \in IslandId
      BY <2>2, PlaceTypes DEF DisconnectAssigned, Assigned, Placed
    <3>3. left \subseteq members[i] /\ \A o \in members[i] : IdOf[o] # p => o \in left
      BY <3>1 DEF Spliced
    <3>4. \A j \in IslandId : members'[j] = IF j = i THEN left ELSE members[j]
      BY <3>1, <3>2, PlaceTypes DEF Placed
    <3> QED
      BY <3>1, <3>3, <3>4
  <2> QED
    BY <2>1, <2>2
<1>4. KeysInv' /\ PendingInv'
  BY <1>1, <1>2 DEF Placed, PlaceInv, KeysInv, PendingInv
<1>5. ListedInv'
  BY <1>1, <1>3 DEF Placed, PlaceInv, ListedInv
<1>6. TransitInv'
  <2>1. pc = "createNew" =>
          \E o \in Obj : group = {o} /\ home[o] = NoIsland /\ peers'[IdOf[o]] \in {o, NoObj}
    BY <1>2, Constants DEF Placed, PlaceInv, TransitInv
  <2>2. \A o \in InTransit : \A i \in IslandId : o \notin members'[i]
    BY <1>3 DEF Placed, PlaceInv, TransitInv
  <2> QED
    BY <1>1, <1>2, <2>1, <2>2 DEF Placed, PlaceInv, TransitInv
<1>7. HomeInv'
  <2> SUFFICES ASSUME NEW q \in Peer, peers'[q] # NoObj, home[peers'[q]] \in islands'
               PROVE  peers'[q] \in InTransit \/ peers'[q] \in members'[home[peers'[q]]]
    BY <1>1, <1>2 DEF HomeInv
  <2>1. q # p /\ peers'[q] = peers[q] /\ IdOf[peers[q]] = q /\ home[peers[q]] \in islands
    BY <1>2, <1>3 DEF Placed, PlaceInv, KeysInv
  <2>2. home[peers[q]] \in IslandId
    BY <2>1, PlaceTypes DEF Placed
  <2> QED
    BY <1>3, <2>1, <2>2 DEF Placed, PlaceInv, HomeInv
<1>8. HomeIdInv' /\ TargetsInv'
  BY <1>1 DEF Placed, PlaceInv, HomeIdInv, TargetsInv
<1> QED
  BY <1>4, <1>5, <1>6, <1>7, <1>8 DEF PlaceInv

----------------------------------------------------------------------------
(* The answers of the transport *)

\* Eviction removes from peers exactly those of the asked that were refused.
LEMMA Evicted ==
  ASSUME NEW objs, NEW granted, NEW p \in Peer
  PROVE  Evict(objs, granted)[p] = IF p \in Ids(objs) \ granted THEN NoObj ELSE peers[p]
BY DEF Evict

\* An active object is no waiting entry that the flush has still to pass.
LEMMA ActiveIsKnown ==
  ASSUME Placed, NEW objs \in SUBSET Obj, NEW granted, NEW p \in Peer,
         pendingNew[p] # NoObj, p \notin visited
  PROVE  pendingNew[p] \notin Active(objs, granted)
BY DEF Active, Placed, PlaceInv, KeysInv, PendingInv

LEMMA CreateIslandPlaces ==
  ASSUME Placed, NEW granted, CreateIsland(granted)
  PROVE  PlaceInv'
<1> USE DEF splitVars, mergeVars
<1> DEFINE active == Active(group, granted)
<1>1. /\ pc \in {"createNew", "createSplit"} /\ pc' = AfterCreate
      /\ room \in IslandId /\ room \notin islands
      /\ peers' = Evict(group, granted)
      /\ members' = [members EXCEPT ![room] = active]
      /\ islands' = IF active = {} THEN islands ELSE islands \cup {room}
      /\ home' = [o \in Obj |-> IF o \in active THEN room ELSE home[o]]
      /\ group' = {} /\ room = nextId
      /\ UNCHANGED <<pendingNew, visited, queue, targets, merging, limbo, splitting, nextId>>
  BY DEF CreateIsland, SetPeersIsland, IslandsWith, Placed, Sound, TypeInv, LocalsInv, IdInv
<1>2. /\ \A p \in Peer : peers'[p] = IF p \in Ids(group) \ granted THEN NoObj ELSE peers[p]
      /\ \A o \in Obj : home'[o] = IF o \in active THEN room ELSE home[o]
      /\ \A i \in IslandId : members'[i] = IF i = room THEN active ELSE members[i]
  BY <1>1, Evicted, PlaceTypes DEF Placed
<1>3. /\ active \subseteq group /\ group \subseteq InTransit /\ InTransit \subseteq Obj
      /\ InTransit' = UNION limbo
      /\ \A o \in UNION limbo : o \notin active /\ o \in InTransit
      /\ members[room] = {}
  <2>1. active \subseteq group /\ group \subseteq InTransit /\ InTransit \subseteq Obj
    BY PlaceTypes DEF Active, InTransit, Placed
  <2>2. InTransit' = UNION limbo /\ UNION limbo \subseteq InTransit
    BY <1>1 DEF InTransit
  <2>3. \A o \in UNION limbo : o \notin group
    BY DEF Placed, PlaceInv, TransitInv
  <2>4. members[room] = {}
    BY <1>1 DEF Placed, PlaceInv, ListedInv
  <2> QED
    BY <2>1, <2>2, <2>3, <2>4
<1>4. KeysInv'
  BY <1>1, <1>2 DEF Placed, PlaceInv, KeysInv
<1>5. PendingInv'
  <2> SUFFICES ASSUME NEW p \in Peer, pendingNew[p] # NoObj, p \notin visited
               PROVE  peers'[p] = NoObj /\ home'[pendingNew[p]] = NoIsland
    BY <1>1 DEF PendingInv
  <2>1. peers[p] = NoObj /\ home[pendingNew[p]] = NoIsland /\ pendingNew[p] \in Obj
    BY PlaceTypes DEF Placed, PlaceInv, PendingInv
  <2>2. pendingNew[p] \notin active
    BY <1>3, ActiveIsKnown
  <2> QED
    BY <1>2, <2>1, <2>2
<1>6. ListedInv'
  <2> SUFFICES ASSUME NEW i \in IslandId, NEW o \in members'[i]
               PROVE  i \in islands' /\ home'[o] = i
    BY DEF ListedInv
  <2>1. CASE i = room
    BY <1>1, <1>2, <1>3, <2>1
  <2>2. CASE i # room
    <3>1. o \in members[i] /\ o \in Obj /\ i \in islands /\ home[o] = i
      BY <1>2, <2>2, PlaceTypes DEF Placed, PlaceInv, ListedInv
    <3>2. o \notin active
      BY <1>3, <3>1 DEF Placed, PlaceInv, TransitInv
    <3> QED
      BY <1>1, <1>2, <3>1, <3>2
  <2> QED
    BY <2>1, <2>2
<1>7. TransitInv'
  <2>1. ASSUME NEW o \in UNION limbo, NEW i \in IslandId PROVE o \notin members'[i]
    BY <1>2, <1>3 DEF Placed, PlaceInv, TransitInv
  <2>2. ASSUME pc' = "groups" PROVE \A o \in UNION limbo : home'[o] = splitting
    <3>1. pc = "createSplit"
      BY <1>1, <2>2 DEF AfterCreate
    <3> QED
      BY <1>2, <1>3, <3>1 DEF Placed, PlaceInv, TransitInv
  <2>3. pc' \in {"new", "groups"} /\ (pc' = "new" => limbo = {})
    BY <1>1 DEF AfterCreate, Placed, PlaceInv, TransitInv
  <2>4. \A g, h \in limbo : g # h => g \cap h = {}
    BY DEF Placed, PlaceInv, TransitInv
  <2> QED
    BY <1>1, <1>3, <2>1, <2>2, <2>3, <2>4 DEF TransitInv
<1>8. HomeInv'
  <2> SUFFICES ASSUME NEW p \in Peer, peers'[p] # NoObj, home'[peers'[p]] \in islands'
               PROVE  peers'[p] \in InTransit' \/ peers'[p] \in members'[home'[peers'[p]]]
    BY DEF HomeInv
  <2>1. /\ peers'[p] = peers[p] /\ p \notin Ids(group) \ granted
        /\ peers[p] \in Obj /\ peers[p] # NoObj /\ IdOf[peers[p]] = p
    BY <1>2, PlaceTypes DEF Placed, PlaceInv, KeysInv
  <2>2. CASE peers[p] \in active
    BY <1>1, <1>2, <2>1, <2>2
  <2>3. CASE peers[p] \notin active
    <3>1. peers[p] \notin group
      BY <2>1, <2>3 DEF Active, Ids
    <3>2. home'[peers[p]] = home[peers[p]] /\ home[peers[p]] # room
      BY <1>1, <1>2, <2>1, <2>3 DEF Placed, PlaceInv, HomeIdInv
    <3>3. home[peers[p]] \in islands /\ home[peers[p]] \in IslandId
      BY <1>1, <2>1, <3>2, PlaceTypes DEF Placed
    <3>4. peers[p] \in UNION limbo \/ peers[p] \in members[home[peers[p]]]
      BY <2>1, <3>1, <3>3 DEF Placed, PlaceInv, HomeInv, InTransit
    <3> QED
      BY <1>2, <1>3, <2>1, <3>2, <3>3, <3>4
  <2> QED
    BY <2>2, <2>3
<1>9. HomeIdInv'
  <2>1. nextId \in Nat /\ pc' \notin {"createNew", "createSplit"}
    BY <1>1, PlaceTypes DEF AfterCreate, Placed
  <2> QED
    BY <1>1, <1>2, <2>1 DEF Placed, PlaceInv, HomeIdInv
<1>10. TargetsInv'
  BY <1>1 DEF AfterCreate, Placed, PlaceInv, TargetsInv
<1> QED
  BY <1>4, <1>5, <1>6, <1>7, <1>8, <1>9, <1>10 DEF PlaceInv

LEMMA MergeIntoPlaces ==
  ASSUME Placed, NEW granted, MergeInto(granted)
  PROVE  PlaceInv'
<1> USE DEF splitVars, loopVars
<1> DEFINE active == Active(members[merging], granted)
<1>1. /\ pc = "mergeInto" /\ pc' = "queue" /\ merging' = NoIsland
      /\ room \in islands /\ merging \in islands
      /\ room \in IslandId /\ merging \in IslandId /\ room # merging
      /\ peers' = Evict(members[merging], granted)
      /\ members' = [members EXCEPT ![room] = @ \cup active, ![merging] = {}]
      /\ islands' = islands \ {merging}
      /\ home' = [o \in Obj |-> IF o \in active THEN room ELSE home[o]]
      /\ UNCHANGED <<group, limbo, pendingNew, visited, queue, targets, splitting, nextId>>
  BY PlaceTypes DEF MergeInto, StillMergeable, SetPeersIsland, Placed, PlaceInv, TargetsInv
<1>2. /\ \A p \in Peer :
           peers'[p] = IF p \in Ids(members[merging]) \ granted THEN NoObj ELSE peers[p]
      /\ \A o \in Obj : home'[o] = IF o \in active THEN room ELSE home[o]
      /\ \A i \in IslandId : members'[i] = IF i = merging THEN {}
                                           ELSE IF i = room THEN members[room] \cup active
                                           ELSE members[i]
  BY <1>1, Evicted, PlaceTypes DEF Placed
<1>3. /\ active \subseteq members[merging] /\ members[merging] \subseteq Obj
      /\ \A o \in members[merging] : home[o] = merging
      /\ InTransit = {} /\ InTransit' = {}
  <2>1. active \subseteq members[merging]
    BY DEF Active
  <2>2. members[merging] \subseteq Obj /\ \A o \in members[merging] : home[o] = merging
    BY <1>1, PlaceTypes DEF Placed, PlaceInv, ListedInv
  <2>3. InTransit = {} /\ InTransit' = {}
    BY <1>1 DEF InTransit, Placed, Sound, SizeInv, PlaceInv, TransitInv
  <2> QED
    BY <2>1, <2>2, <2>3
<1>4. KeysInv'
  BY <1>1, <1>2 DEF Placed, PlaceInv, KeysInv
<1>5. PendingInv'
  <2> SUFFICES ASSUME NEW p \in Peer, pendingNew[p] # NoObj, p \notin visited
               PROVE  peers'[p] = NoObj /\ home'[pendingNew[p]] = NoIsland
    BY <1>1 DEF PendingInv
  <2>1. peers[p] = NoObj /\ home[pendingNew[p]] = NoIsland /\ pendingNew[p] \in Obj
    BY PlaceTypes DEF Placed, PlaceInv, PendingInv
  <2>2. pendingNew[p] \notin active
    BY <1>3, ActiveIsKnown
  <2> QED
    BY <1>2, <2>1, <2>2
<1>6. ListedInv'
  <2> SUFFICES ASSUME NEW i \in IslandId, NEW o \in members'[i]
               PROVE  i \in islands' /\ home'[o] = i
    BY DEF ListedInv
  <2>1. i # merging /\ (o \in members[i] \/ (i = room /\ o \in active))
    BY <1>2
  <2>2. CASE i = room /\ o \in active
    BY <1>1, <1>2, <1>3, <2>2
  <2>3. CASE o \in members[i]
    <3>1. i \in islands /\ home[o] = i /\ o \in Obj
      BY <2>3, PlaceTypes DEF Placed, PlaceInv, ListedInv
    <3> QED
      BY <1>1, <1>2, <1>3, <2>1, <3>1
  <2> QED
    BY <2>1, <2>2, <2>3
<1>7. TransitInv'
  BY <1>1, <1>3 DEF Placed, PlaceInv, TransitInv, InTransit
<1>8. HomeInv'
  <2> SUFFICES ASSUME NEW p \in Peer, peers'[p] # NoObj, home'[peers'[p]] \in islands'
               PROVE  peers'[p] \in members'[home'[peers'[p]]]
    BY DEF HomeInv
  <2>1. /\ peers'[p] = peers[p] /\ p \notin Ids(members[merging]) \ granted
        /\ peers[p] \in Obj /\ peers[p] # NoObj /\ IdOf[peers[p]] = p
    BY <1>2, PlaceTypes DEF Placed, PlaceInv, KeysInv
  <2>2. CASE peers[p] \in active
    <3>1. home'[peers[p]] = room
      BY <1>2, <2>1, <2>2
    <3>2. members'[room] = members[room] \cup active
      BY <1>1, <1>2
    <3> QED
      BY <2>1, <2>2, <3>1, <3>2
  <2>3. CASE peers[p] \notin active
    <3>1. home'[peers[p]] = home[peers[p]]
      BY <1>2, <2>1, <2>3
    <3>2. home[peers[p]] \in islands /\ home[peers[p]] \in IslandId /\ home[peers[p]] # merging
      BY <1>1, <2>1, <3>1, PlaceTypes DEF Placed
    <3>3. peers[p] \in members[home[peers[p]]]
      BY <1>3, <2>1, <3>2 DEF Placed, PlaceInv, HomeInv
    <3> QED
      BY <1>2, <2>1, <3>1, <3>2, <3>3
  <2> QED
    BY <2>2, <2>3
<1>9. HomeIdInv'
  <2>1. room <= nextId
    BY <1>1 DEF Placed, Sound, IdInv
  <2> QED
    BY <1>1, <1>2, <2>1 DEF Placed, PlaceInv, HomeIdInv
<1>10. TargetsInv'
  BY <1>1, Constants, PlaceTypes DEF Placed, Sound, TypeInv, TypeOK, PlaceInv, TargetsInv
<1> QED
  BY <1>4, <1>5, <1>6, <1>7, <1>8, <1>9, <1>10 DEF PlaceInv

\* The catch of the first phase: the new peer is as unknown as before.
LEMMA NewPeerFailsPlaces ==
  ASSUME Placed, NewPeerFails
  PROVE  PlaceInv'
<1> USE DEF islandVars, objVars, splitVars, mergeVars
<1>1. /\ pc = "createNew" /\ pc' = "new" /\ group' = {} /\ limbo' = limbo /\ limbo = {}
      /\ peers' = Evict(group, {})
      /\ UNCHANGED <<pendingNew, visited, islands, members, home, queue, targets, merging, nextId>>
  BY DEF NewPeerFails, AfterCreate, Placed, PlaceInv, TransitInv
<1>2. \A p \in Peer : peers'[p] = IF p \in Ids(group) THEN NoObj ELSE peers[p]
  BY <1>1, Evicted
<1>3. InTransit = group /\ InTransit' = {}
  BY <1>1 DEF InTransit
<1>4. KeysInv' /\ PendingInv' /\ ListedInv' /\ HomeIdInv' /\ TargetsInv'
  BY <1>1, <1>2 DEF Placed, PlaceInv, KeysInv, PendingInv, ListedInv, HomeIdInv, TargetsInv
<1>5. TransitInv'
  BY <1>1, <1>3 DEF TransitInv
<1>6. HomeInv'
  BY <1>1, <1>2, <1>3 DEF Placed, PlaceInv, KeysInv, HomeInv, Ids
<1> QED
  BY <1>4, <1>5, <1>6 DEF PlaceInv

\* The catch of a split: the group goes back to the array of the island that its
\* objects still name, unless that island is gone.
LEMMA GroupFailsPlaces ==
  ASSUME Placed, GroupFails
  PROVE  PlaceInv'
<1> USE DEF mapVars, objVars, splitVars, mergeVars
<1>1. /\ pc = "createSplit" /\ pc' = "groups" /\ group' = {} /\ splitting \in IslandId
      /\ members' = PutBack(splitting, group)
      /\ UNCHANGED <<peers, pendingNew, visited, islands, home, limbo, splitting, queue, targets,
                     merging, nextId>>
  BY DEF GroupFails, AfterCreate, Placed, Sound, SizeInv
<1>2. \A i \in IslandId :
        members'[i] = IF i = splitting /\ i \in islands THEN members[i] \cup group ELSE members[i]
  BY <1>1, PlaceTypes DEF PutBack, Placed
<1>3. /\ \A o \in InTransit : home[o] = splitting
      /\ InTransit' = UNION limbo /\ InTransit = group \cup UNION limbo
      /\ \A o \in UNION limbo : o \notin group
  BY <1>1 DEF InTransit, Placed, PlaceInv, TransitInv
<1>4. KeysInv' /\ PendingInv' /\ HomeIdInv' /\ TargetsInv'
  BY <1>1 DEF Placed, PlaceInv, KeysInv, PendingInv, HomeIdInv, TargetsInv
<1>5. ListedInv'
  <2> SUFFICES ASSUME NEW i \in IslandId, NEW o \in members'[i]
               PROVE  i \in islands /\ home[o] = i
    BY <1>1 DEF ListedInv
  <2>1. CASE o \in members[i]
    BY <2>1 DEF Placed, PlaceInv, ListedInv
  <2>2. CASE o \notin members[i]
    <3>1. i = splitting /\ i \in islands /\ o \in group
      BY <1>2, <2>2
    <3> QED
      BY <1>3, <3>1
  <2> QED
    BY <2>1, <2>2
<1>6. TransitInv'
  <2>1. ASSUME NEW o \in UNION limbo, NEW i \in IslandId PROVE o \notin members'[i]
    <3>1. o \notin members[i] /\ o \notin group
      BY <1>3 DEF Placed, PlaceInv, TransitInv
    <3> QED
      BY <1>2, <3>1
  <2>2. /\ \A g, h \in limbo : g # h => g \cap h = {}
        /\ \A o \in UNION limbo : home[o] = splitting
    BY <1>3 DEF Placed, PlaceInv, TransitInv
  <2>3. limbo' = limbo /\ splitting' = splitting /\ home' = home /\ group' = {} /\ pc' = "groups"
    BY <1>1
  <2>4. InTransit' = UNION limbo
    BY <1>3
  <2> QED
    BY <2>1, <2>2, <2>3, <2>4 DEF TransitInv
<1>7. HomeInv'
  <2> SUFFICES ASSUME NEW p \in Peer, peers[p] # NoObj, home[peers[p]] \in islands
               PROVE  peers[p] \in InTransit' \/ peers[p] \in members'[home[peers[p]]]
    BY <1>1 DEF HomeInv
  <2>1. home[peers[p]] \in IslandId
    BY PlaceTypes DEF Placed
  <2>2. CASE peers[p] \in group
    <3>1. home[peers[p]] = splitting /\ splitting \in islands
      BY <1>3, <2>2
    <3>2. members'[splitting] = members[splitting] \cup group
      BY <1>1, <1>2, <3>1
    <3> QED
      BY <2>2, <3>1, <3>2
  <2>3. CASE peers[p] \in UNION limbo
    BY <1>3, <2>3
  <2>4. CASE peers[p] \in members[home[peers[p]]]
    BY <1>2, <2>1, <2>4
  <2> QED
    BY <1>3, <2>2, <2>3, <2>4 DEF Placed, PlaceInv, HomeInv
<1> QED
  BY <1>4, <1>5, <1>6, <1>7 DEF PlaceInv

----------------------------------------------------------------------------
(* The steps of a flush *)

LEMMA HomesBelow ==
  ASSUME Placed
  PROVE  \A o \in Obj : home[o] \in Nat /\ home[o] < nextId + 1
<1>1. IslandId \cup {NoIsland} \subseteq Nat
  BY Constants DEF NoIsland
<1>2. \A o \in Obj : home[o] \in Nat
  BY <1>1, PlaceTypes DEF Placed
<1>3. nextId \in Nat
  BY PlaceTypes DEF Placed
<1>4. ASSUME NEW o \in Obj PROVE home[o] <= nextId
  BY DEF Placed, PlaceInv, HomeIdInv
<1>5. ASSUME NEW o \in Obj PROVE home[o] < nextId + 1
  BY <1>2, <1>3, <1>4
<1> QED
  BY <1>2, <1>5

LEMMA PlaceNewPeerPlaces ==
  ASSUME Placed, NEW p \in Peer, PlaceNewPeer(p)
  PROVE  PlaceInv'
<1> USE DEF islandVars, objVars, splitVars, loopVars, mergeVars
<1> DEFINE o == pendingNew[p]
<1>1. /\ pc = "new" /\ pc' = "createNew"
      /\ group' = {o} /\ limbo' = limbo
      /\ visited' = visited \cup {p}
      /\ peers' = [peers EXCEPT ![p] = o]
      /\ nextId' = nextId + 1 /\ room' = nextId + 1
      /\ UNCHANGED <<pendingNew, islands, members, home, queue, targets, merging>>
      /\ o # NoObj /\ o \in Obj /\ IdOf[o] = p /\ peers[p] = NoObj /\ home[o] = NoIsland
  BY PlaceTypes DEF PlaceNewPeer, CallCreateIsland, GenerateId, Placed, PlaceInv, KeysInv, PendingInv
<1>2. \A q \in Peer : peers'[q] = IF q = p THEN o ELSE peers[q]
  BY <1>1, PlaceTypes DEF Placed
<1>3. limbo = {} /\ InTransit = {} /\ InTransit' = {o}
  BY <1>1 DEF Placed, Sound, SizeInv, PlaceInv, TransitInv, InTransit
<1>4. \A i \in IslandId : o \notin members[i]
  BY <1>1, Constants DEF Placed, PlaceInv, ListedInv
<1>5. KeysInv' /\ PendingInv' /\ ListedInv' /\ TargetsInv'
  BY <1>1, <1>2 DEF Placed, PlaceInv, KeysInv, PendingInv, ListedInv, TargetsInv
<1>6. TransitInv'
  BY <1>1, <1>2, <1>3, <1>4 DEF TransitInv
<1>7. HomeInv'
  BY <1>1, <1>2, <1>3 DEF Placed, PlaceInv, HomeInv
<1>8. HomeIdInv'
  <2>1. \A m \in Obj : home[m] \in Nat /\ home[m] < nextId + 1
    BY HomesBelow
  <2> QED
    BY <1>1, <2>1 DEF HomeIdInv
<1> QED
  BY <1>5, <1>6, <1>7, <1>8 DEF PlaceInv

LEMMA SplitIslandPlaces ==
  ASSUME Placed, NEW i \in affected, SplitIsland(i)
  PROVE  PlaceInv'
<1> USE DEF mapVars, objVars, callVars, mergeVars
<1>1. PICK g \in Biggest(Groups(i)) :
        members' = [members EXCEPT ![i] = g] /\ limbo' = Groups(i) \ {g}
  BY DEF SplitIsland
<1>2. /\ pc = "split" /\ pc' = "groups" /\ i \in islands /\ i \in IslandId /\ splitting' = i
      /\ UNCHANGED <<peers, pendingNew, visited, islands, home, group, room, queue, targets,
                     merging, nextId>>
      /\ \A j \in IslandId : members'[j] = IF j = i THEN g ELSE members[j]
  BY <1>1, PlaceTypes DEF SplitIsland, Placed
<1>3. group = {} /\ InTransit = {} /\ InTransit' = UNION (Groups(i) \ {g})
  BY <1>1, <1>2 DEF Placed, Sound, SizeInv, PlaceInv, TransitInv, InTransit
<1>4. /\ g \in Groups(i) /\ UNION Groups(i) = members[i]
      /\ \A f, h \in Groups(i) : f # h => f \cap h = {}
  BY PeerGroupsPartition DEF Biggest, Groups
<1>5. InTransit' = members[i] \ g /\ g \subseteq members[i]
  BY <1>3, <1>4
<1>6. KeysInv' /\ PendingInv' /\ HomeIdInv' /\ TargetsInv'
  BY <1>2 DEF Placed, PlaceInv, KeysInv, PendingInv, HomeIdInv, TargetsInv
<1>7. ListedInv'
  BY <1>2, <1>5 DEF Placed, PlaceInv, ListedInv
<1>8. TransitInv'
  <2>1. ASSUME NEW o \in InTransit'
        PROVE  home[o] = i /\ \A j \in IslandId : o \notin members'[j]
    <3>1. o \in members[i] /\ o \notin g /\ home[o] = i
      BY <1>2, <1>5 DEF Placed, PlaceInv, ListedInv
    <3>2. ASSUME NEW j \in IslandId, j # i PROVE o \notin members[j]
      BY <3>1, <3>2 DEF Placed, PlaceInv, ListedInv
    <3> QED
      BY <1>2, <3>1, <3>2
  <2>2. \A f, h \in limbo' : f # h => f \cap h = {}
    BY <1>1, <1>4
  <2>3. \A h \in limbo' : h \cap group' = {}
    BY <1>2, <1>3
  <2> QED
    BY <1>2, <2>1, <2>2, <2>3 DEF TransitInv
<1>9. HomeInv'
  BY <1>2, <1>3, <1>5, PlaceTypes DEF Placed, PlaceInv, HomeInv
<1> QED
  BY <1>6, <1>7, <1>8, <1>9 DEF PlaceInv

LEMMA PlaceGroupPlaces ==
  ASSUME Placed, NEW g \in limbo, PlaceGroup(g)
  PROVE  PlaceInv'
<1> USE DEF mapVars, islandVars, objVars, loopVars, mergeVars
<1>1. /\ pc = "groups" /\ pc' = "createSplit" /\ group' = g /\ limbo' = limbo \ {g}
      /\ nextId' = nextId + 1 /\ room' = nextId + 1
      /\ UNCHANGED <<peers, pendingNew, visited, islands, members, home, queue, targets, merging,
                     splitting>>
  BY DEF PlaceGroup, CallCreateIsland, GenerateId
<1>2. group = {} /\ InTransit' = InTransit
  BY <1>1 DEF Placed, Sound, SizeInv, InTransit
<1>3. KeysInv' /\ PendingInv' /\ ListedInv' /\ HomeInv' /\ TargetsInv'
  BY <1>1, <1>2 DEF Placed, PlaceInv, KeysInv, PendingInv, ListedInv, HomeInv, TargetsInv
<1>4. TransitInv'
  BY <1>1, <1>2 DEF Placed, PlaceInv, TransitInv
<1>5. HomeIdInv'
  <2>1. \A m \in Obj : home[m] \in Nat /\ home[m] < nextId + 1
    BY HomesBelow
  <2> QED
    BY <1>1, <2>1 DEF HomeIdInv
<1> QED
  BY <1>3, <1>4, <1>5 DEF PlaceInv

\* The other steps change neither maps, arrays nor groups.
LEMMA OtherPlaces ==
  ASSUME Placed,
         \/ BeginFlush \/ AllPlaced \/ AllSplit \/ EndSplit
         \/ \E i \in affected : KeepIsland(i) \/ PassIsland(i) \/ MergeIslands(i)
         \/ SkipQueued \/ TakeQueued \/ CallMerge \/ TargetFull \/ KeepApart \/ MergeFails
         \/ EndMerge \/ Return \/ Report \/ SkipReport
  PROVE  PlaceInv'
<1> USE DEF mapVars, islandVars, objVars, callVars, splitVars, loopVars, mergeVars, flushVars
<1>1. UNCHANGED <<peers, islands, members, home, group, limbo, nextId>>
  BY DEF BeginFlush, AllPlaced, AllSplit, EndSplit, KeepIsland, PassIsland, MergeIslands,
         SkipQueued, TakeQueued, CallMerge, TargetFull, KeepApart, MergeFails, EndMerge, Return,
         Report, SkipReport
<1>2. /\ pc' \notin {"createNew", "createSplit", "groups"}
      /\ pc \notin {"createNew", "createSplit"}
      /\ limbo = {}
  BY DEF BeginFlush, AllPlaced, AllSplit, EndSplit, KeepIsland, PassIsland, MergeIslands,
         SkipQueued, TakeQueued, CallMerge, TargetFull, KeepApart, MergeFails, EndMerge, Return,
         Report, SkipReport, Placed, PlaceInv, TransitInv
<1>3. ListedInv' /\ TransitInv' /\ HomeInv' /\ HomeIdInv'
  BY <1>1, <1>2 DEF Placed, PlaceInv, ListedInv, TransitInv, HomeInv, InTransit, HomeIdInv
<1>4. KeysInv' /\ PendingInv'
  <2>1. AllPlaced \/ UNCHANGED <<pendingNew, visited>>
    BY DEF BeginFlush, AllSplit, EndSplit, KeepIsland, PassIsland, MergeIslands,
         SkipQueued, TakeQueued, CallMerge, TargetFull, KeepApart, MergeFails, EndMerge, Return,
         Report, SkipReport
  <2> QED
    BY <1>1, <2>1 DEF AllPlaced, Placed, PlaceInv, KeysInv, PendingInv
<1>5. TargetsInv'
  <2>1. CASE BeginFlush \/ AllPlaced \/ AllSplit \/ EndSplit \/ Return \/ Report \/ SkipReport
             \/ \E i \in affected : KeepIsland(i) \/ PassIsland(i)
    <3>1. UNCHANGED <<queue, targets, merging>>
      BY <2>1 DEF BeginFlush, AllPlaced, AllSplit, EndSplit, Return, Report, SkipReport, KeepIsland,
           PassIsland
    <3>2. pc \notin {"queue", "try", "mergeInto"} /\ pc' # "mergeInto"
      BY <2>1 DEF BeginFlush, AllPlaced, AllSplit, EndSplit, Return, Report, SkipReport, KeepIsland,
           PassIsland
    <3> QED
      BY <3>1, <3>2 DEF Placed, PlaceInv, TargetsInv
  <2>2. CASE \E i \in affected : MergeIslands(i)
    <3>1. PICK i \in affected : MergeIslands(i)
      BY <2>2
    <3>2. Intersected(i) \cup {i} \subseteq IslandId
      BY <3>1, PlaceTypes DEF MergeIslands, Intersected, Placed
    <3>3. merging' = NoIsland /\ NoIsland \notin IslandId
      BY <3>1, Constants DEF MergeIslands, Placed, PlaceInv, TargetsInv
    <3> QED
      BY <3>1, <3>2, <3>3 DEF MergeIslands, TargetsInv
  <2>3. CASE SkipQueued
    BY <2>3 DEF SkipQueued, Placed, PlaceInv, TargetsInv
  <2>4. CASE TakeQueued
    BY <2>4 DEF TakeQueued, Placed, PlaceInv, TargetsInv
  <2>5. CASE CallMerge \/ TargetFull
    BY <2>5 DEF CallMerge, TargetFull, Placed, PlaceInv, TargetsInv
  <2>6. CASE KeepApart
    <3>1. merging \in IslandId /\ queue \subseteq IslandId /\ targets \subseteq IslandId
      BY <2>6 DEF KeepApart, Placed, Sound, TypeInv, TypeOK, LocalsInv
    <3> QED
      BY <2>6, <3>1, Constants DEF KeepApart, Placed, PlaceInv, TargetsInv
  <2>7. CASE MergeFails
    BY <2>7 DEF MergeFails, Placed, PlaceInv, TargetsInv
  <2>8. CASE EndMerge
    BY <2>8, Constants DEF EndMerge, Placed, PlaceInv, TargetsInv
  <2> QED
    BY <2>1, <2>2, <2>3, <2>4, <2>5, <2>6, <2>7, <2>8
<1> QED
  BY <1>3, <1>4, <1>5 DEF PlaceInv

LEMMA InitPlaced == Init => Placed
<1> SUFFICES ASSUME Init PROVE PlaceInv
  BY InitSound DEF Placed
<1>1. KeysInv /\ PendingInv /\ ListedInv /\ TransitInv /\ HomeInv /\ TargetsInv
  BY DEF Init, KeysInv, PendingInv, ListedInv, TransitInv, InTransit, HomeInv, TargetsInv
<1>2. HomeIdInv
  BY DEF Init, HomeIdInv, NoIsland
<1> QED
  BY <1>1, <1>2 DEF PlaceInv

LEMMA NextPlaced == Placed /\ [Next]_vars => Placed'
<1>1. ASSUME Placed, Callback PROVE PlaceInv'
  BY <1>1, NewPeerPlaces, KnownPeerPlaces, DisconnectPlaces DEF Callback
<1>2. ASSUME Placed, Answer PROVE PlaceInv'
  BY <1>2, CreateIslandPlaces, MergeIntoPlaces, NewPeerFailsPlaces, GroupFailsPlaces, OtherPlaces
     DEF Answer
<1>3. ASSUME Placed, Step \/ BeginFlush \/ Report \/ SkipReport PROVE PlaceInv'
  BY <1>3, PlaceNewPeerPlaces, SplitIslandPlaces, PlaceGroupPlaces, OtherPlaces DEF Step
<1>4. ASSUME Placed, UNCHANGED vars PROVE PlaceInv'
  BY <1>4, SamePlaces DEF vars, mapVars, islandVars, objVars, callVars, splitVars, loopVars,
     mergeVars, flushVars
<1>5. Placed /\ [Next]_vars => PlaceInv'
  BY <1>1, <1>2, <1>3, <1>4 DEF Next
<1>6. Placed /\ [Next]_vars => Sound'
  BY NextSound DEF Placed
<1> QED
  BY <1>5, <1>6 DEF Placed

\* Whatever the transport answers or rejects and whoever comes and goes during
\* its calls: who is in the array of an island names that island, and a known
\* peer that names an island of the map is in its array or in a group that has
\* been taken from it.
THEOREM ListsAgree == Spec => []ListsAgreeWithHomes
<1>1. Placed => ListsAgreeWithHomes
  <2> SUFFICES ASSUME Placed PROVE ListsAgreeWithHomes
    OBVIOUS
  <2>1. \A i \in islands : \A o \in members[i] : home[o] = i
    BY PlaceTypes DEF Placed, PlaceInv, ListedInv
  <2>2. \A p \in Peer : peers[p] # NoObj /\ home[peers[p]] \in islands =>
          peers[p] \in members[home[peers[p]]] \cup group \cup UNION limbo
    BY DEF Placed, PlaceInv, HomeInv, InTransit
  <2> QED
    BY <2>1, <2>2 DEF ListsAgreeWithHomes
<1> QED
  BY <1>1, InitPlaced, NextPlaced, PTL DEF Spec

----------------------------------------------------------------------------
(* Moves *)

\* Only a heartbeat moves an object: a new one that is on no island, or the one
\* that the engine knows, whose island it marks.
LEMMA NextMoves ==
  ASSUME Placed, Next, NEW i \in islands, NEW o \in members[i], pos'[o] # pos[o]
  PROVE  i \in dirty'
<1> USE DEF mapVars, islandVars, objVars, callVars, splitVars, loopVars, mergeVars, flushVars
<1>0. o \in Obj /\ home[o] = i
  BY PlaceTypes DEF Placed, PlaceInv, ListedInv
<1>1. pos \in [Obj -> Pos]
  BY DEF Placed, Sound, TypeInv, TypeOK
<1>2. ~ (Step \/ Answer \/ BeginFlush \/ Report \/ SkipReport)
  <2>1. pos' # pos
    OBVIOUS
  <2>2. ~ Answer
    BY <2>1 DEF Answer, CreateIsland, NewPeerFails, GroupFails, MergeInto, MergeFails
  <2>3. ~ (Step \/ BeginFlush \/ Report \/ SkipReport)
    BY <2>1 DEF Step, PlaceNewPeer, AllPlaced, KeepIsland, SplitIsland, PlaceGroup, EndSplit,
       AllSplit, PassIsland, MergeIslands, SkipQueued, TakeQueued, CallMerge, TargetFull,
       KeepApart, EndMerge, Return, BeginFlush, Report, SkipReport
  <2> QED
    BY <2>2, <2>3
<1>3. ASSUME NEW p \in Peer, NEW x \in Pos, NEW r \in Preference, NewPeerPosition(p, x, r)
      PROVE  FALSE
  <2>1. pos' = [pos EXCEPT ![NewObject(p)] = x] /\ o \notin Unreferenced(p)
    BY <1>3 DEF NewPeerPosition, Unreferenced
  <2> QED
    BY <1>0, <1>1, <1>3, <2>1, NewObjectIsFree DEF NewPeerPosition
<1>4. ASSUME NEW p \in Peer, NEW x \in Pos, NEW r \in Preference, KnownPeerPosition(p, x, r)
      PROVE  i \in dirty'
  <2>1. pos' = [pos EXCEPT ![peers[p]] = x] /\ dirty' = MarkDirty(home[peers[p]])
    BY <1>4 DEF KnownPeerPosition
  <2>2. o = peers[p]
    BY <1>0, <1>1, <2>1
  <2> QED
    BY <1>0, <2>1, <2>2 DEF MarkDirty
<1>5. ASSUME NEW p \in Peer, DisconnectPending(p) \/ DisconnectAssigned(p) PROVE FALSE
  BY <1>5 DEF DisconnectPending, DisconnectAssigned
<1> QED
  BY <1>2, <1>3, <1>4, <1>5 DEF Next, Callback

\* No move of a peer goes unseen, whichever calls of the transport reject: the
\* heartbeat marks the island that lists the peer.
THEOREM MovesSeen == Spec => MovesAreNoticed
<1> DEFINE Noticed == \A i \in islands : (\E o \in members[i] : pos'[o] # pos[o]) => i \in dirty'
<1>1. Placed /\ [Next]_vars => [Noticed]_vars
  BY NextMoves
<1> QED
  BY <1>1, InitPlaced, NextPlaced, PTL DEF Spec, MovesAreNoticed

----------------------------------------------------------------------------
(* A flush advances                                                         *)

\* The island that is split is one that the loop has passed, so that the groups
\* which go back to it are not split again.
SplittingInv == pc \in {"groups", "createSplit"} => splitting \in done

LEMMA NextSplitting ==
  ASSUME TypeInv, SplittingInv, [Next]_vars
  PROVE  SplittingInv'
<1> USE DEF mapVars, islandVars, objVars, callVars, splitVars, loopVars, mergeVars, flushVars
<1>1. CASE Callback
  BY <1>1 DEF Callback, NewPeerPosition, KnownPeerPosition, DisconnectPending,
     DisconnectAssigned, SplittingInv
<1>2. CASE Answer
  BY <1>2 DEF Answer, CreateIsland, NewPeerFails, GroupFails, MergeInto, MergeFails, AfterCreate,
     SplittingInv
<1>3. CASE Step
  <2>1. ASSUME NEW i \in affected, KeepIsland(i) \/ SplitIsland(i) PROVE SplittingInv'
    BY <2>1 DEF KeepIsland, SplitIsland, SplittingInv
  <2>2. ASSUME NEW g \in limbo, PlaceGroup(g) PROVE SplittingInv'
    BY <2>2 DEF PlaceGroup, SplittingInv
  <2>3. ASSUME NEW p \in Peer, PlaceNewPeer(p) PROVE SplittingInv'
    BY <2>3 DEF PlaceNewPeer, SplittingInv
  <2>4. AllPlaced \/ EndSplit \/ AllSplit => SplittingInv'
    BY DEF AllPlaced, EndSplit, AllSplit, SplittingInv
  <2>5. ASSUME NEW i \in affected, PassIsland(i) \/ MergeIslands(i) PROVE SplittingInv'
    BY <2>5 DEF PassIsland, MergeIslands, SplittingInv
  <2>6. \/ SkipQueued \/ TakeQueued \/ CallMerge \/ TargetFull \/ KeepApart \/ EndMerge
        \/ Return
        => SplittingInv'
    BY DEF SkipQueued, TakeQueued, CallMerge, TargetFull, KeepApart, EndMerge, Return,
       SplittingInv
  <2> QED
    BY <1>3, <2>1, <2>2, <2>3, <2>4, <2>5, <2>6 DEF Step
<1>4. CASE BeginFlush \/ Report \/ SkipReport \/ UNCHANGED vars
  BY <1>4 DEF BeginFlush, Report, SkipReport, vars, SplittingInv
<1> QED
  BY <1>1, <1>2, <1>3, <1>4 DEF Next

\* Where the work that is left gets less.
AffectedLeft == affected \ done
TargetsLeft == targets \ tried
CreateSplitLeft == {pc} \cap {"createSplit"}
MergingLeft == {merging} \ {NoIsland}
LastLeft == {pc} \cap {"createNew", "groups", "mergeInto", "queue"}

\* WorkLeft gets less if one of its sets shrinks and those before it stay.
LEMMA LessAt ==
  ASSUME NEW k \in 1..10, Shrinks(WorkLeft'[k], WorkLeft[k]),
         \A j \in 1..(k - 1) : WorkLeft'[j] = WorkLeft[j]
  PROVE  Less(WorkLeft', WorkLeft)
BY DEF Less

LEMMA WorkSets ==
  /\ WorkLeft[1] = PhasesLeft /\ WorkLeft'[1] = PhasesLeft'
  /\ WorkLeft[2] = NotPassed /\ WorkLeft'[2] = NotPassed'
  /\ WorkLeft[3] = NotSplit /\ WorkLeft'[3] = NotSplit'
  /\ WorkLeft[4] = limbo /\ WorkLeft'[4] = limbo'
  /\ WorkLeft[5] = CreateSplitLeft /\ WorkLeft'[5] = CreateSplitLeft'
  /\ WorkLeft[6] = AffectedLeft /\ WorkLeft'[6] = AffectedLeft'
  /\ WorkLeft[7] = queue /\ WorkLeft'[7] = queue'
  /\ WorkLeft[8] = MergingLeft /\ WorkLeft'[8] = MergingLeft'
  /\ WorkLeft[9] = TargetsLeft /\ WorkLeft'[9] = TargetsLeft'
  /\ WorkLeft[10] = LastLeft /\ WorkLeft'[10] = LastLeft'
BY DEF WorkLeft, AffectedLeft, TargetsLeft, CreateSplitLeft, MergingLeft, LastLeft

LEMMA LessWork ==
  ASSUME \/ Shrinks(PhasesLeft', PhasesLeft)
         \/ /\ PhasesLeft' = PhasesLeft
            /\ \/ Shrinks(NotPassed', NotPassed)
               \/ /\ NotPassed' = NotPassed
                  /\ \/ Shrinks(NotSplit', NotSplit)
                     \/ /\ NotSplit' = NotSplit
                        /\ \/ Shrinks(limbo', limbo)
                           \/ /\ limbo' = limbo
                              /\ \/ Shrinks(CreateSplitLeft', CreateSplitLeft)
                                 \/ /\ CreateSplitLeft' = CreateSplitLeft
                                    /\ \/ Shrinks(AffectedLeft', AffectedLeft)
                                       \/ /\ AffectedLeft' = AffectedLeft
                                          /\ \/ Shrinks(queue', queue)
                                             \/ /\ queue' = queue
                                                /\ \/ Shrinks(MergingLeft', MergingLeft)
                                                   \/ /\ MergingLeft' = MergingLeft
                                                      /\ \/ Shrinks(TargetsLeft', TargetsLeft)
                                                         \/ /\ TargetsLeft' = TargetsLeft
                                                            /\ Shrinks(LastLeft', LastLeft)
  PROVE  Less(WorkLeft', WorkLeft)
<1> USE WorkSets
<1>1. ASSUME Shrinks(PhasesLeft', PhasesLeft)
      PROVE  Less(WorkLeft', WorkLeft)
  BY <1>1, LessAt
<1>2. ASSUME PhasesLeft' = PhasesLeft, Shrinks(NotPassed', NotPassed)
      PROVE  Less(WorkLeft', WorkLeft)
  BY <1>2, LessAt
<1>3. ASSUME PhasesLeft' = PhasesLeft, NotPassed' = NotPassed,
           Shrinks(NotSplit', NotSplit)
      PROVE  Less(WorkLeft', WorkLeft)
  BY <1>3, LessAt
<1>4. ASSUME PhasesLeft' = PhasesLeft, NotPassed' = NotPassed,
           NotSplit' = NotSplit, Shrinks(limbo', limbo)
      PROVE  Less(WorkLeft', WorkLeft)
  BY <1>4, LessAt
<1>5. ASSUME PhasesLeft' = PhasesLeft, NotPassed' = NotPassed,
           NotSplit' = NotSplit, limbo' = limbo,
           Shrinks(CreateSplitLeft', CreateSplitLeft)
      PROVE  Less(WorkLeft', WorkLeft)
  BY <1>5, LessAt
<1>6. ASSUME PhasesLeft' = PhasesLeft, NotPassed' = NotPassed,
           NotSplit' = NotSplit, limbo' = limbo,
           CreateSplitLeft' = CreateSplitLeft, Shrinks(AffectedLeft', AffectedLeft)
      PROVE  Less(WorkLeft', WorkLeft)
  BY <1>6, LessAt
<1>7. ASSUME PhasesLeft' = PhasesLeft, NotPassed' = NotPassed,
           NotSplit' = NotSplit, limbo' = limbo,
           CreateSplitLeft' = CreateSplitLeft, AffectedLeft' = AffectedLeft,
           Shrinks(queue', queue)
      PROVE  Less(WorkLeft', WorkLeft)
  BY <1>7, LessAt
<1>8. ASSUME PhasesLeft' = PhasesLeft, NotPassed' = NotPassed,
           NotSplit' = NotSplit, limbo' = limbo,
           CreateSplitLeft' = CreateSplitLeft, AffectedLeft' = AffectedLeft,
           queue' = queue, Shrinks(MergingLeft', MergingLeft)
      PROVE  Less(WorkLeft', WorkLeft)
  BY <1>8, LessAt
<1>9. ASSUME PhasesLeft' = PhasesLeft, NotPassed' = NotPassed,
           NotSplit' = NotSplit, limbo' = limbo,
           CreateSplitLeft' = CreateSplitLeft, AffectedLeft' = AffectedLeft,
           queue' = queue, MergingLeft' = MergingLeft,
           Shrinks(TargetsLeft', TargetsLeft)
      PROVE  Less(WorkLeft', WorkLeft)
  BY <1>9, LessAt
<1>10. ASSUME PhasesLeft' = PhasesLeft, NotPassed' = NotPassed,
           NotSplit' = NotSplit, limbo' = limbo,
           CreateSplitLeft' = CreateSplitLeft, AffectedLeft' = AffectedLeft,
           queue' = queue, MergingLeft' = MergingLeft,
           TargetsLeft' = TargetsLeft, Shrinks(LastLeft', LastLeft)
      PROVE  Less(WorkLeft', WorkLeft)
  BY <1>10, LessAt
<1> QED
  BY <1>1, <1>2, <1>3, <1>4, <1>5, <1>6, <1>7, <1>8, <1>9, <1>10

\* The sets of WorkLeft that depend on the phase, now and after a step.
LEMMA PhaseSets ==
  /\ pc \in {"new", "createNew"} =>
       /\ PhasesLeft = {"new", "split", "merge"} /\ NotSplit = {}
       /\ NotPassed = {p \in Peer \ visited : pendingNew[p] # NoObj}
  /\ pc \in {"split", "groups", "createSplit"} =>
       PhasesLeft = {"split", "merge"} /\ NotPassed = {}
  /\ pc \in {"merge", "queue", "try", "mergeInto"} =>
       PhasesLeft = {"merge"} /\ NotPassed = {} /\ NotSplit = {}
  /\ pc \in {"idle", "returned"} => PhasesLeft = {}
BY DEF PhasesLeft, NotPassed, NotSplit

LEMMA PhaseSetsAfter ==
  /\ pc' \in {"new", "createNew"} =>
       /\ PhasesLeft' = {"new", "split", "merge"} /\ NotSplit' = {}
       /\ NotPassed' = {p \in Peer \ visited' : pendingNew'[p] # NoObj}
  /\ pc' \in {"split", "groups", "createSplit"} =>
       PhasesLeft' = {"split", "merge"} /\ NotPassed' = {}
  /\ pc' \in {"merge", "queue", "try", "mergeInto"} =>
       PhasesLeft' = {"merge"} /\ NotPassed' = {} /\ NotSplit' = {}
  /\ pc' \in {"idle", "returned"} => PhasesLeft' = {}
BY DEF PhasesLeft, NotPassed, NotSplit

LEMMA NotSplitSet ==
  ASSUME pc \in {"split", "groups", "createSplit"}, NEW o
  PROVE  o \in NotSplit <=> \/ \E i \in affected \ done : o \in members[i]
                            \/ o \in group
                            \/ \E g \in limbo : o \in g
<1> DEFINE In == UNION {members[i] : i \in affected \ done}
           Out == UNION limbo
<1>1. NotSplit = In \cup group \cup Out
  <2>1. "split" \in PhasesLeft /\ "new" \notin PhasesLeft
    BY DEF PhasesLeft
  <2> QED
    BY <2>1 DEF NotSplit
<1>2. o \in In <=> \E i \in affected \ done : o \in members[i]
  OBVIOUS
<1>3. o \in Out <=> \E g \in limbo : o \in g
  OBVIOUS
<1> HIDE DEF In, Out
<1> QED
  BY <1>1, <1>2, <1>3

LEMMA NotSplitAfter ==
  ASSUME pc' \in {"split", "groups", "createSplit"}, NEW o
  PROVE  o \in NotSplit' <=> \/ \E i \in affected' \ done' : o \in members'[i]
                             \/ o \in group'
                             \/ \E g \in limbo' : o \in g
<1> DEFINE In == UNION {members'[i] : i \in affected' \ done'}
           Out == UNION limbo'
<1>1. NotSplit' = In \cup group' \cup Out
  <2>1. "split" \in PhasesLeft' /\ "new" \notin PhasesLeft'
    BY DEF PhasesLeft
  <2> QED
    BY <2>1 DEF NotSplit
<1>2. o \in In <=> \E i \in affected' \ done' : o \in members'[i]
  OBVIOUS
<1>3. o \in Out <=> \E g \in limbo' : o \in g
  OBVIOUS
<1> HIDE DEF In, Out
<1> QED
  BY <1>1, <1>2, <1>3

LEMMA FirstPhaseAdvances ==
  ASSUME TypeInv,
         \/ \E p \in Peer : PlaceNewPeer(p)
         \/ AllPlaced
         \/ NewPeerFails
         \/ pc = "createNew" /\ \E granted \in Answers(Ids(group)) : CreateIsland(granted)
  PROVE  Less(WorkLeft', WorkLeft)
<1> USE PhaseSets, PhaseSetsAfter DEF splitVars, loopVars, mergeVars
<1>1. ASSUME NEW p \in Peer, PlaceNewPeer(p) PROVE Less(WorkLeft', WorkLeft)
  <2>1. /\ PhasesLeft' = PhasesLeft
        /\ p \in NotPassed /\ NotPassed' = NotPassed \ {p}
    BY <1>1 DEF PlaceNewPeer
  <2> QED
    BY <2>1, LessWork DEF Shrinks
<1>2. ASSUME AllPlaced PROVE Less(WorkLeft', WorkLeft)
  <2>1. PhasesLeft' = PhasesLeft \ {"new"} /\ "new" \in PhasesLeft
    BY <1>2 DEF AllPlaced
  <2> QED
    BY <2>1, LessWork DEF Shrinks
<1>3. ASSUME pc = "createNew", UNCHANGED <<pendingNew, visited, splitVars, loopVars, mergeVars>>,
             pc' = "new"
      PROVE  Less(WorkLeft', WorkLeft)
  <2>1. PhasesLeft' = PhasesLeft /\ NotPassed' = NotPassed /\ NotSplit' = NotSplit
    BY <1>3
  <2>2. /\ limbo' = limbo /\ CreateSplitLeft' = CreateSplitLeft /\ AffectedLeft' = AffectedLeft
        /\ queue' = queue /\ MergingLeft' = MergingLeft /\ TargetsLeft' = TargetsLeft
    BY <1>3 DEF CreateSplitLeft, AffectedLeft, MergingLeft, TargetsLeft
  <2>3. Shrinks(LastLeft', LastLeft)
    BY <1>3 DEF LastLeft, Shrinks
  <2> QED
    BY <2>1, <2>2, <2>3, LessWork
<1>4. NewPeerFails => Less(WorkLeft', WorkLeft)
  BY <1>3 DEF NewPeerFails, AfterCreate
<1>5. ASSUME pc = "createNew", NEW granted, CreateIsland(granted)
      PROVE  Less(WorkLeft', WorkLeft)
  BY <1>3, <1>5 DEF CreateIsland, AfterCreate
<1> QED
  BY <1>1, <1>2, <1>4, <1>5

\* The second phase.  The peers of a group that gets an island, or goes back to
\* the island that the loop has passed, are no more than were there before.
LEMMA SecondPhaseAdvances ==
  ASSUME Placed, SplittingInv,
         \/ \E i \in affected : KeepIsland(i) \/ SplitIsland(i)
         \/ \E g \in limbo : PlaceGroup(g)
         \/ EndSplit \/ AllSplit \/ GroupFails
         \/ pc = "createSplit" /\ \E granted \in Answers(Ids(group)) : CreateIsland(granted)
  PROVE  Less(WorkLeft', WorkLeft)
<1> USE PhaseSets, PhaseSetsAfter DEF islandVars, loopVars, splitVars, callVars
<1>0. members \in [IslandId -> SUBSET Obj] /\ affected \subseteq IslandId /\ done \subseteq affected
  BY DEF Placed, Sound, TypeInv, TypeOK
<1>1. ASSUME NEW i \in affected, KeepIsland(i) PROVE Less(WorkLeft', WorkLeft)
  <2>1. /\ PhasesLeft' = PhasesLeft /\ NotPassed' = NotPassed /\ limbo' = limbo
        /\ CreateSplitLeft' = CreateSplitLeft
    BY <1>1 DEF KeepIsland, CreateSplitLeft
  <2>2. NotSplit' \subseteq NotSplit
    BY <1>1, NotSplitSet, NotSplitAfter DEF KeepIsland
  <2>3. Shrinks(AffectedLeft', AffectedLeft)
    BY <1>1 DEF KeepIsland, AffectedLeft, Shrinks
  <2> QED
    BY <2>1, <2>2, <2>3, LessWork DEF Shrinks
<1>2. ASSUME NEW i \in affected, SplitIsland(i) PROVE Less(WorkLeft', WorkLeft)
  <2>1. PICK g \in Biggest(Groups(i)) :
          members' = [members EXCEPT ![i] = g] /\ limbo' = Groups(i) \ {g}
    BY <1>2 DEF SplitIsland
  <2>2. /\ pc = "split" /\ pc' = "groups" /\ i \in affected \ done /\ done' = done \cup {i}
        /\ UNCHANGED <<affected, group>>
        /\ \A j \in IslandId \ {i} : members'[j] = members[j]
    BY <1>0, <1>2, <2>1 DEF SplitIsland
  <2>3. group = {} /\ i \in IslandId
    BY <1>0, <2>2 DEF Placed, Sound, SizeInv
  <2>4. /\ g \in Groups(i) /\ g # {} /\ UNION Groups(i) = members[i]
        /\ \A h \in Groups(i) : g # h => g \cap h = {}
    BY PeerGroupsPartition DEF Biggest, Groups
  <2>5. PICK o \in g : TRUE
    BY <2>4
  <2>6. NotSplit' \subseteq NotSplit
    <3> SUFFICES ASSUME NEW m, m \in NotSplit' PROVE m \in NotSplit
      OBVIOUS
    <3>1. CASE \E h \in limbo' : m \in h
      BY <2>1, <2>2, <2>4, <3>1, NotSplitSet
    <3>2. CASE ~ \E h \in limbo' : m \in h
      <4>1. PICK j \in affected \ (done \cup {i}) : m \in members'[j]
        BY <2>2, <2>3, <3>2, NotSplitAfter
      <4> QED
        BY <1>0, <2>2, <4>1, NotSplitSet
    <3> QED
      BY <3>1, <3>2
  <2>7. o \in NotSplit
    BY <2>2, <2>4, <2>5, NotSplitSet
  <2>8. o \notin NotSplit'
    <3>1. \A j \in IslandId \ {i} : o \notin members[j]
      BY <2>3, <2>4, <2>5 DEF Placed, PlaceInv, ListedInv
    <3>2. \A h \in limbo' : o \notin h
      BY <2>1, <2>4, <2>5
    <3> QED
      BY <1>0, <2>2, <2>3, <3>1, <3>2, NotSplitAfter
  <2>9. PhasesLeft' = PhasesLeft /\ NotPassed' = NotPassed
    BY <2>2
  <2> QED
    BY <2>6, <2>7, <2>8, <2>9, LessWork DEF Shrinks
<1>3. ASSUME NEW g \in limbo, PlaceGroup(g) PROVE Less(WorkLeft', WorkLeft)
  <2>1. PhasesLeft' = PhasesLeft /\ NotPassed' = NotPassed
    BY <1>3 DEF PlaceGroup
  <2>2. NotSplit' \subseteq NotSplit
    <3>1. /\ pc = "groups" /\ pc' = "createSplit" /\ group' = g /\ limbo' = limbo \ {g}
          /\ UNCHANGED <<members, affected, done>>
      BY <1>3 DEF PlaceGroup, CallCreateIsland
    <3> QED
      BY <3>1, NotSplitSet, NotSplitAfter
  <2>3. Shrinks(limbo', limbo)
    BY <1>3 DEF PlaceGroup, Shrinks
  <2> QED
    BY <2>1, <2>2, <2>3, LessWork DEF Shrinks
<1>4. ASSUME EndSplit PROVE Less(WorkLeft', WorkLeft)
  <2>1. PhasesLeft' = PhasesLeft /\ NotPassed' = NotPassed /\ limbo' = limbo
    BY <1>4 DEF EndSplit
  <2>2. /\ CreateSplitLeft' = CreateSplitLeft /\ AffectedLeft' = AffectedLeft
        /\ queue' = queue /\ MergingLeft' = MergingLeft /\ TargetsLeft' = TargetsLeft
    BY <1>4 DEF EndSplit, mergeVars, CreateSplitLeft, AffectedLeft, MergingLeft, TargetsLeft
  <2>3. Shrinks(LastLeft', LastLeft)
    BY <1>4 DEF EndSplit, LastLeft, Shrinks
  <2>4. NotSplit' \subseteq NotSplit
    BY <1>4, NotSplitSet, NotSplitAfter DEF EndSplit
  <2> QED
    BY <2>1, <2>2, <2>3, <2>4, LessWork DEF Shrinks
<1>5. ASSUME AllSplit PROVE Less(WorkLeft', WorkLeft)
  <2>1. PhasesLeft' = PhasesLeft \ {"split"} /\ "split" \in PhasesLeft
    BY <1>5 DEF AllSplit
  <2> QED
    BY <2>1, LessWork DEF Shrinks
<1>6. ASSUME pc = "createSplit", pc' = "groups", limbo' = limbo, NotSplit' \subseteq NotSplit
      PROVE  Less(WorkLeft', WorkLeft)
  <2>1. PhasesLeft' = PhasesLeft /\ NotPassed' = NotPassed
    BY <1>6
  <2>2. Shrinks(CreateSplitLeft', CreateSplitLeft)
    BY <1>6 DEF CreateSplitLeft, Shrinks
  <2> QED
    BY <1>6, <2>1, <2>2, LessWork DEF Shrinks
<1>7. ASSUME GroupFails PROVE Less(WorkLeft', WorkLeft)
  <2>1. /\ pc = "createSplit" /\ pc' = "groups" /\ group' = {}
        /\ UNCHANGED <<limbo, affected, done>> /\ splitting \in done
    BY <1>7 DEF GroupFails, AfterCreate, SplittingInv
  <2>2. \A j \in IslandId \ {splitting} : members'[j] = members[j]
    BY <1>0, <1>7 DEF GroupFails, PutBack
  <2>3. NotSplit' \subseteq NotSplit
    <3> SUFFICES ASSUME NEW m, m \in NotSplit' PROVE m \in NotSplit
      OBVIOUS
    <3>1. CASE \E h \in limbo : m \in h
      BY <2>1, <3>1, NotSplitSet
    <3>2. CASE ~ \E h \in limbo : m \in h
      <4>1. PICK j \in affected \ done : m \in members'[j]
        BY <2>1, <3>2, NotSplitAfter
      <4> QED
        BY <1>0, <2>1, <2>2, <4>1, NotSplitSet
    <3> QED
      BY <3>1, <3>2
  <2> QED
    BY <1>6, <2>1, <2>3
<1>8. ASSUME pc = "createSplit", NEW granted, CreateIsland(granted)
      PROVE  Less(WorkLeft', WorkLeft)
  <2>1. /\ pc' = "groups" /\ group' = {} /\ affected' = affected \cup {room}
        /\ UNCHANGED <<limbo, done>>
        /\ members' = [members EXCEPT ![room] = Active(group, granted)]
    BY <1>8 DEF CreateIsland, AfterCreate
  <2>2. Active(group, granted) \subseteq group
    BY DEF Active
  <2>3. room \in IslandId
    BY <1>8 DEF Placed, Sound, TypeInv, LocalsInv
  <2>4. NotSplit' \subseteq NotSplit
    <3> SUFFICES ASSUME NEW m, m \in NotSplit' PROVE m \in NotSplit
      OBVIOUS
    <3>1. CASE \E h \in limbo : m \in h
      BY <1>8, <3>1, NotSplitSet
    <3>2. CASE m \in group
      BY <1>8, <3>2, NotSplitSet
    <3>3. CASE m \notin group /\ ~ \E h \in limbo : m \in h
      <4>1. PICK j \in (affected \cup {room}) \ done : m \in members'[j]
        BY <2>1, <3>3, NotSplitAfter
      <4>2. j # room /\ j \in affected \ done
        BY <1>0, <2>1, <2>2, <2>3, <3>3, <4>1
      <4> QED
        BY <1>0, <1>8, <2>1, <4>1, <4>2, NotSplitSet
    <3> QED
      BY <3>1, <3>2, <3>3
  <2> QED
    BY <1>6, <1>8, <2>1, <2>4
<1> QED
  BY <1>1, <1>2, <1>3, <1>4, <1>5, <1>7, <1>8

LEMMA ThirdPhaseAdvances ==
  ASSUME Placed,
         \/ \E i \in affected : PassIsland(i) \/ MergeIslands(i)
         \/ SkipQueued \/ TakeQueued \/ CallMerge \/ TargetFull \/ KeepApart \/ EndMerge
         \/ Return \/ MergeFails
         \/ \E granted \in Answers(Ids(members[merging])) : MergeInto(granted)
  PROVE  Less(WorkLeft', WorkLeft)
<1> USE PhaseSets, PhaseSetsAfter DEF loopVars, splitVars, callVars
<1>1. ASSUME NEW i \in affected, PassIsland(i) \/ MergeIslands(i) PROVE Less(WorkLeft', WorkLeft)
  <2>1. /\ PhasesLeft' = PhasesLeft /\ NotPassed' = NotPassed /\ NotSplit' = NotSplit
        /\ limbo' = limbo /\ CreateSplitLeft' = CreateSplitLeft
    BY <1>1 DEF PassIsland, MergeIslands, CreateSplitLeft
  <2>2. Shrinks(AffectedLeft', AffectedLeft)
    BY <1>1 DEF PassIsland, MergeIslands, AffectedLeft, Shrinks
  <2> QED
    BY <2>1, <2>2, LessWork
<1>2. ASSUME pc \in {"queue", "try", "mergeInto"}, pc' \in {"merge", "queue", "try", "mergeInto"},
             UNCHANGED <<limbo, affected, done>>
      PROVE  /\ PhasesLeft' = PhasesLeft /\ NotPassed' = NotPassed /\ NotSplit' = NotSplit
             /\ limbo' = limbo /\ CreateSplitLeft' = CreateSplitLeft
             /\ AffectedLeft' = AffectedLeft
  BY <1>2 DEF CreateSplitLeft, AffectedLeft
<1>3. ASSUME SkipQueued \/ TakeQueued PROVE Less(WorkLeft', WorkLeft)
  <2>1. Shrinks(queue', queue)
    BY <1>3 DEF SkipQueued, TakeQueued, IsFirst, Shrinks
  <2> QED
    BY <1>2, <1>3, <2>1, LessWork DEF SkipQueued, TakeQueued
<1>4. ASSUME CallMerge \/ TargetFull PROVE Less(WorkLeft', WorkLeft)
  <2>1. Shrinks(TargetsLeft', TargetsLeft)
    BY <1>4 DEF CallMerge, TargetFull, MarkTried, TargetsLeft, Shrinks
  <2>2. queue' = queue /\ MergingLeft' = MergingLeft
    BY <1>4 DEF CallMerge, TargetFull, MergingLeft
  <2> QED
    BY <1>2, <1>4, <2>1, <2>2, LessWork DEF CallMerge, TargetFull
<1>5. ASSUME pc \in {"try", "mergeInto"}, pc' = "queue", merging' = NoIsland, queue' = queue,
             UNCHANGED <<limbo, affected, done>>
      PROVE  Less(WorkLeft', WorkLeft)
  <2>1. merging # NoIsland
    BY <1>5, Constants DEF Placed, Sound, TypeInv, LocalsInv
  <2>2. Shrinks(MergingLeft', MergingLeft)
    BY <1>5, <2>1 DEF MergingLeft, Shrinks
  <2> QED
    BY <1>2, <1>5, <2>2, LessWork
<1>6. ASSUME NEW granted, MergeInto(granted) PROVE Less(WorkLeft', WorkLeft)
  BY <1>5, <1>6 DEF MergeInto
<1>7. KeepApart => Less(WorkLeft', WorkLeft)
  BY <1>5 DEF KeepApart
<1>8. ASSUME MergeFails PROVE Less(WorkLeft', WorkLeft)
  <2>1. queue' = queue /\ MergingLeft' = MergingLeft /\ TargetsLeft' = TargetsLeft
    BY <1>8 DEF MergeFails, mergeVars, MergingLeft, TargetsLeft
  <2>2. Shrinks(LastLeft', LastLeft)
    BY <1>8 DEF MergeFails, LastLeft, Shrinks
  <2> QED
    BY <1>2, <1>8, <2>1, <2>2, LessWork DEF MergeFails
<1>9. ASSUME EndMerge PROVE Less(WorkLeft', WorkLeft)
  <2>1. queue' = queue /\ MergingLeft' = MergingLeft /\ TargetsLeft' \subseteq TargetsLeft
    BY <1>9 DEF EndMerge, MergingLeft, TargetsLeft
  <2>2. Shrinks(LastLeft', LastLeft)
    BY <1>9 DEF EndMerge, LastLeft, Shrinks
  <2> QED
    BY <1>2, <1>9, <2>1, <2>2, LessWork DEF EndMerge, Shrinks
<1>10. ASSUME Return PROVE Less(WorkLeft', WorkLeft)
  <2>1. Shrinks(PhasesLeft', PhasesLeft)
    BY <1>10 DEF Return, Shrinks
  <2> QED
    BY <2>1, LessWork
<1> QED
  BY <1>1, <1>3, <1>4, <1>6, <1>7, <1>8, <1>9, <1>10

\* A callback during an await takes peers off, or lets one join.
LEMMA CallbacksGiveNoWork ==
  ASSUME Placed, pc \in Awaiting, Callback
  PROVE  /\ UNCHANGED flushVars
         /\ \/ Less(WorkLeft', WorkLeft)
            \/ WorkLeft' = WorkLeft
            \/ pc = "createNew" /\ PeerJoins
<1> USE PhaseSets, PhaseSetsAfter DEF mapVars
<1>0. /\ members \in [IslandId -> SUBSET Obj] /\ affected \subseteq IslandId
      /\ pendingNew \in [Peer -> Obj \cup {NoObj}]
  BY DEF Placed, Sound, TypeInv, TypeOK
<1>1. UNCHANGED flushVars
  BY DEF Callback, NewPeerPosition, KnownPeerPosition, DisconnectPending, DisconnectAssigned
<1>2. /\ UNCHANGED <<pc, group, limbo, affected, done, queue, targets, merging, tried>>
      /\ PhasesLeft' = PhasesLeft
  BY <1>1 DEF flushVars, callVars, splitVars, loopVars, mergeVars, PhasesLeft
<1>3. ASSUME NotPassed' \subseteq NotPassed, NotSplit' \subseteq NotSplit
      PROVE  Less(WorkLeft', WorkLeft) \/ WorkLeft' = WorkLeft
  <2>1. CASE NotPassed' # NotPassed
    BY <1>2, <1>3, <2>1, LessWork DEF Shrinks
  <2>2. CASE NotPassed' = NotPassed /\ NotSplit' # NotSplit
    BY <1>2, <1>3, <2>2, LessWork DEF Shrinks
  <2>3. CASE NotPassed' = NotPassed /\ NotSplit' = NotSplit
    BY <1>2, <2>3 DEF WorkLeft
  <2> QED
    BY <2>1, <2>2, <2>3
<1>4. ASSUME \A i \in IslandId : members'[i] \subseteq members[i]
      PROVE  NotSplit' \subseteq NotSplit
  <2>1. CASE pc = "createSplit"
    BY <1>0, <1>2, <1>4, <2>1, NotSplitSet, NotSplitAfter
  <2>2. CASE pc # "createSplit"
    BY <1>2, <2>2 DEF Awaiting
  <2> QED
    BY <2>1, <2>2
<1>5. ASSUME NEW p \in Peer, NEW x \in Pos, NEW r \in Preference, NewPeerPosition(p, x, r)
      PROVE  \/ Less(WorkLeft', WorkLeft)
             \/ WorkLeft' = WorkLeft
             \/ pc = "createNew" /\ PeerJoins
  <2>1. /\ pendingNew' = [pendingNew EXCEPT ![p] = NewObject(p)] /\ NewObject(p) # NoObj
        /\ UNCHANGED <<visited, members>>
    BY <1>5, NewObjectIsFree, Constants DEF NewPeerPosition, islandVars
  <2>2. CASE pendingNew[p] = NoObj
    <3>1. PeerJoins
      BY <1>0, <2>1, <2>2 DEF PeerJoins
    <3>2. CASE pc # "createNew"
      <4>1. NotPassed' = NotPassed
        BY <1>2, <3>2 DEF Awaiting
      <4> QED
        BY <1>3, <1>4, <2>1, <4>1
    <3> QED
      BY <3>1, <3>2
  <2>3. CASE pendingNew[p] # NoObj
    <3>1. \A q \in Peer : pendingNew'[q] # NoObj <=> pendingNew[q] # NoObj
      BY <1>0, <2>1, <2>3
    <3>2. NotPassed' = NotPassed
      BY <1>2, <2>1, <3>1 DEF Awaiting
    <3> QED
      BY <1>3, <1>4, <2>1, <3>2
  <2> QED
    BY <2>2, <2>3
<1>6. ASSUME NEW p \in Peer, DeletePending(p) PROVE NotPassed' \subseteq NotPassed
  <2>1. \A q \in Peer : q \notin visited' /\ pendingNew'[q] # NoObj =>
                          q \notin visited /\ pendingNew[q] # NoObj
    BY <1>0, <1>6 DEF DeletePending
  <2> QED
    BY <1>2, <2>1 DEF Awaiting
<1>7. ASSUME NEW p \in Peer, NEW x \in Pos, NEW r \in Preference, KnownPeerPosition(p, x, r)
      PROVE  Less(WorkLeft', WorkLeft) \/ WorkLeft' = WorkLeft
  <2>1. UNCHANGED <<pendingNew, visited, members>>
    BY <1>7 DEF KnownPeerPosition
  <2>2. NotPassed' = NotPassed
    BY <1>2, <2>1 DEF Awaiting
  <2> QED
    BY <1>3, <1>4, <2>1, <2>2
<1>8. ASSUME NEW p \in Peer, DisconnectPending(p)
      PROVE  Less(WorkLeft', WorkLeft) \/ WorkLeft' = WorkLeft
  BY <1>3, <1>4, <1>6, <1>8 DEF DisconnectPending, islandVars
<1>9. ASSUME NEW p \in Peer, DisconnectAssigned(p)
      PROVE  Less(WorkLeft', WorkLeft) \/ WorkLeft' = WorkLeft
  <2>1. PICK left \in Spliced(members[home[peers[p]]], p) :
          members' = [members EXCEPT ![home[peers[p]]] = left]
    BY <1>9 DEF DisconnectAssigned
  <2>2. left \subseteq members[home[peers[p]]]
    BY <2>1 DEF Spliced
  <2>3. \A i \in IslandId : members'[i] \subseteq members[i]
    BY <1>0, <2>1, <2>2
  <2> QED
    BY <1>3, <1>4, <1>6, <1>9, <2>3 DEF DisconnectAssigned
<1> QED
  BY <1>1, <1>5, <1>7, <1>8, <1>9 DEF Callback

\* A flush that does not wait for joining peers comes to its end: whatever it
\* does, whoever is refused, leaves or moves and whichever calls reject, each of
\* its steps leaves less to do.
THEOREM EveryFlushAdvances == Spec => FlushAdvances
<1> DEFINE Advances ==
      pc \notin {"idle", "returned"} =>
        \/ Less(WorkLeft', WorkLeft)
        \/ UNCHANGED flushVars /\ (WorkLeft' = WorkLeft \/ (pc = "createNew" /\ PeerJoins))
<1>1. ASSUME Placed, SplittingInv, Next, pc \notin {"idle", "returned"} PROVE Advances
  <2>1. ~ BeginFlush /\ ~ Report /\ ~ SkipReport
    BY <1>1 DEF BeginFlush, Report, SkipReport
  <2>2. TypeInv
    BY <1>1 DEF Placed, Sound
  <2>3. CASE Step
    BY <1>1, <2>2, <2>3, FirstPhaseAdvances, SecondPhaseAdvances, ThirdPhaseAdvances DEF Step
  <2>4. CASE Answer
    <3>1. ASSUME NEW granted, CreateIsland(granted) PROVE pc \in {"createNew", "createSplit"}
      BY <3>1 DEF CreateIsland
    <3> QED
      BY <1>1, <2>2, <2>4, <3>1, FirstPhaseAdvances, SecondPhaseAdvances, ThirdPhaseAdvances
         DEF Answer
  <2>5. CASE Callback
    <3>1. pc \in Awaiting
      BY <1>1, <2>5 DEF Callback, NewPeerPosition, KnownPeerPosition, DisconnectPending,
         DisconnectAssigned, CallbacksRun
    <3> QED
      BY <1>1, <2>5, <3>1, CallbacksGiveNoWork
  <2> QED
    BY <1>1, <2>1, <2>3, <2>4, <2>5 DEF Next
<1>2. Placed /\ SplittingInv /\ [Next]_vars => [Advances]_vars
  BY <1>1
<1>3. Init => SplittingInv
  BY DEF Init, SplittingInv
<1>4. Placed /\ SplittingInv /\ [Next]_vars => Placed' /\ SplittingInv'
  BY NextPlaced, NextSplitting DEF Placed, Sound
<1> QED
  BY <1>2, <1>3, <1>4, InitPlaced, PTL DEF Spec, FlushAdvances

----------------------------------------------------------------------------
(* Neither ghosts nor orphans: if no transport call of a split rejects, an  *)
(* island lists exactly the peers the engine knows.  If one does, both fail *)
(* (run ghost_member).                                                      *)

\* An array holds the objects that the engine knows their peers by.  Who is in
\* transit may be gone by now, but not replaced.
KnownInv ==
  /\ \A i \in IslandId : \A o \in members[i] : peers[IdOf[o]] = o
  /\ \A o \in InTransit : peers[IdOf[o]] \in {o, NoObj}

\* Who is known is in transit or in an array.
SomewhereInv ==
  \A p \in Peer : peers[p] # NoObj =>
    peers[p] \in InTransit \/ \E i \in IslandId : peers[p] \in members[i]

RefInv == Placed /\ KnownInv /\ SomewhereInv

\* Objects in arrays and in transit are objects, of peers.
LEMMA ReferredObjects ==
  ASSUME Sound
  PROVE  /\ \A i \in IslandId : \A o \in members[i] : o \in Obj /\ IdOf[o] \in Peer /\ o # NoObj
         /\ \A o \in InTransit : o \in Obj /\ IdOf[o] \in Peer /\ o # NoObj
         /\ \A p \in Peer : peers[p] # NoObj => peers[p] \in Obj
BY PlaceTypes, Constants

LEMMA NewPeerRefs ==
  ASSUME RefInv, NEW p \in Peer, NEW x \in Pos, NEW r \in Preference,
         NewPeerPosition(p, x, r) \/ KnownPeerPosition(p, x, r)
  PROVE  KnownInv' /\ SomewhereInv'
<1>1. UNCHANGED <<peers, members, group, limbo>>
  BY DEF NewPeerPosition, KnownPeerPosition, islandVars, mapVars, callVars, splitVars, flushVars
<1> QED
  BY <1>1 DEF RefInv, KnownInv, SomewhereInv, InTransit

\* A peer without an island is on nobody's list.
LEMMA DisconnectPendingRefs ==
  ASSUME RefInv, NEW p \in Peer, DisconnectPending(p)
  PROVE  KnownInv' /\ SomewhereInv'
<1>1. /\ UNCHANGED <<members, group, limbo>>
      /\ peers' = [peers EXCEPT ![p] = NoObj]
      /\ ~ Assigned(p)
  BY DEF DisconnectPending, DeletePending, islandVars, callVars, splitVars, flushVars
<1>2. /\ \A q \in Peer : peers'[q] = IF q = p THEN NoObj ELSE peers[q]
      /\ InTransit' = InTransit
  BY <1>1, PlaceTypes DEF RefInv, Placed, InTransit
<1>3. ASSUME NEW i \in IslandId, NEW o \in members[i] PROVE peers'[IdOf[o]] = o
  <2>1. o # NoObj /\ IdOf[o] \in Peer /\ peers[IdOf[o]] = o /\ home[o] = i
    BY ReferredObjects DEF RefInv, Placed, KnownInv, PlaceInv, ListedInv
  <2> QED
    BY <1>1, <1>2, <2>1, Constants DEF Assigned
<1>4. KnownInv'
  BY <1>1, <1>2, <1>3, ReferredObjects DEF RefInv, Placed, KnownInv
<1>5. SomewhereInv'
  BY <1>1, <1>2 DEF RefInv, SomewhereInv
<1> QED
  BY <1>4, <1>5

\* A peer with an island leaves its array, or is in transit and in none.
LEMMA DisconnectAssignedRefs ==
  ASSUME RefInv, NEW p \in Peer, DisconnectAssigned(p)
  PROVE  KnownInv' /\ SomewhereInv'
<1> USE DEF islandVars, objVars, callVars, splitVars, flushVars
<1> DEFINE i == home[peers[p]]
<1>1. /\ UNCHANGED <<group, limbo>>
      /\ peers' = [peers EXCEPT ![p] = NoObj]
      /\ peers[p] # NoObj /\ i \in IslandId /\ IdOf[peers[p]] = p
  BY PlaceTypes DEF DisconnectAssigned, Assigned, RefInv, Placed, PlaceInv, KeysInv
<1>2. PICK left \in Spliced(members[i], p) : members' = [members EXCEPT ![i] = left]
  BY DEF DisconnectAssigned
<1>3. ASSUME NEW j \in IslandId, NEW o \in members[j], IdOf[o] = p
      PROVE  o = peers[p] /\ j = i
  BY <1>3 DEF RefInv, KnownInv, Placed, PlaceInv, ListedInv
<1>4. left = members[i] \ {peers[p]}
  <2>1. CASE p \in Ids(members[i])
    <3>1. PICK m \in members[i] : IdOf[m] = p /\ left = members[i] \ {m}
      BY <1>2, <2>1 DEF Spliced
    <3> QED
      BY <1>1, <1>3, <3>1
  <2>2. CASE p \notin Ids(members[i])
    <3>1. left = members[i]
      BY <1>2, <2>2 DEF Spliced
    <3> QED
      BY <1>1, <2>2, <3>1 DEF Ids
  <2> QED
    BY <2>1, <2>2
<1>5. /\ \A j \in IslandId : members'[j] = members[j] \ {peers[p]}
      /\ \A q \in Peer : peers'[q] = IF q = p THEN NoObj ELSE peers[q]
      /\ InTransit' = InTransit
  <2>1. ASSUME NEW j \in IslandId, j # i PROVE peers[p] \notin members[j]
    BY <1>1, <1>3, <2>1
  <2>2. \A j \in IslandId : members'[j] = IF j = i THEN left ELSE members[j]
    BY <1>1, <1>2, PlaceTypes DEF RefInv, Placed
  <2>3. \A j \in IslandId : members'[j] = members[j] \ {peers[p]}
    BY <1>4, <2>1, <2>2
  <2> QED
    BY <1>1, <2>3, PlaceTypes DEF RefInv, Placed, InTransit
<1>6. KnownInv'
  <2>1. ASSUME NEW j \in IslandId, NEW o \in members'[j] PROVE peers'[IdOf[o]] = o
    <3>1. o \in members[j] /\ o # peers[p]
      BY <1>5, <2>1
    <3>2. peers[IdOf[o]] = o /\ IdOf[o] \in Peer
      BY <3>1, ReferredObjects DEF RefInv, Placed, KnownInv
    <3> QED
      BY <1>5, <3>1, <3>2
  <2>2. ASSUME NEW o \in InTransit PROVE peers'[IdOf[o]] \in {o, NoObj}
    BY <1>5, ReferredObjects DEF RefInv, Placed, KnownInv
  <2> QED
    BY <1>5, <2>1, <2>2 DEF KnownInv
<1>7. SomewhereInv'
  <2> SUFFICES ASSUME NEW q \in Peer, peers'[q] # NoObj
               PROVE  peers'[q] \in InTransit \/ \E j \in IslandId : peers'[q] \in members'[j]
    BY <1>5 DEF SomewhereInv
  <2>1. q # p /\ peers'[q] = peers[q] /\ peers[q] # NoObj
    BY <1>5
  <2>2. peers[q] # peers[p]
    BY <1>1, <2>1 DEF RefInv, Placed, PlaceInv, KeysInv
  <2> QED
    BY <1>5, <2>1, <2>2 DEF RefInv, SomewhereInv
<1> QED
  BY <1>6, <1>7

\* An object outside the group is not the one of any peer of the group.
LEMMA OthersOfGroup ==
  ASSUME RefInv, NEW o \in Obj, o # NoObj, peers[IdOf[o]] = o, NEW S, o \notin S,
         \A m \in S : peers[IdOf[m]] \in {m, NoObj}
  PROVE  IdOf[o] \notin Ids(S)
BY DEF Ids

LEMMA CreateIslandRefs ==
  ASSUME RefInv, NEW granted, CreateIsland(granted)
  PROVE  KnownInv' /\ SomewhereInv'
<1> USE DEF splitVars
<1> DEFINE active == Active(group, granted)
<1>1. /\ room \in IslandId /\ room \notin islands
      /\ peers' = Evict(group, granted)
      /\ members' = [members EXCEPT ![room] = active]
      /\ group' = {} /\ limbo' = limbo
  BY DEF CreateIsland, RefInv, Placed, Sound, TypeInv, LocalsInv, IdInv
<1>2. /\ \A p \in Peer : peers'[p] = IF p \in Ids(group) \ granted THEN NoObj ELSE peers[p]
      /\ \A i \in IslandId : members'[i] = IF i = room THEN active ELSE members[i]
      /\ InTransit' = UNION limbo
  BY <1>1, Evicted, PlaceTypes DEF RefInv, Placed, InTransit
<1>3. active \subseteq group /\ group \subseteq InTransit /\ UNION limbo \subseteq InTransit
  BY DEF Active, InTransit
<1>4. ASSUME NEW o \in active PROVE peers'[IdOf[o]] = o
  <2>1. peers[IdOf[o]] = o /\ IdOf[o] \in Peer /\ IdOf[o] \in granted
    BY <1>3, ReferredObjects DEF Active, RefInv, Placed, KnownInv
  <2> QED
    BY <1>2, <2>1
<1>5. ASSUME NEW i \in IslandId, NEW o \in members[i] PROVE peers'[IdOf[o]] = o
  <2>1. o \in Obj /\ IdOf[o] \in Peer /\ o # NoObj /\ peers[IdOf[o]] = o /\ o \notin group
    BY <1>3, ReferredObjects DEF RefInv, KnownInv, Placed, PlaceInv, TransitInv
  <2>2. IdOf[o] \notin Ids(group)
    BY <1>3, <2>1, OthersOfGroup DEF RefInv, KnownInv
  <2> QED
    BY <1>2, <2>1, <2>2
<1>6. KnownInv'
  <2>1. \A o \in UNION limbo : peers'[IdOf[o]] \in {o, NoObj}
    BY <1>2, <1>3, ReferredObjects DEF RefInv, Placed, KnownInv
  <2> QED
    BY <1>2, <1>4, <1>5, <2>1 DEF KnownInv
<1>7. SomewhereInv'
  <2> SUFFICES ASSUME NEW p \in Peer, peers'[p] # NoObj
               PROVE  peers'[p] \in InTransit' \/ \E i \in IslandId : peers'[p] \in members'[i]
    BY DEF SomewhereInv
  <2>1. /\ peers'[p] = peers[p] /\ peers[p] # NoObj /\ p \notin Ids(group) \ granted
        /\ IdOf[peers[p]] = p
    BY <1>2 DEF RefInv, Placed, PlaceInv, KeysInv
  <2>2. CASE peers[p] \in group
    <3>1. peers[p] \in active
      BY <2>1, <2>2 DEF Active, Ids
    <3> QED
      BY <1>1, <1>2, <2>1, <3>1
  <2>3. CASE peers[p] \in UNION limbo
    BY <1>2, <2>1, <2>3
  <2>4. CASE \E i \in IslandId : peers[p] \in members[i]
    <3>1. members[room] = {}
      BY <1>1 DEF RefInv, Placed, PlaceInv, ListedInv
    <3> QED
      BY <1>2, <2>1, <2>4, <3>1
  <2> QED
    BY <2>1, <2>2, <2>3, <2>4 DEF RefInv, SomewhereInv, InTransit
<1> QED
  BY <1>6, <1>7

LEMMA MergeIntoRefs ==
  ASSUME RefInv, NEW granted, MergeInto(granted)
  PROVE  KnownInv' /\ SomewhereInv'
<1> USE DEF splitVars
<1> DEFINE active == Active(members[merging], granted)
<1>1. /\ pc = "mergeInto" /\ room \in IslandId /\ merging \in IslandId /\ room # merging
      /\ peers' = Evict(members[merging], granted)
      /\ members' = [members EXCEPT ![room] = @ \cup active, ![merging] = {}]
      /\ UNCHANGED <<group, limbo>>
  BY PlaceTypes DEF MergeInto, StillMergeable, RefInv, Placed, PlaceInv, TargetsInv
<1>2. /\ \A p \in Peer :
           peers'[p] = IF p \in Ids(members[merging]) \ granted THEN NoObj ELSE peers[p]
      /\ \A i \in IslandId : members'[i] = IF i = merging THEN {}
                                           ELSE IF i = room THEN members[room] \cup active
                                           ELSE members[i]
  BY <1>1, Evicted, PlaceTypes DEF RefInv, Placed
<1>3. InTransit' = {} /\ InTransit = {}
  BY <1>1 DEF InTransit, RefInv, Placed, Sound, SizeInv, PlaceInv, TransitInv
<1>4. ASSUME NEW o \in active
      PROVE  peers'[IdOf[o]] = o
  <2>1. o \in members[merging] /\ IdOf[o] \in granted
    BY DEF Active
  <2>2. peers[IdOf[o]] = o /\ IdOf[o] \in Peer
    BY <1>1, <2>1, ReferredObjects DEF RefInv, Placed, KnownInv
  <2> QED
    BY <1>2, <2>1, <2>2
<1>5. ASSUME NEW i \in IslandId, i # merging, NEW o \in members[i]
      PROVE  peers'[IdOf[o]] = o
  <2>1. o \in Obj /\ IdOf[o] \in Peer /\ o # NoObj /\ peers[IdOf[o]] = o
    BY ReferredObjects DEF RefInv, Placed, KnownInv
  <2>2. o \notin members[merging]
    BY <1>1, <1>5 DEF RefInv, Placed, PlaceInv, ListedInv
  <2>3. IdOf[o] \notin Ids(members[merging])
    BY <1>1, <2>1, <2>2, OthersOfGroup DEF RefInv, KnownInv
  <2> QED
    BY <1>2, <2>1, <2>3
<1>6. KnownInv'
  <2>1. ASSUME NEW i \in IslandId, NEW o \in members'[i] PROVE peers'[IdOf[o]] = o
    <3>1. i # merging /\ (o \in members[i] \/ o \in active)
      BY <1>2
    <3> QED
      BY <1>4, <1>5, <3>1
  <2> QED
    BY <1>3, <2>1 DEF KnownInv
<1>7. SomewhereInv'
  <2> SUFFICES ASSUME NEW p \in Peer, peers'[p] # NoObj
               PROVE  \E i \in IslandId : peers'[p] \in members'[i]
    BY DEF SomewhereInv
  <2>1. /\ peers'[p] = peers[p] /\ peers[p] # NoObj /\ p \notin Ids(members[merging]) \ granted
        /\ IdOf[peers[p]] = p
    BY <1>2 DEF RefInv, Placed, PlaceInv, KeysInv
  <2>2. CASE peers[p] \in members[merging]
    <3>1. peers[p] \in active
      BY <2>1, <2>2 DEF Active, Ids
    <3>2. members'[room] = members[room] \cup active
      BY <1>1, <1>2
    <3> QED
      BY <1>1, <2>1, <3>1, <3>2
  <2>3. CASE \E i \in IslandId : i # merging /\ peers[p] \in members[i]
    BY <1>2, <2>1, <2>3
  <2> QED
    BY <1>3, <2>1, <2>2, <2>3 DEF RefInv, SomewhereInv
<1> QED
  BY <1>6, <1>7

LEMMA PlaceNewPeerRefs ==
  ASSUME RefInv, NEW p \in Peer, PlaceNewPeer(p)
  PROVE  KnownInv' /\ SomewhereInv'
<1> USE DEF islandVars, splitVars
<1> DEFINE o == pendingNew[p]
<1>1. /\ pc = "new" /\ members' = members
      /\ group' = {o} /\ limbo' = limbo
      /\ peers' = [peers EXCEPT ![p] = o]
      /\ o # NoObj /\ IdOf[o] = p /\ peers[p] = NoObj
  BY DEF PlaceNewPeer, CallCreateIsland, RefInv, Placed, PlaceInv, KeysInv, PendingInv
<1>2. \A q \in Peer : peers'[q] = IF q = p THEN o ELSE peers[q]
  BY <1>1, PlaceTypes DEF RefInv, Placed
<1>3. InTransit = {} /\ InTransit' = {o}
  BY <1>1 DEF RefInv, Placed, Sound, SizeInv, PlaceInv, TransitInv, InTransit
<1>4. ASSUME NEW i \in IslandId, NEW m \in members[i] PROVE peers'[IdOf[m]] = m
  BY <1>1, <1>2, ReferredObjects DEF RefInv, Placed, KnownInv
<1>5. KnownInv'
  BY <1>1, <1>2, <1>3, <1>4 DEF KnownInv
<1>6. SomewhereInv'
  BY <1>1, <1>2, <1>3 DEF RefInv, SomewhereInv
<1> QED
  BY <1>5, <1>6

LEMMA SplitIslandRefs ==
  ASSUME RefInv, NEW i \in affected, SplitIsland(i)
  PROVE  KnownInv' /\ SomewhereInv'
<1>1. PICK g \in Biggest(Groups(i)) :
        members' = [members EXCEPT ![i] = g] /\ limbo' = Groups(i) \ {g}
  BY DEF SplitIsland
<1>2. /\ pc = "split" /\ i \in IslandId /\ UNCHANGED <<peers, group>>
      /\ \A j \in IslandId : members'[j] = IF j = i THEN g ELSE members[j]
  BY <1>1, PlaceTypes DEF SplitIsland, RefInv, Placed, mapVars, callVars
<1>3. InTransit = {} /\ InTransit' = UNION (Groups(i) \ {g})
  BY <1>1, <1>2 DEF RefInv, Placed, Sound, SizeInv, PlaceInv, TransitInv, InTransit
<1>4. g \in Groups(i) /\ UNION Groups(i) = members[i]
  BY PeerGroupsPartition DEF Biggest, Groups
<1>5. members[i] = g \cup InTransit'
  BY <1>3, <1>4
<1> QED
  BY <1>2, <1>3, <1>5 DEF RefInv, KnownInv, SomewhereInv

LEMMA PlaceGroupRefs ==
  ASSUME RefInv, NEW g \in limbo, PlaceGroup(g)
  PROVE  KnownInv' /\ SomewhereInv'
<1>1. /\ pc = "groups" /\ group' = g /\ limbo' = limbo \ {g} /\ UNCHANGED <<peers, members>>
  BY DEF PlaceGroup, CallCreateIsland, mapVars, islandVars
<1>2. InTransit' = InTransit
  BY <1>1 DEF RefInv, Placed, Sound, SizeInv, InTransit
<1> QED
  BY <1>1, <1>2 DEF RefInv, KnownInv, SomewhereInv

LEMMA NewPeerFailsRefs ==
  ASSUME RefInv, NewPeerFails
  PROVE  KnownInv' /\ SomewhereInv'
<1>1. /\ pc = "createNew" /\ group' = {} /\ limbo' = limbo /\ limbo = {}
      /\ peers' = Evict(group, {}) /\ members' = members
  BY DEF NewPeerFails, islandVars, splitVars, RefInv, Placed, PlaceInv, TransitInv
<1>2. \A p \in Peer : peers'[p] = IF p \in Ids(group) THEN NoObj ELSE peers[p]
  BY <1>1, Evicted
<1>3. InTransit = group /\ InTransit' = {}
  BY <1>1 DEF InTransit
<1>4. ASSUME NEW i \in IslandId, NEW o \in members[i] PROVE peers'[IdOf[o]] = o
  <2>1. o \in Obj /\ IdOf[o] \in Peer /\ o # NoObj /\ peers[IdOf[o]] = o /\ o \notin group
    BY <1>3, ReferredObjects DEF RefInv, KnownInv, Placed, PlaceInv, TransitInv
  <2>2. IdOf[o] \notin Ids(group)
    BY <1>3, <2>1, OthersOfGroup DEF RefInv, KnownInv
  <2> QED
    BY <1>2, <2>1, <2>2
<1>5. KnownInv'
  BY <1>1, <1>3, <1>4 DEF KnownInv
<1>6. SomewhereInv'
  <2> SUFFICES ASSUME NEW p \in Peer, peers'[p] # NoObj
               PROVE  \E i \in IslandId : peers'[p] \in members'[i]
    BY DEF SomewhereInv
  <2>1. peers'[p] = peers[p] /\ p \notin Ids(group) /\ IdOf[peers[p]] = p
    BY <1>2 DEF RefInv, Placed, PlaceInv, KeysInv
  <2>2. peers[p] \notin group
    BY <2>1 DEF Ids
  <2> QED
    BY <1>1, <1>3, <2>1, <2>2 DEF RefInv, SomewhereInv
<1> QED
  BY <1>5, <1>6

LEMMA NextRefs ==
  ASSUME "createSplit" \notin TransportFails
  PROVE  RefInv /\ [Next]_vars => RefInv'
<1> DEFINE Refs == KnownInv /\ SomewhereInv
<1> USE DEF mapVars, islandVars, objVars, callVars, splitVars, loopVars, mergeVars, flushVars
<1>1. ASSUME RefInv, UNCHANGED <<peers, members, group, limbo>> PROVE Refs'
  BY <1>1 DEF RefInv, KnownInv, SomewhereInv, InTransit
<1>2. ASSUME RefInv, Callback PROVE Refs'
  BY <1>2, NewPeerRefs, DisconnectPendingRefs, DisconnectAssignedRefs DEF Callback
<1>3. ASSUME RefInv, Answer PROVE Refs'
  <2>1. ~ GroupFails /\ (MergeFails => UNCHANGED <<peers, members, group, limbo>>)
    BY DEF GroupFails, MergeFails
  <2> QED
    BY <1>1, <1>3, <2>1, CreateIslandRefs, MergeIntoRefs, NewPeerFailsRefs DEF Answer
<1>4. ASSUME RefInv, Step PROVE Refs'
  <2>1. Step => \/ \E p \in Peer : PlaceNewPeer(p)
                \/ \E i \in affected : SplitIsland(i)
                \/ \E g \in limbo : PlaceGroup(g)
                \/ UNCHANGED <<peers, members, group, limbo>>
    BY DEF Step, AllPlaced, KeepIsland, EndSplit, AllSplit, PassIsland, MergeIslands,
           SkipQueued, TakeQueued, CallMerge, TargetFull, KeepApart, EndMerge, Return
  <2> QED
    BY <1>1, <1>4, <2>1, PlaceNewPeerRefs, SplitIslandRefs, PlaceGroupRefs
<1>5. ASSUME RefInv, BeginFlush \/ Report \/ SkipReport \/ UNCHANGED vars PROVE Refs'
  BY <1>1, <1>5 DEF BeginFlush, Report, SkipReport, vars
<1>6. RefInv /\ [Next]_vars => Refs'
  BY <1>2, <1>3, <1>4, <1>5 DEF Next
<1>7. RefInv /\ [Next]_vars => Placed'
  BY NextPlaced DEF RefInv
<1> QED
  BY <1>6, <1>7 DEF RefInv

LEMMA InitRefs == Init => RefInv
<1>1. Init => KnownInv /\ SomewhereInv
  BY DEF Init, KnownInv, SomewhereInv, InTransit
<1> QED
  BY <1>1, InitPlaced DEF RefInv

\* An island never lists a ghost nor somebody else's peer, whatever runs
\* during the transport calls, as long as none of a split rejects.
THEOREM NoGhosts ==
  ASSUME "createSplit" \notin TransportFails
  PROVE  Spec => []MembersAreKnown
<1>1. RefInv => MembersAreKnown
  BY PlaceTypes DEF RefInv, Placed, PlaceInv, ListedInv, KnownInv, MembersAreKnown
<1>2. RefInv /\ [Next]_vars => RefInv'
  BY NextRefs
<1> QED
  BY <1>1, <1>2, InitRefs, PTL DEF Spec

\* Nor does the engine ever lose the place of a peer it knows.
THEOREM NoOrphans ==
  ASSUME "createSplit" \notin TransportFails
  PROVE  Spec => []EveryPeerPlaced
<1>1. RefInv => EveryPeerPlaced
  <2> SUFFICES ASSUME RefInv, NEW p \in Peer, peers[p] # NoObj
               PROVE  \/ peers[p] \in group \cup UNION limbo
                      \/ \E i \in islands : peers[p] \in members[i]
    BY DEF EveryPeerPlaced
  <2> QED
    BY DEF RefInv, SomewhereInv, InTransit, Placed, PlaceInv, ListedInv
<1>2. RefInv /\ [Next]_vars => RefInv'
  BY NextRefs
<1> QED
  BY <1>1, <1>2, InitRefs, PTL DEF Spec

----------------------------------------------------------------------------
(* The island of a known peer, and the update that says so                  *)

\* createIsland moves the objects that are known, and nobody else.
LEMMA CreateIslandMoves ==
  ASSUME RefInv, NEW granted, CreateIsland(granted), NEW p \in Peer
  PROVE  /\ peers'[p] \in {peers[p], NoObj}
         /\ \A o \in Obj : home'[o] = IF o \in Active(group, granted) THEN room ELSE home[o]
         /\ \A o \in Active(group, granted) : peers[IdOf[o]] = o
         /\ updates'[p] = IF p \in Ids(Active(group, granted)) THEN ChangeTo(room) ELSE updates[p]
         /\ room \in IslandId
         /\ pc' # "returned"
<1>1. /\ peers' = Evict(group, granted) /\ room \in IslandId /\ pc' # "returned"
      /\ SetPeersIsland(room, Active(group, granted))
  BY DEF CreateIsland, AfterCreate, RefInv, Placed, Sound, TypeInv, LocalsInv
<1>2. \A o \in Active(group, granted) : peers[IdOf[o]] = o
  <2> SUFFICES ASSUME NEW o \in Active(group, granted) PROVE peers[IdOf[o]] = o
    OBVIOUS
  <2>1. o \in InTransit /\ peers[IdOf[o]] # NoObj
    BY DEF Active, InTransit
  <2> QED
    BY <2>1 DEF RefInv, KnownInv
<1> QED
  BY <1>1, <1>2, Evicted DEF SetPeersIsland

\* mergeIntoIfPossible moves the objects of the island that are not refused.
LEMMA MergeIntoMoves ==
  ASSUME RefInv, NEW granted, MergeInto(granted), NEW p \in Peer
  PROVE  /\ peers'[p] \in {peers[p], NoObj}
         /\ \A o \in Obj :
              home'[o] = IF o \in Active(members[merging], granted) THEN room ELSE home[o]
         /\ \A o \in Active(members[merging], granted) : peers[IdOf[o]] = o
         /\ updates'[p] = IF p \in Ids(Active(members[merging], granted)) THEN ChangeTo(room)
                          ELSE updates[p]
         /\ room \in IslandId
         /\ pc' # "returned"
<1>1. /\ peers' = Evict(members[merging], granted) /\ pc' # "returned"
      /\ SetPeersIsland(room, Active(members[merging], granted))
      /\ room \in IslandId /\ merging \in IslandId
  BY PlaceTypes DEF MergeInto, StillMergeable, RefInv, Placed
<1>2. \A o \in Active(members[merging], granted) : peers[IdOf[o]] = o
  BY <1>1 DEF Active, RefInv, KnownInv
<1> QED
  BY <1>1, <1>2, Evicted DEF SetPeersIsland

\* What a step of the flush does to a peer that is known after it: it keeps
\* its island and its update, or gets both, or has just become known.
LEMMA FlushMoves ==
  ASSUME "createSplit" \notin TransportFails, RefInv, Step \/ Answer,
         NEW p \in Peer, peers'[p] # NoObj
  PROVE  \/ /\ peers'[p] = peers[p] /\ home'[peers[p]] = home[peers[p]]
            /\ updates'[p] = updates[p] \/ Return
         \/ /\ peers'[p] = peers[p] /\ home'[peers[p]] \in IslandId
            /\ updates'[p] = ChangeTo(home'[peers[p]])
            /\ pc' # "returned"
         \/ /\ \E q \in Peer : PlaceNewPeer(q)
            /\ home'[peers'[p]] = NoIsland
<1> USE DEF mapVars, islandVars, objVars, callVars, splitVars, loopVars, mergeVars
<1> DEFINE Kept == peers'[p] = peers[p] /\ home'[peers[p]] = home[peers[p]] /\ updates'[p] = updates[p]
           Moved == /\ peers'[p] = peers[p] /\ home'[peers[p]] \in IslandId
                    /\ updates'[p] = ChangeTo(home'[peers[p]]) /\ pc' # "returned"
<1>1. ASSUME NEW active \in SUBSET Obj, peers'[p] \in {peers[p], NoObj}, room \in IslandId,
             \A o \in Obj : home'[o] = IF o \in active THEN room ELSE home[o],
             \A o \in active : peers[IdOf[o]] = o,
             updates'[p] = IF p \in Ids(active) THEN ChangeTo(room) ELSE updates[p],
             pc' # "returned"
      PROVE  Kept \/ Moved
  <2>1. peers'[p] = peers[p] /\ peers[p] \in Obj /\ IdOf[peers[p]] = p
    BY <1>1, PlaceTypes DEF RefInv, Placed, PlaceInv, KeysInv
  <2>2. peers[p] \in active <=> p \in Ids(active)
    BY <1>1, <2>1 DEF Ids
  <2> QED
    BY <1>1, <2>1, <2>2
<1>2. ASSUME NEW granted, CreateIsland(granted) PROVE Kept \/ Moved
  <2>1. Active(group, granted) \in SUBSET Obj
    BY PlaceTypes DEF Active, RefInv, Placed
  <2> QED
    BY <1>1, <1>2, <2>1, CreateIslandMoves
<1>3. ASSUME NEW granted, merging # NoIsland, MergeInto(granted) PROVE Kept \/ Moved
  <2>1. merging \in IslandId
    BY <1>3, PlaceTypes DEF MergeInto, StillMergeable, RefInv, Placed
  <2>2. Active(members[merging], granted) \in SUBSET Obj
    BY <2>1, PlaceTypes DEF Active, RefInv, Placed
  <2> QED
    BY <1>1, <1>3, <2>2, MergeIntoMoves
<1>4. NewPeerFails => Kept
  BY Evicted DEF NewPeerFails
<1>5. ~ GroupFails
  BY DEF GroupFails
<1>6. MergeFails => Kept
  BY DEF MergeFails
<1>7. ASSUME NEW q \in Peer, PlaceNewPeer(q) PROVE Kept \/ home'[peers'[p]] = NoIsland
  <2>1. /\ peers' = [peers EXCEPT ![q] = pendingNew[q]]
        /\ UNCHANGED <<home, updates>>
        /\ home[pendingNew[q]] = NoIsland
    BY <1>7 DEF PlaceNewPeer, RefInv, Placed, PlaceInv, PendingInv
  <2> QED
    BY <2>1, PlaceTypes DEF RefInv, Placed
<1>8. Return => UNCHANGED <<peers, home>>
  BY DEF Return
<1>9. ASSUME Step PROVE (\E q \in Peer : PlaceNewPeer(q)) \/ Return \/ UNCHANGED <<peers, home, updates>>
  BY <1>9 DEF Step, AllPlaced, KeepIsland, SplitIsland, PlaceGroup, EndSplit, AllSplit, PassIsland,
           MergeIslands, SkipQueued, TakeQueued, CallMerge, TargetFull, KeepApart, EndMerge
<1>10. CASE Answer
  BY <1>2, <1>3, <1>4, <1>5, <1>6, <1>10 DEF Answer
<1>11. CASE Step
  BY <1>7, <1>8, <1>9, <1>11
<1> QED
  BY <1>10, <1>11

----------------------------------------------------------------------------
(* Heartbeats of peers that wait for their first island *)

\* A key that the flush has passed is of a peer that it has taken over into
\* peers, as the object it waited with.
VisitedInv ==
  \A p \in visited \ Bannable : pendingNew[p] # NoObj /\ peers[p] = pendingNew[p]

\* The transport evicts nobody but those that it may refuse.
LEMMA NeverRefusedStay ==
  ASSUME NEW objs, NEW granted \in Answers(Ids(objs)), peers' = Evict(objs, granted)
  PROVE  \A p \in Peer \ Bannable : peers'[p] = peers[p]
BY Evicted DEF Answers

LEMMA NextVisited ==
  ASSUME "createNew" \notin TransportFails, TypeInv, VisitedInv, [Next]_vars
  PROVE  VisitedInv'
<1> USE DEF mapVars, islandVars, objVars, callVars, splitVars, loopVars, mergeVars, flushVars
<1>0. /\ peers \in [Peer -> Obj \cup {NoObj}] /\ pendingNew \in [Peer -> Obj \cup {NoObj}]
      /\ visited \subseteq Peer
  BY DEF TypeInv, TypeOK
<1>1. ASSUME NEW p \in Peer, NEW x \in Pos, NEW r \in Preference, NewPeerPosition(p, x, r)
      PROVE  VisitedInv'
  BY <1>0, <1>1 DEF NewPeerPosition, VisitedInv
<1>2. ASSUME NEW p \in Peer, DisconnectPending(p) \/ DisconnectAssigned(p) PROVE VisitedInv'
  BY <1>0, <1>2 DEF DisconnectPending, DisconnectAssigned, DeletePending, VisitedInv
<1>3. CASE Answer
  <2>1. ASSUME NEW granted \in Answers(Ids(group)), CreateIsland(granted) PROVE VisitedInv'
    BY <1>0, <2>1, NeverRefusedStay DEF CreateIsland, VisitedInv
  <2>2. ASSUME NEW granted \in Answers(Ids(members[merging])), MergeInto(granted)
        PROVE  VisitedInv'
    BY <1>0, <2>2, NeverRefusedStay DEF MergeInto, VisitedInv
  <2>3. MergeFails \/ GroupFails => VisitedInv'
    BY DEF MergeFails, GroupFails, VisitedInv
  <2> QED
    BY <1>3, <2>1, <2>2, <2>3 DEF Answer, NewPeerFails
<1>4. ASSUME NEW p \in Peer, PlaceNewPeer(p) PROVE VisitedInv'
  BY <1>0, <1>4 DEF PlaceNewPeer, VisitedInv
<1>5. AllPlaced => VisitedInv'
  BY DEF AllPlaced, VisitedInv
<1>6. UNCHANGED <<peers, pendingNew, visited>> => VisitedInv'
  BY DEF VisitedInv
<1>7. CASE Callback
  BY <1>1, <1>2, <1>6, <1>7 DEF Callback, KnownPeerPosition
<1>8. CASE Step
  <2>1. Step => \/ \E p \in Peer : PlaceNewPeer(p)
                \/ AllPlaced
                \/ UNCHANGED <<peers, pendingNew, visited>>
    BY DEF Step, AllSplit, EndSplit, KeepIsland, SplitIsland, PlaceGroup, PassIsland,
       MergeIslands, SkipQueued, TakeQueued, CallMerge, TargetFull, KeepApart, EndMerge, Return
  <2> QED
    BY <1>4, <1>5, <1>6, <1>8, <2>1
<1>9. CASE BeginFlush \/ Report \/ SkipReport \/ UNCHANGED vars
  BY <1>6, <1>9 DEF BeginFlush, Report, SkipReport, vars
<1> QED
  BY <1>3, <1>7, <1>8, <1>9 DEF Next

\* What ends the first phase of a flush.
LEMMA FirstPhaseEnds ==
  ASSUME [Next]_vars, pc = "new", pc' = "split"
  PROVE  AllPlaced
BY DEF Next, Step, BeginFlush, Callback, NewPeerPosition, KnownPeerPosition, DisconnectPending,
   DisconnectAssigned, CallbacksRun, Awaiting, PlaceNewPeer, KeepIsland, SplitIsland, PlaceGroup,
   EndSplit, AllSplit, PassIsland, MergeIslands, SkipQueued, TakeQueued, CallMerge, TargetFull,
   KeepApart, EndMerge, Return, Report, SkipReport, Answer, CreateIsland, MergeInto, NewPeerFails,
   GroupFails, MergeFails, AfterCreate, vars, flushVars

\* As long as the transport rejects no call of the first phase, clear() drops no
\* heartbeat of a new peer that is never refused, whoever else is.
THEOREM HeartbeatsKept ==
  ASSUME "createNew" \notin TransportFails
  PROVE  Spec => NoHeartbeatDropped
<1> DEFINE Kept == pc = "new" /\ pc' = "split" =>
                     \A p \in Peer \ Bannable : pendingNew[p] \in {NoObj, peers[p]}
<1>1. Init => VisitedInv
  BY DEF Init, VisitedInv
<1>2. TypeInv /\ VisitedInv /\ [Next]_vars => TypeInv' /\ VisitedInv'
  BY NextTypes, NextVisited
<1>3. VisitedInv /\ [Next]_vars => [Kept]_vars
  BY FirstPhaseEnds DEF AllPlaced, VisitedInv
<1> QED
  BY <1>1, <1>2, <1>3, InitTypes, PTL DEF Spec, NoHeartbeatDropped

----------------------------------------------------------------------------
(* The engine implements IslandAssignment                                   *)

\* What the refinement is proved from: everybody's place, and, where a split
\* makes no ghosts, that there are none.
AssignInv == Placed /\ ("createSplit" \notin TransportFails => RefInv)

LEMMA InitAssign == Init => AssignInv
BY InitPlaced, InitRefs DEF AssignInv

LEMMA NextAssign == AssignInv /\ [Next]_vars => AssignInv'
<1>1. CASE "createSplit" \notin TransportFails
  BY <1>1, NextRefs DEF AssignInv, RefInv
<1>2. CASE "createSplit" \in TransportFails
  BY <1>2, NextPlaced DEF AssignInv
<1> QED
  BY <1>1, <1>2

Refines == Assignment!Next \/ UNCHANGED <<islandOf, givenOut>>

\* The islands of the peers are the same if the objects the engine knows are,
\* and keep their islands.
LEMMA SameIslandOf ==
  ASSUME \A p \in Peer : /\ peers'[p] # NoObj => home'[peers'[p]] = islandOf[p]
                         /\ peers'[p] = NoObj => islandOf[p] = NoIsland
  PROVE  islandOf' = islandOf
BY DEF islandOf

LEMMA IslandOfUnchanged ==
  ASSUME UNCHANGED <<peers, home>>
  PROVE  islandOf' = islandOf
BY DEF islandOf

LEMMA GivenOutUnchanged ==
  ASSUME UNCHANGED <<nextId, group>>, group = {} \/ room' = room
  PROVE  givenOut' = givenOut
BY DEF givenOut

\* The end of a createIsland gives out the id that it had generated; a group of
\* nobody has not kept it back.
LEMMA IdUsed ==
  ASSUME Placed, pc \in {"createNew", "createSplit"}, group' = {}, nextId' = nextId
  PROVE  /\ group # {} => Assignment!GiveOut(room)
         /\ group = {} => givenOut' = givenOut
<1>1. room \in IslandId /\ room = nextId /\ nextId \in Nat
  BY PlaceTypes DEF Placed, Sound, IdInv
<1>2. givenOut' = {i \in IslandId : i <= nextId}
  BY DEF givenOut
<1>3. group = {} => givenOut' = givenOut
  BY <1>2 DEF givenOut
<1>4. ASSUME group # {} PROVE room \notin givenOut /\ givenOut' = givenOut \cup {room}
  BY <1>1, <1>2, <1>4 DEF givenOut
<1> QED
  BY <1>3, <1>4 DEF Assignment!GiveOut

\* An id that nobody gets is a split that nobody took part in.
LEMMA IdWasted ==
  ASSUME NEW j \in IslandId, Assignment!GiveOut(j), islandOf' = islandOf
  PROVE  Assignment!Next
<1>1. Assignment!SplitOff(j, j)
  BY DEF Assignment!SplitOff, Assignment!MoveGroup, Assignment!On, islandOf
<1> QED
  BY <1>1 DEF Assignment!Next, Assignment!NewIsland

\* createIsland for a new peer: the peer enters, or the id is wasted.
LEMMA EnterRefines ==
  ASSUME Placed, NEW granted, CreateIsland(granted), pc = "createNew"
  PROVE  Refines
<1>1. PICK o \in Obj : group = {o} /\ home[o] = NoIsland /\ peers[IdOf[o]] \in {o, NoObj}
  BY DEF Placed, PlaceInv, TransitInv
<1> DEFINE p == IdOf[o]
           active == Active(group, granted)
<1>2. /\ p \in Peer /\ o # NoObj /\ peers[p] \in {o, NoObj} /\ room \in IslandId
      /\ \A q \in Peer : q # p => peers[q] # o
  BY <1>1, Constants, PlaceTypes DEF Placed, PlaceInv, KeysInv
<1>3. Assignment!GiveOut(room)
  BY <1>1, IdUsed DEF CreateIsland
<1>4. /\ \A q \in Peer : peers'[q] = IF q = p /\ p \notin granted THEN NoObj ELSE peers[q]
      /\ \A m \in Obj : home'[m] = IF m \in active THEN room ELSE home[m]
  BY <1>1, Evicted DEF CreateIsland, SetPeersIsland, Ids
<1>5. \A q \in Peer : peers[q] # NoObj => peers[q] \in Obj
  BY PlaceTypes DEF Placed
<1>6. CASE active = {}
  <2>1. islandOf' = islandOf
    <3> SUFFICES ASSUME NEW q \in Peer
                 PROVE  /\ peers'[q] # NoObj => home'[peers'[q]] = islandOf[q]
                        /\ peers'[q] = NoObj => islandOf[q] = NoIsland
      BY SameIslandOf
    <3> QED
      BY <1>1, <1>2, <1>4, <1>5, <1>6 DEF islandOf
  <2> QED
    BY <1>2, <1>3, <2>1, IdWasted DEF Refines
<1>7. CASE active # {}
  <2>1. active = {o} /\ peers[p] = o /\ p \in granted
    BY <1>1, <1>2, <1>7 DEF Active
  <2>2. islandOf[p] = NoIsland /\ islandOf'[p] = room
    BY <1>1, <1>2, <1>4, <2>1 DEF islandOf
  <2>3. \A q \in Peer \ {p} : islandOf'[q] = islandOf[q]
    BY <1>2, <1>4, <1>5, <2>1 DEF islandOf
  <2>4. Assignment!Enter(p, room)
    BY <2>2, <2>3 DEF Assignment!Enter, Assignment!Move, islandOf
  <2> QED
    BY <1>2, <1>3, <2>4 DEF Refines, Assignment!Next, Assignment!NewIsland
<1> QED
  BY <1>6, <1>7

\* Where there are no ghosts, a refused peer that the engine knows is in the
\* group by the object that it is known by.
LEMMA RefusedAreMembers ==
  ASSUME RefInv, NEW S \in SUBSET Obj, \A m \in S : peers[IdOf[m]] \in {m, NoObj},
         NEW q \in Ids(S), peers[q] # NoObj
  PROVE  peers[q] \in S
BY DEF Ids

\* A group moves together to an island i: its active objects get the island,
\* refused peers are dropped, and nobody else moves unless ghosts were refused.
LEMMA GroupMoves ==
  ASSUME AssignInv, NEW S \in SUBSET Obj, NEW from \in IslandId, NEW i \in IslandId, NEW granted,
         NEW to, {i, NoIsland} \subseteq to,
         \A o \in S : home[o] = from,
         \A p \in Peer : peers[p] # NoObj /\ home[peers[p]] = from /\ peers[p] \notin S => from \in to,
         RefInv => \A o \in S : peers[IdOf[o]] \in {o, NoObj},
         \A p \in Peer : peers'[p] = IF p \in Ids(S) \ granted THEN NoObj ELSE peers[p],
         \A o \in Obj : home'[o] = IF o \in Active(S, granted) THEN i ELSE home[o]
  PROVE  Assignment!MoveGroup(Assignment!On(from), to)
<1> DEFINE active == Active(S, granted)
<1>1. \A q \in Peer : peers[q] # NoObj => peers[q] \in Obj /\ IdOf[peers[q]] = q
  BY PlaceTypes DEF AssignInv, Placed, PlaceInv, KeysInv
<1>2. active \subseteq S /\ NoIsland # from
  BY Constants DEF Active
<1>3. ASSUME NEW q \in Peer, islandOf[q] = from PROVE islandOf'[q] \in to
  <2>1. peers[q] # NoObj /\ home[peers[q]] = from /\ peers[q] \in Obj /\ IdOf[peers[q]] = q
    BY <1>1, <1>2, <1>3 DEF islandOf
  <2>2. CASE peers'[q] = NoObj
    BY <2>2 DEF islandOf
  <2>3. CASE peers'[q] # NoObj
    <3>1. peers'[q] = peers[q] /\ q \notin Ids(S) \ granted /\ islandOf'[q] = home'[peers[q]]
      BY <2>3 DEF islandOf
    <3>2. CASE peers[q] \in S
      <4>1. peers[q] \in active
        BY <2>1, <3>1, <3>2 DEF Active, Ids
      <4> QED
        BY <2>1, <3>1, <4>1
    <3>3. CASE peers[q] \notin S
      BY <1>2, <2>1, <3>1, <3>3
    <3> QED
      BY <3>2, <3>3
  <2> QED
    BY <2>2, <2>3
<1>4. ASSUME NEW q \in Peer, islandOf[q] # from
      PROVE  \/ islandOf'[q] = islandOf[q]
             \/ "createSplit" \in TransportFails /\ islandOf'[q] = NoIsland
  <2>1. CASE peers[q] = NoObj
    BY <2>1 DEF islandOf
  <2>2. CASE peers[q] # NoObj /\ peers'[q] # NoObj
    <3>1. peers'[q] = peers[q] /\ peers[q] \notin S /\ peers[q] \in Obj
      BY <1>1, <1>4, <2>2 DEF islandOf
    <3> QED
      BY <1>2, <2>2, <3>1 DEF islandOf
  <2>3. CASE peers[q] # NoObj /\ peers'[q] = NoObj
    <3>1. q \in Ids(S)
      BY <2>3
    <3>2. CASE "createSplit" \in TransportFails
      BY <2>3, <3>2 DEF islandOf
    <3>3. CASE "createSplit" \notin TransportFails
      <4>1. peers[q] \in S
        BY <2>3, <3>1, <3>3, RefusedAreMembers DEF AssignInv
      <4> QED
        BY <1>4, <2>3, <4>1 DEF islandOf
    <3> QED
      BY <3>2, <3>3
  <2> QED
    BY <2>1, <2>2, <2>3
<1>5. DOMAIN islandOf' = Peer
  BY DEF islandOf
<1> QED
  BY <1>3, <1>4, <1>5 DEF Assignment!MoveGroup, Assignment!On

\* createIsland for a group of a split: those not refused found the island.
LEMMA SplitOffRefines ==
  ASSUME AssignInv, NEW granted, CreateIsland(granted), pc = "createSplit"
  PROVE  Refines
<1>1. /\ splitting \in IslandId /\ room \in IslandId /\ group \in SUBSET Obj
      /\ group \subseteq InTransit /\ \A o \in group : home[o] = splitting
  BY PlaceTypes DEF AssignInv, Placed, Sound, SizeInv, PlaceInv, TransitInv, InTransit
<1>2. /\ \A q \in Peer : peers'[q] = IF q \in Ids(group) \ granted THEN NoObj ELSE peers[q]
      /\ \A m \in Obj : home'[m] = IF m \in Active(group, granted) THEN room ELSE home[m]
      /\ group' = {} /\ nextId' = nextId
  BY Evicted DEF CreateIsland, SetPeersIsland
<1>3. RefInv => \A o \in group : peers[IdOf[o]] \in {o, NoObj}
  BY <1>1 DEF RefInv, KnownInv
<1>4. CASE group # {}
  <2>1. Assignment!GiveOut(room)
    BY <1>2, <1>4, IdUsed DEF AssignInv
  <2>2. Assignment!SplitOff(splitting, room)
    <3> DEFINE to == {splitting, room, NoIsland}
    <3>1. {room, NoIsland} \subseteq to /\ splitting \in to
      OBVIOUS
    <3> HIDE DEF to
    <3>2. Assignment!MoveGroup(Assignment!On(splitting), to)
      BY <1>1, <1>2, <1>3, <3>1, GroupMoves
    <3> QED
      BY <3>2 DEF Assignment!SplitOff, to
  <2> QED
    BY <1>1, <2>1, <2>2 DEF Refines, Assignment!Next, Assignment!NewIsland
<1>5. CASE group = {}
  <2>1. givenOut' = givenOut
    BY <1>2, <1>5, IdUsed DEF AssignInv
  <2>2. \A q \in Peer : peers'[q] = peers[q] /\ (peers[q] # NoObj => home'[peers[q]] = home[peers[q]])
    BY <1>2, <1>5, PlaceTypes DEF Ids, Active, AssignInv, Placed
  <2>3. islandOf' = islandOf
    BY <2>2, SameIslandOf DEF islandOf
  <2> QED
    BY <2>1, <2>3 DEF Refines
<1> QED
  BY <1>4, <1>5

\* While islands are merged, the peers on an island are among those its array
\* lists.
LEMMA OnIsListed ==
  ASSUME Placed, pc \in {"merge", "queue", "try", "mergeInto"}, NEW i \in islands
  PROVE  \A p \in Assignment!On(i) :
           peers[p] # NoObj /\ home[peers[p]] = i /\ peers[p] \in members[i] /\ IdOf[peers[p]] = p
<1>1. InTransit = {} /\ i # NoIsland
  BY PlaceTypes, Constants DEF Placed, PlaceInv, TransitInv, Sound, SizeInv, InTransit
<1> SUFFICES ASSUME NEW p \in Peer, islandOf[p] = i
             PROVE  peers[p] # NoObj /\ home[peers[p]] = i /\ peers[p] \in members[i] /\ IdOf[peers[p]] = p
  BY DEF Assignment!On
<1>2. peers[p] # NoObj /\ home[peers[p]] = i
  BY <1>1 DEF islandOf
<1> QED
  BY <1>1, <1>2 DEF Placed, PlaceInv, HomeInv, KeysInv

\* There are no more of them than the array is long, and without ghosts as many.
LEMMA OnIsAsBig ==
  ASSUME AssignInv, pc \in {"merge", "queue", "try", "mergeInto"}, NEW i \in islands
  PROVE  /\ Cardinality(Assignment!On(i)) <= Cardinality(members[i])
         /\ Cardinality(Assignment!On(i)) \in Nat /\ Cardinality(members[i]) \in Nat
         /\ "createSplit" \notin TransportFails => Assignment!On(i) # {}
<1> DEFINE on == Assignment!On(i)
           object == [p \in on |-> peers[p]]
<1>1. i \in IslandId /\ IsFiniteSet(members[i])
  BY PlaceTypes DEF AssignInv, Placed, Sound, TypeInv, FiniteInv
<1>2. \A p \in on : peers[p] \in members[i] /\ IdOf[peers[p]] = p
  BY OnIsListed DEF AssignInv
<1>3. object \in Injection(on, members[i])
  <2>1. object \in [on -> members[i]]
    BY <1>2
  <2>2. \A p, q \in on : object[p] = object[q] => p = q
    BY <1>2
  <2> QED
    BY <2>1, <2>2 DEF Injection, IsInjective
<1>4. IsFiniteSet(on) /\ Cardinality(on) <= Cardinality(members[i])
  BY <1>1, <1>3, FS_Injection
<1>5. Cardinality(on) \in Nat /\ Cardinality(members[i]) \in Nat
  BY <1>1, <1>4, FS_CardinalityType
<1>6. ASSUME "createSplit" \notin TransportFails PROVE on # {}
  <2>1. PICK o \in members[i] : TRUE
    BY DEF AssignInv, Placed, Sound, SizeInv
  <2>2. IdOf[o] \in Peer /\ o # NoObj /\ peers[IdOf[o]] = o /\ home[o] = i
    BY <1>1, <1>6, ReferredObjects DEF AssignInv, RefInv, KnownInv, Placed, PlaceInv, ListedInv
  <2>3. IdOf[o] \in on
    BY <2>2 DEF islandOf, Assignment!On
  <2> QED
    BY <2>3
<1> QED
  BY <1>4, <1>5, <1>6

\* mergeIntoIfPossible moves the whole island into one that has room for it.
LEMMA MergeRefines ==
  ASSUME AssignInv, NEW granted, MergeInto(granted)
  PROVE  Refines
<1>1. /\ pc = "mergeInto" /\ CanMerge(room, merging)
      /\ room \in islands /\ merging \in islands
      /\ room \in IslandId /\ merging \in IslandId /\ room # merging
      /\ group = {} /\ group' = {} /\ nextId' = nextId
  BY PlaceTypes DEF MergeInto, StillMergeable, AssignInv, Placed, PlaceInv, TargetsInv, Sound, SizeInv
<1>2. /\ \A q \in Peer :
           peers'[q] = IF q \in Ids(members[merging]) \ granted THEN NoObj ELSE peers[q]
      /\ \A m \in Obj : home'[m] = IF m \in Active(members[merging], granted) THEN room ELSE home[m]
  BY Evicted DEF MergeInto, SetPeersIsland
<1>3. /\ members[merging] \in SUBSET Obj
      /\ \A o \in members[merging] : home[o] = merging
      /\ RefInv => \A o \in members[merging] : peers[IdOf[o]] \in {o, NoObj}
  BY <1>1, PlaceTypes DEF AssignInv, Placed, PlaceInv, ListedInv, RefInv, KnownInv
<1>4. givenOut' = givenOut
  BY <1>1, GivenOutUnchanged
<1>5. {merging, room} \subseteq givenOut
  <2>1. merging <= nextId /\ room <= nextId
    BY <1>1 DEF AssignInv, Placed, Sound, IdInv
  <2> QED
    BY <1>1, <2>1 DEF givenOut
<1>6. /\ Cardinality(Assignment!On(merging)) + Cardinality(Assignment!On(room)) <= MaxIslandSize
      /\ "createSplit" \in TransportFails
           \/ (Assignment!On(merging) # {} /\ Assignment!On(room) # {})
  <2>1. Cardinality(members[room]) + Cardinality(members[merging]) <= MaxIslandSize
    BY <1>1 DEF CanMerge
  <2>2. /\ Cardinality(Assignment!On(merging)) <= Cardinality(members[merging])
        /\ Cardinality(Assignment!On(merging)) \in Nat /\ Cardinality(members[merging]) \in Nat
        /\ "createSplit" \notin TransportFails => Assignment!On(merging) # {}
    BY <1>1, OnIsAsBig
  <2>3. /\ Cardinality(Assignment!On(room)) <= Cardinality(members[room])
        /\ Cardinality(Assignment!On(room)) \in Nat /\ Cardinality(members[room]) \in Nat
        /\ "createSplit" \notin TransportFails => Assignment!On(room) # {}
    BY <1>1, OnIsAsBig
  <2>4. Cardinality(Assignment!On(merging)) + Cardinality(Assignment!On(room)) <= MaxIslandSize
    BY <2>1, <2>2, <2>3, SizeAssumption
  <2> QED
    BY <2>2, <2>3, <2>4
<1>7. Assignment!MoveGroup(Assignment!On(merging), {room, NoIsland})
  <2>1. \A p \in Peer : peers[p] # NoObj /\ home[peers[p]] = merging => peers[p] \in members[merging]
    <3>1. InTransit = {}
      BY <1>1 DEF AssignInv, Placed, PlaceInv, TransitInv, InTransit
    <3> QED
      BY <1>1, <3>1 DEF AssignInv, Placed, PlaceInv, HomeInv
  <2> DEFINE to == {room, NoIsland}
             S == members[merging]
  <2>2. {room, NoIsland} \subseteq to
    OBVIOUS
  <2> HIDE DEF to, S
  <2>3. Assignment!MoveGroup(Assignment!On(merging), to)
    BY <1>1, <1>2, <1>3, <2>1, <2>2, GroupMoves DEF S
  <2> QED
    BY <2>3 DEF to
<1>8. Assignment!Merge(merging, room)
  <2>1. \A S : Assignment!Cardinality(S) = Cardinality(S)
    BY DEF Assignment!Cardinality, Cardinality
  <2> QED
    BY <1>1, <1>5, <1>6, <1>7, <2>1 DEF Assignment!Merge
<1> QED
  BY <1>1, <1>4, <1>8 DEF Refines, Assignment!Next, Assignment!SameIslands

\* An id that a createIsland has just generated is kept back.
LEMMA IdAwaited ==
  ASSUME nextId \in Nat, nextId' = nextId + 1, room' = nextId + 1, group = {}, group' # {}
  PROVE  givenOut' = givenOut
<1>1. givenOut = {i \in IslandId : i <= nextId}
  BY DEF givenOut
<1>2. givenOut' = {i \in IslandId : i <= nextId + 1} \ {nextId + 1}
  BY DEF givenOut
<1>3. \A i \in IslandId : i <= nextId <=> i <= nextId + 1 /\ i # nextId + 1
  <2>1. \A i \in IslandId : i \in Nat
    BY Constants
  <2> QED
    BY <2>1
<1> QED
  BY <1>1, <1>2, <1>3

\* The other steps of a flush: only a call of createIsland and its failure do
\* something to the ids.
LEMMA PlaceNewPeerRefines ==
  ASSUME Placed, NEW p \in Peer, PlaceNewPeer(p)
  PROVE  Refines
<1>1. /\ peers' = [peers EXCEPT ![p] = pendingNew[p]] /\ home' = home
      /\ peers[p] = NoObj /\ home[pendingNew[p]] = NoIsland
      /\ group = {} /\ group' # {} /\ nextId' = nextId + 1 /\ room' = nextId + 1
      /\ nextId \in Nat
  BY PlaceTypes DEF PlaceNewPeer, objVars, CallCreateIsland, GenerateId, Placed, PlaceInv,
     PendingInv, Sound, SizeInv
<1>2. islandOf' = islandOf
  BY <1>1, PlaceTypes, SameIslandOf DEF islandOf, Placed
<1>3. givenOut' = givenOut
  BY <1>1, IdAwaited
<1> QED
  BY <1>2, <1>3 DEF Refines

LEMMA PlaceGroupRefines ==
  ASSUME Placed, NEW g \in limbo, PlaceGroup(g)
  PROVE  Refines
<1>1. /\ UNCHANGED <<peers, home>> /\ group = {} /\ group' = g
      /\ nextId' = nextId + 1 /\ room' = nextId + 1 /\ nextId + 1 \in IslandId
      /\ nextId \in Nat
  BY PlaceTypes DEF PlaceGroup, mapVars, objVars, CallCreateIsland, GenerateId, Placed,
     Sound, SizeInv
<1>2. islandOf' = islandOf
  BY <1>1, IslandOfUnchanged
<1>3. CASE g # {}
  <2>1. givenOut' = givenOut
    BY <1>1, <1>3, IdAwaited
  <2> QED
    BY <1>2, <2>1 DEF Refines
<1>4. CASE g = {}
  <2>1. givenOut = {i \in IslandId : i <= nextId} /\ givenOut' = {i \in IslandId : i <= nextId + 1}
    BY <1>1, <1>4 DEF givenOut
  <2>2. \A i \in IslandId : i \in Nat
    BY Constants
  <2>3. nextId + 1 \notin givenOut
    BY <1>1, <2>1
  <2>4. \A i \in IslandId : i <= nextId + 1 <=> i <= nextId \/ i = nextId + 1
    BY <1>1, <2>2
  <2>5. givenOut' = givenOut \cup {nextId + 1}
    BY <1>1, <2>1, <2>4
  <2>6. Assignment!GiveOut(nextId + 1)
    BY <2>3, <2>5 DEF Assignment!GiveOut
  <2> QED
    BY <1>1, <1>2, <2>6, IdWasted DEF Refines
<1> QED
  BY <1>3, <1>4

LEMMA NewPeerFailsRefines ==
  ASSUME Placed, NewPeerFails
  PROVE  Refines
<1>1. PICK o \in Obj : group = {o} /\ home[o] = NoIsland /\ peers[IdOf[o]] \in {o, NoObj}
  BY DEF NewPeerFails, Placed, PlaceInv, TransitInv
<1>2. /\ \A q \in Peer : peers'[q] = IF q = IdOf[o] THEN NoObj ELSE peers[q]
      /\ home' = home /\ room \in IslandId
  BY <1>1, Evicted, PlaceTypes DEF NewPeerFails, objVars, Ids, Placed
<1>3. islandOf' = islandOf
  BY <1>1, <1>2, SameIslandOf DEF islandOf
<1>4. Assignment!GiveOut(room)
  BY <1>1, IdUsed DEF NewPeerFails
<1> QED
  BY <1>2, <1>3, <1>4, IdWasted DEF Refines

\* A group that goes back keeps its island: only the id is wasted.
LEMMA GroupFailsRefines ==
  ASSUME Placed, GroupFails
  PROVE  Refines
<1>1. /\ UNCHANGED <<peers, home, nextId>> /\ group' = {} /\ pc = "createSplit"
      /\ room \in IslandId
  BY PlaceTypes DEF GroupFails, mapVars, objVars, Placed
<1>2. islandOf' = islandOf
  BY <1>1, IslandOfUnchanged
<1> QED
  BY <1>1, <1>2, IdUsed, IdWasted DEF Refines

\* A disconnect takes a peer off its island, if it has one.
LEMMA DisconnectTakesOff ==
  ASSUME Placed, NEW p \in Peer, DisconnectPending(p) \/ DisconnectAssigned(p)
  PROVE  islandOf' = [islandOf EXCEPT ![p] = NoIsland] /\ givenOut' = givenOut
<1>1. /\ peers' = [peers EXCEPT ![p] = NoObj] /\ home' = home
      /\ UNCHANGED <<nextId, group, room>>
  BY DEF DisconnectPending, DisconnectAssigned, objVars, flushVars, callVars
<1>2. \A q \in Peer : islandOf'[q] = IF q = p THEN NoIsland ELSE islandOf[q]
  BY <1>1, PlaceTypes DEF islandOf, Placed
<1>3. islandOf' = [islandOf EXCEPT ![p] = NoIsland]
  BY <1>2 DEF islandOf
<1>4. givenOut' = givenOut
  BY <1>1, GivenOutUnchanged
<1> QED
  BY <1>3, <1>4

LEMMA DisconnectRefines ==
  ASSUME Placed, NEW p \in Peer, DisconnectPending(p) \/ DisconnectAssigned(p)
  PROVE  Refines
<1>1. islandOf' = [islandOf EXCEPT ![p] = NoIsland] /\ givenOut' = givenOut
  BY DisconnectTakesOff
<1>2. Assignment!Disconnect(p)
  BY <1>1 DEF Assignment!Disconnect, Assignment!Move, islandOf
<1> QED
  BY <1>1, <1>2 DEF Refines, Assignment!Next, Assignment!SameIslands

\* A heartbeat changes nobody's island: a new object is not in the map yet.
LEMMA HeartbeatKeepsIslands ==
  ASSUME Placed, NEW p \in Peer, NEW x \in Pos, NEW r \in Preference,
         NewPeerPosition(p, x, r) \/ KnownPeerPosition(p, x, r)
  PROVE  UNCHANGED <<islandOf, givenOut>>
<1> USE DEF mapVars, flushVars, callVars
<1>1. UNCHANGED <<peers, nextId, group, room>>
  BY DEF NewPeerPosition, KnownPeerPosition
<1>2. givenOut' = givenOut
  BY <1>1, GivenOutUnchanged
<1>3. CASE KnownPeerPosition(p, x, r)
  BY <1>1, <1>2, <1>3, IslandOfUnchanged DEF KnownPeerPosition
<1>4. CASE NewPeerPosition(p, x, r)
  <2>1. /\ home' = [home EXCEPT ![NewObject(p)] = NoIsland]
        /\ peers[p] = NoObj /\ IdOf[NewObject(p)] = p
    BY <1>4, NewObjectIsFree DEF NewPeerPosition, Unreferenced
  <2>2. \A q \in Peer : peers[q] # NoObj => peers[q] \in Obj /\ home'[peers[q]] = home[peers[q]]
    BY <2>1, PlaceTypes DEF Placed, PlaceInv, KeysInv
  <2>3. islandOf' = islandOf
    BY <1>1, <2>2, SameIslandOf DEF islandOf
  <2> QED
    BY <1>2, <2>3
<1> QED
  BY <1>3, <1>4

LEMMA StepRefines ==
  ASSUME AssignInv, [Next]_vars
  PROVE  Refines
<1> USE DEF mapVars, islandVars, objVars, callVars, splitVars, loopVars, mergeVars, flushVars
<1>1. ASSUME UNCHANGED <<peers, home, nextId, group>>, group = {} \/ room' = room PROVE Refines
  BY <1>1, IslandOfUnchanged, GivenOutUnchanged DEF Refines
<1>2. CASE Callback
  BY <1>2, HeartbeatKeepsIslands, DisconnectRefines DEF Callback, Refines, AssignInv
<1>3. ASSUME NEW granted, CreateIsland(granted) PROVE Refines
  BY <1>3, EnterRefines, SplitOffRefines DEF CreateIsland, AssignInv
<1>4. CASE Answer
  <2>1. MergeFails => Refines
    BY <1>1 DEF MergeFails, AssignInv, Placed, Sound, SizeInv
  <2>2. NewPeerFails \/ GroupFails => Refines
    BY NewPeerFailsRefines, GroupFailsRefines DEF AssignInv
  <2> QED
    BY <1>3, <1>4, <2>1, <2>2, MergeRefines DEF Answer
<1>5. CASE Step
  <2>1. CallMerge => Refines
    BY <1>1 DEF CallMerge, AssignInv, Placed, Sound, SizeInv
  <2>2. Step => \/ \E p \in Peer : PlaceNewPeer(p)
                \/ \E g \in limbo : PlaceGroup(g)
                \/ CallMerge
                \/ UNCHANGED <<peers, home, nextId, group, room>>
    BY DEF Step, AllPlaced, KeepIsland, SplitIsland, EndSplit, AllSplit, PassIsland, MergeIslands,
           SkipQueued, TakeQueued, TargetFull, KeepApart, EndMerge, Return
  <2> QED
    BY <1>1, <1>5, <2>1, <2>2, PlaceNewPeerRefines, PlaceGroupRefines DEF AssignInv
<1>6. CASE BeginFlush \/ Report \/ SkipReport \/ UNCHANGED vars
  BY <1>1, <1>6 DEF BeginFlush, Report, SkipReport, vars
<1> QED
  BY <1>2, <1>4, <1>5, <1>6 DEF Next

LEMMA InitRefines == Init => Assignment!Init
<1> SUFFICES ASSUME Init PROVE islandOf = [p \in Peer |-> NoIsland] /\ givenOut = {}
  BY DEF Assignment!Init
<1>1. islandOf = [p \in Peer |-> NoIsland]
  BY DEF Init, islandOf
<1>2. givenOut = {}
  <2>1. \A i \in IslandId : i \in Nat /\ i # 0
    BY Constants DEF NoIsland
  <2>2. \A i \in IslandId : ~ (i <= 0)
    BY <2>1
  <2> QED
    BY <2>2 DEF Init, givenOut
<1> QED
  BY <1>1, <1>2

\* The engine changes the islands of its peers in the ways of IslandAssignment
\* only, whatever runs during its awaits, whoever is refused and whichever calls
\* reject.  An island lists a peer that has left only where a split may fail.
THEOREM EngineImplementsAssignment == Spec => ImplementsAssignment
<1>1. AssignInv /\ [Next]_vars => AssignInv'
  BY NextAssign
<1>2. AssignInv /\ [Next]_vars => [Assignment!Next]_<<islandOf, givenOut>>
  BY StepRefines DEF Refines
<1> QED
  BY <1>1, <1>2, InitAssign, InitRefines, PTL DEF Spec, ImplementsAssignment, Assignment!Spec

============================================================================
