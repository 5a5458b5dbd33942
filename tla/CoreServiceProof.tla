-------------------------- MODULE CoreServiceProof --------------------------
(***************************************************************************)
(* Theorems about CoreService, for any peers, positions, sizes and         *)
(* failures of the transport and of publishing.                            *)
(***************************************************************************)
EXTENDS ServiceImplements, EngineProof

----------------------------------------------------------------------------
(* The engine inside the service *)

LEMMA EngineInits == ServiceInit => Init
BY DEF ServiceInit

\* The service calls the engine as Engine says its caller may, and what it
\* does for itself leaves the engine alone.
LEMMA EngineSteps == [ServiceNext]_allVars => [Next]_vars
<1>1. ASSUME Subscription PROVE [Next]_vars
  <2>1. ASSUME NEW p \in Peer, NEW x \in Pos, NEW r \in Preference, Heartbeat(p, x, r)
        PROVE  Next
    BY <2>1 DEF Heartbeat, Next, Callback
  <2>2. ASSUME NEW p \in Peer, ConnectOrDisconnect(p) PROVE Next
    BY <2>2 DEF ConnectOrDisconnect, OnPeerDisconnected, Next, Callback
  <2>3. ASSUME NEW p \in Peer, GrowOld(p) PROVE UNCHANGED vars
    BY <2>3 DEF GrowOld
  <2> QED
    BY <1>1, <2>1, <2>2, <2>3 DEF Subscription
<1>2. ASSUME Loop PROVE [Next]_vars
  <2>1. ASSUME NEW p \in Peer, Expire(p) PROVE Next
    BY <2>1 DEF Expire, OnPeerDisconnected, Next, Callback
  <2>2. TimerFires => UNCHANGED vars
    BY DEF TimerFires
  <2>3. Flush \/ PublishAll \/ PublishThrows => Next
    BY DEF Flush, PublishAll, PublishThrows, Next, Step
  <2> QED
    BY <1>2, <2>1, <2>2, <2>3 DEF Loop
<1>3. FlushStep => Next
  BY DEF FlushStep, Next
<1>4. UNCHANGED allVars => UNCHANGED vars
  BY DEF allVars
<1> QED
  BY <1>1, <1>2, <1>3, <1>4 DEF ServiceNext

\* Inside the core service the engine is the one that Engine specifies, so that
\* what is proved of it holds however the subscriptions and the loop call it.
THEOREM EngineInside == ServiceSpec => Spec
BY EngineInits, EngineSteps, PTL DEF ServiceSpec, Spec

\* The islands that the service reports have peers (publisher.ts).
THEOREM ReportsInhabited == ServiceSpec => []NoEmptyIsland
BY EngineInside, IslandsInhabited, PTL

----------------------------------------------------------------------------
(* Heartbeat times *)

HeardInv == TypeInv /\ ServiceTypeOK /\ KnownCanExpire

LEMMA InitHeard == ServiceInit => HeardInv
<1> SUFFICES ASSUME ServiceInit PROVE HeardInv
  OBVIOUS
<1>1. TypeInv
  BY EngineInits, InitTypes
<1>2. ServiceTypeOK
  BY DEF ServiceInit, ServiceTypeOK, Update, NoUpdate
<1>3. KnownCanExpire
  BY DEF ServiceInit, Init, KnownCanExpire
<1> QED
  BY <1>1, <1>2, <1>3 DEF HeardInv

\* A step of the flush makes known only those that waited already: it may
\* forget a peer, but none is left without the time that expires it.
LEMMA FlushIntroducesNobody ==
  ASSUME TypeInv, Step \/ Answer, NEW p \in Peer,
         peers'[p] # NoObj \/ pendingNew'[p] # NoObj
  PROVE  peers[p] # NoObj \/ pendingNew[p] # NoObj
<1>1. peers \in [Peer -> Obj \cup {NoObj}] /\ pendingNew \in [Peer -> Obj \cup {NoObj}]
  BY DEF TypeInv, TypeOK
<1>2. ASSUME NEW objs, NEW granted, peers' = Evict(objs, granted), UNCHANGED pendingNew
      PROVE  peers[p] # NoObj \/ pendingNew[p] # NoObj
  BY <1>2 DEF Evict
<1>3. ASSUME NEW q \in Peer, PlaceNewPeer(q) PROVE peers[p] # NoObj \/ pendingNew[p] # NoObj
  BY <1>1, <1>3 DEF PlaceNewPeer
<1>4. ASSUME AllPlaced PROVE peers[p] # NoObj \/ pendingNew[p] # NoObj
  BY <1>4 DEF AllPlaced
<1>5. ASSUME UNCHANGED <<peers, pendingNew>> PROVE peers[p] # NoObj \/ pendingNew[p] # NoObj
  BY <1>5
<1>6. ASSUME Answer PROVE peers[p] # NoObj \/ pendingNew[p] # NoObj
  <2>1. ASSUME NEW granted, CreateIsland(granted)
        PROVE  peers' = Evict(group, granted) /\ UNCHANGED pendingNew
    BY <2>1 DEF CreateIsland
  <2>2. ASSUME NEW granted, MergeInto(granted)
        PROVE  peers' = Evict(members[merging], granted) /\ UNCHANGED pendingNew
    BY <2>2 DEF MergeInto
  <2>3. NewPeerFails => peers' = Evict(group, {}) /\ UNCHANGED pendingNew
    BY DEF NewPeerFails
  <2>4. GroupFails \/ MergeFails => UNCHANGED <<peers, pendingNew>>
    BY DEF GroupFails, MergeFails, mapVars
  <2> QED
    BY <1>2, <1>5, <1>6, <2>1, <2>2, <2>3, <2>4 DEF Answer
<1>7. ASSUME Step PROVE peers[p] # NoObj \/ pendingNew[p] # NoObj
  <2>1. Step => \/ \E q \in Peer : PlaceNewPeer(q)
                \/ AllPlaced
                \/ UNCHANGED <<peers, pendingNew>>
    BY DEF Step, BeginFlush, KeepIsland, SplitIsland, PlaceGroup, EndSplit, AllSplit, PassIsland,
           MergeIslands, SkipQueued, TakeQueued, CallMerge, TargetFull, KeepApart, EndMerge,
           Return, mapVars
  <2> QED
    BY <1>3, <1>4, <1>5, <1>7, <2>1
<1> QED
  BY <1>6, <1>7

LEMMA SubscriptionHeard ==
  ASSUME HeardInv, Subscription
  PROVE  ServiceTypeOK' /\ KnownCanExpire'
<1> USE DEF HeardInv, TypeInv, TypeOK
<1>1. ASSUME NEW p \in Peer, NEW x \in Pos, NEW r \in Preference, Heartbeat(p, x, r)
      PROVE  ServiceTypeOK' /\ KnownCanExpire'
  <2>1. ServiceTypeOK'
    BY <1>1 DEF Heartbeat, HeartbeatSet, ServiceTypeOK
  <2>2. UNCHANGED peers /\ \A q \in Peer \ {p} : pendingNew'[q] = pendingNew[q]
    BY <1>1 DEF Heartbeat, NewPeerPosition, KnownPeerPosition, mapVars
  <2>3. KnownCanExpire'
    BY <1>1, <2>2 DEF Heartbeat, HeartbeatSet, KnownCanExpire
  <2> QED
    BY <2>1, <2>3
<1>2. ASSUME NEW p \in Peer, ConnectOrDisconnect(p) PROVE ServiceTypeOK' /\ KnownCanExpire'
  <2>1. ServiceTypeOK'
    BY <1>2, Constants DEF ConnectOrDisconnect, HeartbeatDelete, Untell, ServiceTypeOK
  <2>2. KnownCanExpire'
    BY <1>2 DEF ConnectOrDisconnect, HeartbeatDelete, OnPeerDisconnected, DisconnectPending,
                DisconnectAssigned, DeletePending, KnownCanExpire
  <2> QED
    BY <2>1, <2>2
<1>3. ASSUME NEW p \in Peer, GrowOld(p) PROVE ServiceTypeOK' /\ KnownCanExpire'
  BY <1>3 DEF GrowOld, ServiceTypeOK, KnownCanExpire, vars, mapVars
<1> QED
  BY <1>1, <1>2, <1>3 DEF Subscription

LEMMA LoopHeard ==
  ASSUME HeardInv, Loop
  PROVE  ServiceTypeOK' /\ KnownCanExpire'
<1> USE DEF HeardInv, TypeInv, TypeOK
<1>1. ASSUME NEW p \in Peer, Expire(p) PROVE ServiceTypeOK' /\ KnownCanExpire'
  <2>1. ServiceTypeOK'
    BY <1>1, Constants DEF Expire, HeartbeatDelete, Untell, ServiceTypeOK
  <2>2. KnownCanExpire'
    BY <1>1 DEF Expire, HeartbeatDelete, OnPeerDisconnected, DisconnectPending,
                DisconnectAssigned, DeletePending, KnownCanExpire
  <2> QED
    BY <2>1, <2>2
<1>2. TimerFires => ServiceTypeOK' /\ KnownCanExpire'
  BY DEF TimerFires, ServiceTypeOK, KnownCanExpire, vars, mapVars
<1>3. Flush => ServiceTypeOK' /\ KnownCanExpire'
  BY DEF Flush, BeginFlush, ServiceTypeOK, KnownCanExpire, mapVars
<1>4. ASSUME NEW sent \in SUBSET Sent, Publish(sent), SetTimer,
             batch' = [p \in Peer |-> NoUpdate], UNCHANGED <<peers, pendingNew, heard, old>>
      PROVE  ServiceTypeOK' /\ KnownCanExpire'
  <2>1. told' \in [Peer -> IslandId \cup {NoIsland}] /\ missed' \subseteq Peer
    BY <1>4 DEF Publish, Sent, ServiceTypeOK, Update
  <2>2. NoUpdate \in Update
    BY DEF NoUpdate, Update
  <2> QED
    BY <1>4, <2>1, <2>2 DEF SetTimer, ServiceTypeOK, KnownCanExpire
<1>5. PublishAll \/ PublishThrows => ServiceTypeOK' /\ KnownCanExpire'
  BY <1>4 DEF PublishAll, PublishThrows, Report, SkipReport, mapVars
<1> QED
  BY <1>1, <1>2, <1>3, <1>5 DEF Loop

LEMMA NextHeard == HeardInv /\ [ServiceNext]_allVars => HeardInv'
<1> SUFFICES ASSUME HeardInv, [ServiceNext]_allVars PROVE HeardInv'
  OBVIOUS
<1>1. TypeInv'
  BY EngineSteps, NextTypes DEF HeardInv
<1>2. FlushStep => ServiceTypeOK' /\ KnownCanExpire'
  <2> SUFFICES ASSUME FlushStep PROVE ServiceTypeOK' /\ KnownCanExpire'
    OBVIOUS
  <2>1. ServiceTypeOK'
    BY DEF FlushStep, HeardInv, TypeInv, TypeOK, ServiceTypeOK
  <2>2. KnownCanExpire'
    BY FlushIntroducesNobody DEF FlushStep, HeardInv, KnownCanExpire
  <2> QED
    BY <2>1, <2>2
<1>3. UNCHANGED allVars => ServiceTypeOK' /\ KnownCanExpire'
  BY DEF HeardInv, allVars, vars, mapVars, serviceVars, ServiceTypeOK, KnownCanExpire
<1> QED
  BY <1>1, <1>2, <1>3, SubscriptionHeard, LoopHeard DEF ServiceNext, HeardInv

\* The loop, the published updates and the heartbeat times keep their types,
\* and no peer is called expired whose heartbeat time is not kept.
THEOREM ServiceTypes == ServiceSpec => []ServiceTypeOK
<1>1. HeardInv => ServiceTypeOK
  BY DEF HeardInv
<1> QED
  BY <1>1, InitHeard, NextHeard, PTL DEF ServiceSpec

\* Whoever the engine knows or is about to know can expire, with callbacks
\* during every await, refused peers, calls that reject and publishing that throws.
THEOREM EverybodyExpires == ServiceSpec => []KnownCanExpire
<1>1. HeardInv => KnownCanExpire
  BY DEF HeardInv
<1> QED
  BY <1>1, InitHeard, NextHeard, PTL DEF ServiceSpec

----------------------------------------------------------------------------
(* What peers are told *)

\* A flush is under way as long as the loop says so.
LoopInv == loopAt = "flushing" <=> pc # "idle"

\* What is still to be published of p: it is in pendingUpdates during the
\* flush, and in what the flush returned after it.
Unpublished(p) == IF pc = "returned" THEN batch[p] ELSE updates[p]

\* Once a flush has returned, all that can be pending is a leave.
UpdatesInv ==
  /\ pc = "returned" => updates = [p \in Peer |-> NoUpdate]
  /\ pc = "idle" => \A p \in Peer : updates[p].action # "changeTo"

\* A peer on an island has been told so, or is about to be, unless its last
\* update was lost.
ToldInv ==
  \A p \in Peer :
    peers[p] # NoObj /\ home[peers[p]] # NoIsland =>
      \/ Unpublished(p) = ChangeTo(home[peers[p]])
      \/ Unpublished(p) = NoUpdate /\ (told[p] = home[peers[p]] \/ p \in missed)

TellInv == HeardInv /\ RefInv /\ LoopInv /\ UpdatesInv /\ ToldInv

LEMMA InitTell == ServiceInit => TellInv
<1> SUFFICES ASSUME ServiceInit PROVE TellInv
  OBVIOUS
<1>1. HeardInv /\ RefInv
  BY InitHeard, EngineInits, InitRefs
<1>2. LoopInv /\ UpdatesInv /\ ToldInv
  BY DEF ServiceInit, Init, LoopInv, UpdatesInv, ToldInv, NoUpdate
<1> QED
  BY <1>1, <1>2 DEF TellInv

\* While no flush is under way, and when it returns, every known peer is on an
\* island that is in the map and lists it.
LEMMA KnownIsListed ==
  ASSUME RefInv, pc \in {"idle", "returned"}, NEW p \in Peer, peers[p] # NoObj
  PROVE  /\ home[peers[p]] \in islands
         /\ peers[p] \in members[home[peers[p]]]
<1>1. InTransit = {}
  BY DEF RefInv, Placed, Sound, SizeInv, PlaceInv, TransitInv, InTransit
<1>2. PICK i \in IslandId : peers[p] \in members[i]
  BY <1>1 DEF RefInv, SomewhereInv
<1> QED
  BY <1>2 DEF RefInv, Placed, PlaceInv, ListedInv

LEMMA CallbackTold ==
  ASSUME TellInv, NEW p \in Peer,
         \/ /\ \E x \in Pos, r \in Preference : NewPeerPosition(p, x, r) \/ KnownPeerPosition(p, x, r)
            /\ UNCHANGED <<told, missed>>
         \/ OnPeerDisconnected(p) /\ Untell(p)
  PROVE  ToldInv' /\ UpdatesInv' /\ UNCHANGED pc
<1> USE DEF TellInv, mapVars, islandVars, objVars, flushVars
<1>0. pc # "returned" /\ UNCHANGED pc
  BY DEF NewPeerPosition, KnownPeerPosition, OnPeerDisconnected, DisconnectPending,
         DisconnectAssigned, CallbacksRun, Awaiting
<1>1. ASSUME NEW x \in Pos, NEW r \in Preference, NewPeerPosition(p, x, r), UNCHANGED <<told, missed>>
      PROVE  ToldInv'
  <2>1. /\ UNCHANGED <<peers, updates>> /\ home' = [home EXCEPT ![NewObject(p)] = NoIsland]
        /\ IdOf[NewObject(p)] = p /\ peers[p] = NoObj
    BY <1>1, NewObjectIsFree DEF NewPeerPosition, Unreferenced
  <2>2. \A q \in Peer : peers[q] # NoObj => home'[peers[q]] = home[peers[q]]
    BY <2>1, PlaceTypes DEF RefInv, Placed, PlaceInv, KeysInv
  <2> QED
    BY <1>0, <1>1, <2>1, <2>2 DEF ToldInv, Unpublished
<1>2. ASSUME NEW x \in Pos, NEW r \in Preference, KnownPeerPosition(p, x, r), UNCHANGED <<told, missed>>
      PROVE  ToldInv'
  BY <1>0, <1>2 DEF KnownPeerPosition, ToldInv, Unpublished
<1>3. ASSUME OnPeerDisconnected(p), Untell(p) PROVE ToldInv'
  <2>1. \A q \in Peer : q # p =>
          /\ peers'[q] = peers[q] /\ updates'[q] = updates[q] /\ told'[q] = told[q]
          /\ q \in missed' <=> q \in missed
    BY <1>3 DEF OnPeerDisconnected, DisconnectPending, DisconnectAssigned, Untell, HeardInv,
       ServiceTypeOK, TypeInv, TypeOK
  <2>2. home' = home /\ peers'[p] = NoObj
    BY <1>3, PlaceTypes DEF OnPeerDisconnected, DisconnectPending, DisconnectAssigned, RefInv, Placed
  <2> QED
    BY <1>0, <2>1, <2>2 DEF ToldInv, Unpublished
<1>4. UpdatesInv'
  <2>1. updates \in [Peer -> Update]
    BY DEF HeardInv, TypeInv, TypeOK
  <2>2. \/ UNCHANGED updates
        \/ \E i \in IslandId \cup {NoIsland} : updates' = [updates EXCEPT ![p] = Leave(i)]
    BY PlaceTypes DEF NewPeerPosition, KnownPeerPosition, OnPeerDisconnected, DisconnectPending,
       DisconnectAssigned, Assigned, RefInv, Placed
  <2> QED
    BY <1>0, <2>1, <2>2 DEF UpdatesInv, Leave
<1> QED
  BY <1>0, <1>1, <1>2, <1>3, <1>4

\* A flush runs until it returns.
LEMMA FlushRuns ==
  ASSUME Step \/ Answer
  PROVE  /\ pc \notin {"idle", "returned"} /\ pc' # "idle"
         /\ pc' = "returned" => Return
<1>1. pc \notin {"idle", "returned"} /\ pc' # "idle"
  BY DEF Step, Answer, PlaceNewPeer, AllPlaced, KeepIsland, SplitIsland, PlaceGroup, EndSplit,
     AllSplit, PassIsland, MergeIslands, SkipQueued, TakeQueued, CallMerge, TargetFull, KeepApart,
     EndMerge, Return, CreateIsland, MergeInto, NewPeerFails, GroupFails, MergeFails, AfterCreate
<1>2. pc' = "returned" => Return
  BY DEF Step, Answer, PlaceNewPeer, AllPlaced, KeepIsland, SplitIsland, PlaceGroup, EndSplit,
     AllSplit, PassIsland, MergeIslands, SkipQueued, TakeQueued, CallMerge, TargetFull, KeepApart,
     EndMerge, CreateIsland, MergeInto, NewPeerFails, GroupFails, MergeFails, AfterCreate
<1> QED
  BY <1>1, <1>2

LEMMA FlushTold ==
  ASSUME "createSplit" \notin TransportFails, TellInv, FlushStep
  PROVE  ToldInv' /\ UpdatesInv' /\ LoopInv'
<1> USE DEF TellInv
<1>1. (Step \/ Answer) /\ UNCHANGED <<loopAt, told, missed>>
  BY DEF FlushStep
<1>2. pc \notin {"idle", "returned"} /\ pc' # "idle"
  BY <1>1, FlushRuns
<1>3. pc' = "returned" => Return
  BY <1>1, FlushRuns
<1>4. Return => pc' = "returned" /\ updates' = [p \in Peer |-> NoUpdate] /\ batch' = updates
  BY DEF FlushStep, Return
<1>5. LoopInv' /\ UpdatesInv'
  BY <1>1, <1>2, <1>3, <1>4 DEF LoopInv, UpdatesInv
<1>6. ToldInv'
  <2> SUFFICES ASSUME NEW p \in Peer, peers'[p] # NoObj, home'[peers'[p]] # NoIsland
               PROVE  \/ Unpublished(p)' = ChangeTo(home'[peers'[p]])
                      \/ /\ Unpublished(p)' = NoUpdate
                         /\ told[p] = home'[peers'[p]] \/ p \in missed
    BY <1>1 DEF ToldInv
  <2>1. CASE /\ peers'[p] = peers[p] /\ home'[peers[p]] = home[peers[p]]
             /\ updates'[p] = updates[p] \/ Return
    <3>1. Unpublished(p)' = updates[p] /\ Unpublished(p) = updates[p]
      BY <1>2, <1>3, <1>4, <2>1 DEF Unpublished
    <3> QED
      BY <2>1, <3>1 DEF ToldInv
  <2>2. CASE updates'[p] = ChangeTo(home'[peers'[p]]) /\ pc' # "returned"
    BY <2>2 DEF Unpublished
  <2> QED
    BY <1>1, <2>1, <2>2, FlushMoves
<1> QED
  BY <1>5, <1>6

LEMMA PublishTold ==
  ASSUME TellInv, NEW sent \in SUBSET Sent, pc = "returned", pc' = "idle", Publish(sent),
         UNCHANGED <<peers, home, updates>>
  PROVE  ToldInv'
<1> USE DEF TellInv
<1> SUFFICES ASSUME NEW p \in Peer, peers[p] # NoObj, home[peers[p]] # NoIsland
             PROVE  updates[p] = NoUpdate /\ (told'[p] = home[peers[p]] \/ p \in missed')
  BY DEF ToldInv, Unpublished
<1>1. updates[p] = NoUpdate
  BY DEF UpdatesInv
<1>2. \/ batch[p] = ChangeTo(home[peers[p]])
      \/ batch[p] = NoUpdate /\ (told[p] = home[peers[p]] \/ p \in missed)
  BY DEF ToldInv, Unpublished
<1>3. CASE batch[p] = ChangeTo(home[peers[p]])
  <2>1. p \in Sent
    BY <1>3, KnownIsListed DEF Sent, ChangeTo
  <2> QED
    BY <1>1, <1>3, <2>1 DEF Publish, ChangeTo
<1>4. CASE batch[p] = NoUpdate /\ (told[p] = home[peers[p]] \/ p \in missed)
  <2>1. p \notin Sent
    BY <1>4 DEF Sent, NoUpdate
  <2> QED
    BY <1>1, <1>4, <2>1 DEF Publish
<1> QED
  BY <1>1, <1>2, <1>3, <1>4

LEMMA NextTell ==
  ASSUME "createSplit" \notin TransportFails
  PROVE  TellInv /\ [ServiceNext]_allVars => TellInv'
<1> SUFFICES ASSUME TellInv, [ServiceNext]_allVars PROVE TellInv'
  OBVIOUS
<1> USE DEF TellInv
<1>1. HeardInv' /\ RefInv'
  BY NextHeard, EngineSteps, NextRefs
<1>2. ASSUME NEW p \in Peer, NEW x \in Pos, NEW r \in Preference, Heartbeat(p, x, r)
      PROVE  ToldInv' /\ UpdatesInv' /\ LoopInv'
  <2>1. ToldInv' /\ UpdatesInv' /\ UNCHANGED pc
    BY <1>2, CallbackTold DEF Heartbeat
  <2> QED
    BY <1>2, <2>1 DEF Heartbeat, LoopInv
<1>3. ASSUME NEW p \in Peer, ConnectOrDisconnect(p) \/ Expire(p)
      PROVE  ToldInv' /\ UpdatesInv' /\ LoopInv'
  <2>1. ToldInv' /\ UpdatesInv' /\ UNCHANGED pc
    BY <1>3, CallbackTold DEF ConnectOrDisconnect, Expire
  <2> QED
    BY <1>3, <2>1 DEF ConnectOrDisconnect, Expire, LoopInv
<1>4. ASSUME NEW p \in Peer, GrowOld(p) PROVE ToldInv' /\ UpdatesInv' /\ LoopInv'
  BY <1>4 DEF GrowOld, vars, mapVars, objVars, flushVars, ToldInv, Unpublished, UpdatesInv, LoopInv
<1>5. ASSUME TimerFires \/ Flush PROVE ToldInv' /\ UpdatesInv' /\ LoopInv'
  <2>1. /\ pc = "idle" /\ pc' # "returned" /\ UNCHANGED <<peers, home, updates, told, missed>>
        /\ loopAt' = "flushing" <=> pc' # "idle"
    BY <1>5 DEF TimerFires, Flush, BeginFlush, vars, mapVars, objVars, flushVars, LoopInv
  <2> QED
    BY <2>1 DEF ToldInv, Unpublished, UpdatesInv, LoopInv
<1>6. ASSUME PublishAll \/ PublishThrows PROVE ToldInv' /\ UpdatesInv' /\ LoopInv'
  <2>1. /\ pc = "returned" /\ pc' = "idle" /\ loopAt' = "waiting"
        /\ \E sent \in SUBSET Sent : Publish(sent)
        /\ UNCHANGED <<peers, home, updates>>
    BY <1>6 DEF PublishAll, PublishThrows, Report, SkipReport, SetTimer, mapVars, objVars
  <2> QED
    BY <2>1, PublishTold DEF UpdatesInv, LoopInv, NoUpdate
<1>7. ASSUME FlushStep PROVE ToldInv' /\ UpdatesInv' /\ LoopInv'
  BY <1>7, FlushTold
<1>8. ASSUME UNCHANGED allVars PROVE ToldInv' /\ UpdatesInv' /\ LoopInv'
  BY <1>8 DEF allVars, serviceVars, vars, mapVars, objVars, flushVars, ToldInv, Unpublished,
     UpdatesInv, LoopInv
<1> QED
  BY <1>1, <1>2, <1>3, <1>4, <1>5, <1>6, <1>7, <1>8 DEF ServiceNext, Subscription, Loop

\* Between two loops every known peer has been told the island it is on, as
\* long as no call of a split rejects: otherwise a peer that has returned may be
\* told the island of the ghost that it left behind.
THEOREM EverybodyTold ==
  ASSUME "createSplit" \notin TransportFails
  PROVE  ServiceSpec => []ToldTheirIsland
<1>1. TellInv => ToldTheirIsland
  <2> SUFFICES ASSUME TellInv, loopAt = "waiting", NEW p \in Peer \ missed, peers[p] # NoObj
               PROVE  told[p] = home[peers[p]]
    BY DEF ToldTheirIsland
  <2>1. pc = "idle"
    BY DEF TellInv, LoopInv
  <2>2. home[peers[p]] \in IslandId
    BY <2>1, KnownIsListed, PlaceTypes DEF TellInv, RefInv, Placed
  <2>3. updates[p].action # "changeTo"
    BY <2>1 DEF TellInv, UpdatesInv
  <2>4. \/ updates[p] = ChangeTo(home[peers[p]])
        \/ told[p] = home[peers[p]] \/ p \in missed
    BY <2>1, <2>2, Constants DEF TellInv, ToldInv, Unpublished
  <2> QED
    BY <2>3, <2>4 DEF ChangeTo
<1>2. TellInv /\ [ServiceNext]_allVars => TellInv'
  BY NextTell
<1> QED
  BY <1>1, <1>2, InitTell, PTL DEF ServiceSpec

\* Whoever is never refused and is to be sent an island is on one: it leaves the
\* map by a disconnect only, which replaces the update.
StayInv ==
  \A p \in Peer \ Bannable :
    Unpublished(p).action = "changeTo" => peers[p] # NoObj /\ home[peers[p]] # NoIsland

\* Nobody is dropped by the flush who was never refused and has an island.
LEMMA FlushDropsNobody ==
  ASSUME RefInv, "createSplit" \notin TransportFails, Step \/ Answer, NEW p \in Peer \ Bannable,
         peers'[p] = NoObj
  PROVE  /\ peers[p] # NoObj => home[peers[p]] = NoIsland
         /\ updates'[p] = updates[p] \/ Return
<1> USE DEF mapVars, islandVars, objVars, callVars, splitVars, loopVars, mergeVars
<1> DEFINE Goal == /\ peers[p] # NoObj => home[peers[p]] = NoIsland
                   /\ updates'[p] = updates[p] \/ Return
<1>0. NoObj \notin Obj
  BY Constants
<1>1. ASSUME NEW active \in SUBSET Obj, peers[p] = NoObj, \A o \in active : peers[IdOf[o]] = o,
             updates'[p] = IF p \in Ids(active) THEN ChangeTo(room) ELSE updates[p]
      PROVE  Goal
  <2>1. p \notin Ids(active)
    BY <1>0, <1>1 DEF Ids
  <2> QED
    BY <1>1, <2>1
<1>2. ASSUME NEW granted \in Answers(Ids(group)), CreateIsland(granted) PROVE Goal
  <2>1. Active(group, granted) \in SUBSET Obj
    BY PlaceTypes DEF Active, RefInv, Placed
  <2>2. peers[p] = NoObj
    BY <1>2, NeverRefusedStay DEF CreateIsland
  <2> QED
    BY <1>1, <1>2, <2>1, <2>2, CreateIslandMoves
<1>3. ASSUME merging # NoIsland, NEW granted \in Answers(Ids(members[merging])), MergeInto(granted)
      PROVE  Goal
  <2>1. merging \in IslandId
    BY <1>3, PlaceTypes DEF MergeInto, StillMergeable, RefInv, Placed
  <2>2. Active(members[merging], granted) \in SUBSET Obj
    BY <2>1, PlaceTypes DEF Active, RefInv, Placed
  <2>3. peers[p] = NoObj
    BY <1>3, NeverRefusedStay DEF MergeInto
  <2> QED
    BY <1>1, <1>3, <2>2, <2>3, MergeIntoMoves
<1>4. ASSUME NewPeerFails PROVE Goal
  <2>1. PICK o \in Obj : group = {o} /\ home[o] = NoIsland /\ peers[IdOf[o]] \in {o, NoObj}
    BY <1>4 DEF NewPeerFails, RefInv, Placed, PlaceInv, TransitInv
  <2>2. p = IdOf[o] \/ peers[p] = NoObj
    BY <1>4, <2>1, Evicted DEF NewPeerFails, Ids
  <2> QED
    BY <1>4, <2>1, <2>2 DEF NewPeerFails
<1>5. ASSUME NEW q \in Peer, PlaceNewPeer(q) PROVE Goal
  BY <1>0, <1>5, PlaceTypes DEF PlaceNewPeer, RefInv, Placed
<1>6. ASSUME peers[p] = NoObj, UNCHANGED updates \/ Return PROVE Goal
  BY <1>6
<1>7. MergeFails => UNCHANGED <<peers, updates>>
  BY DEF MergeFails
<1>8. Step => (\E q \in Peer : PlaceNewPeer(q)) \/ Return \/ UNCHANGED <<peers, updates>>
  BY DEF Step, AllPlaced, KeepIsland, SplitIsland, PlaceGroup, EndSplit, AllSplit, PassIsland,
         MergeIslands, SkipQueued, TakeQueued, CallMerge, TargetFull, KeepApart, EndMerge
<1>9. Return => UNCHANGED peers
  BY DEF Return
<1>10. CASE Answer
  BY <1>2, <1>3, <1>4, <1>6, <1>7, <1>10 DEF Answer, GroupFails
<1>11. CASE Step
  BY <1>5, <1>6, <1>8, <1>9, <1>11
<1> QED
  BY <1>10, <1>11

LEMMA FlushStays ==
  ASSUME "createSplit" \notin TransportFails, TellInv, StayInv, FlushStep
  PROVE  StayInv'
<1> USE DEF TellInv
<1> SUFFICES ASSUME NEW p \in Peer \ Bannable, Unpublished(p)'.action = "changeTo"
             PROVE  peers'[p] # NoObj /\ home'[peers'[p]] # NoIsland
  BY DEF StayInv
<1>1. Step \/ Answer
  BY DEF FlushStep
<1>2. pc \notin {"idle", "returned"} /\ (pc' = "returned" => Return)
  BY <1>1, FlushRuns
<1>3. Return => pc' = "returned" /\ batch' = updates
  BY DEF FlushStep, Return
<1>4. ASSUME updates'[p] = updates[p] \/ Return
      PROVE  /\ updates[p].action = "changeTo"
             /\ peers[p] # NoObj /\ home[peers[p]] # NoIsland
  BY <1>2, <1>3, <1>4 DEF Unpublished, StayInv
<1>5. peers'[p] # NoObj
  BY <1>1, <1>4, FlushDropsNobody
<1>6. CASE \E q \in Peer : PlaceNewPeer(q)
  <2>1. PICK q \in Peer : PlaceNewPeer(q)
    BY <1>6
  <2>2. pendingNew[q] # NoObj /\ q \notin visited /\ UNCHANGED <<home, updates>>
    BY <2>1 DEF PlaceNewPeer, objVars
  <2>3. peers[p] # NoObj /\ home[peers[p]] # NoIsland
    BY <1>4, <2>2
  <2>4. peers[q] = NoObj
    BY <2>2 DEF RefInv, Placed, PlaceInv, PendingInv
  <2>5. peers'[p] = peers[p]
    BY <2>1, <2>3, <2>4, PlaceTypes DEF PlaceNewPeer, RefInv, Placed
  <2> QED
    BY <2>2, <2>3, <2>5
<1>7. CASE ~ \E q \in Peer : PlaceNewPeer(q)
  BY <1>1, <1>4, <1>5, <1>7, Constants, FlushMoves
<1> QED
  BY <1>6, <1>7

LEMMA CallbackStays ==
  ASSUME TellInv, StayInv, NEW p \in Peer,
         \/ \E x \in Pos, r \in Preference : NewPeerPosition(p, x, r) \/ KnownPeerPosition(p, x, r)
         \/ OnPeerDisconnected(p)
  PROVE  StayInv'
<1> USE DEF TellInv, mapVars, islandVars, objVars, flushVars
<1>0. pc # "returned" /\ UNCHANGED pc
  BY DEF NewPeerPosition, KnownPeerPosition, OnPeerDisconnected, DisconnectPending,
         DisconnectAssigned, CallbacksRun, Awaiting
<1>1. ASSUME NEW x \in Pos, NEW r \in Preference, NewPeerPosition(p, x, r) PROVE StayInv'
  <2>1. /\ UNCHANGED <<peers, updates>> /\ home' = [home EXCEPT ![NewObject(p)] = NoIsland]
        /\ IdOf[NewObject(p)] = p /\ peers[p] = NoObj
    BY <1>1, NewObjectIsFree DEF NewPeerPosition, Unreferenced
  <2>2. \A q \in Peer : peers[q] # NoObj => home'[peers[q]] = home[peers[q]]
    BY <2>1, PlaceTypes DEF RefInv, Placed, PlaceInv, KeysInv
  <2> QED
    BY <1>0, <2>1, <2>2 DEF StayInv, Unpublished
<1>2. ASSUME NEW x \in Pos, NEW r \in Preference, KnownPeerPosition(p, x, r) PROVE StayInv'
  BY <1>0, <1>2 DEF KnownPeerPosition, StayInv, Unpublished
<1>3. ASSUME OnPeerDisconnected(p) PROVE StayInv'
  <2>1. home' = home /\ \A q \in Peer \ {p} : peers'[q] = peers[q] /\ updates'[q] = updates[q]
    BY <1>3 DEF OnPeerDisconnected, DisconnectPending, DisconnectAssigned, HeardInv, TypeInv, TypeOK
  <2>2. CASE ~ Assigned(p)
    <3>1. UNCHANGED updates
      BY <1>3, <2>2 DEF OnPeerDisconnected, DisconnectPending, DisconnectAssigned
    <3> QED
      BY <1>0, <2>1, <2>2, <3>1 DEF StayInv, Unpublished, Assigned
  <2>3. CASE Assigned(p)
    <3>1. updates' = [updates EXCEPT ![p] = Leave(home[peers[p]])]
      BY <1>3, <2>3 DEF OnPeerDisconnected, DisconnectPending, DisconnectAssigned
    <3>2. updates'[p].action # "changeTo"
      BY <3>1 DEF HeardInv, TypeInv, TypeOK, Leave
    <3> QED
      BY <1>0, <2>1, <3>2 DEF StayInv, Unpublished
  <2> QED
    BY <2>2, <2>3
<1> QED
  BY <1>1, <1>2, <1>3

LEMMA NextStays ==
  ASSUME "createSplit" \notin TransportFails, TellInv, StayInv, [ServiceNext]_allVars
  PROVE  StayInv'
<1> USE DEF TellInv
<1>1. Subscription \/ (\E p \in Peer : Expire(p)) => StayInv'
  <2>1. ASSUME NEW p \in Peer, GrowOld(p) PROVE StayInv'
    BY <2>1 DEF GrowOld, vars, mapVars, objVars, flushVars, StayInv, Unpublished
  <2> QED
    BY <2>1, CallbackStays DEF Subscription, Heartbeat, ConnectOrDisconnect, Expire
<1>2. TimerFires \/ Flush => StayInv'
  <2> SUFFICES ASSUME TimerFires \/ Flush PROVE StayInv'
    OBVIOUS
  <2>1. pc = "idle" /\ pc' # "returned" /\ UNCHANGED <<peers, home, updates>>
    BY DEF TimerFires, Flush, BeginFlush, vars, mapVars, objVars, flushVars, LoopInv
  <2> QED
    BY <2>1 DEF StayInv, Unpublished
<1>3. PublishAll \/ PublishThrows => StayInv'
  <2> SUFFICES ASSUME PublishAll \/ PublishThrows PROVE StayInv'
    OBVIOUS
  <2>1. pc = "returned" /\ pc' = "idle" /\ UNCHANGED updates
    BY DEF PublishAll, PublishThrows, Report, SkipReport
  <2> QED
    BY <2>1 DEF StayInv, Unpublished, UpdatesInv, NoUpdate
<1>4. UNCHANGED allVars => StayInv'
  BY DEF allVars, serviceVars, vars, mapVars, objVars, flushVars, StayInv, Unpublished
<1> QED
  BY <1>1, <1>2, <1>3, <1>4, FlushStays DEF ServiceNext, Loop

\* An island_changed message lists its receiver, unless that one was refused
\* after it got there, and then it lists others.  So where the gatekeeper may
\* refuse nobody, every receiver is listed.
THEOREM ReceiversListed ==
  ASSUME "createSplit" \notin TransportFails
  PROVE  ServiceSpec => []ReceiverIsListed
<1> DEFINE Inv == TellInv /\ StayInv
<1>1. Inv => ReceiverIsListed
  <2> SUFFICES ASSUME Inv, pc = "returned", NEW p \in Sent
               PROVE  \/ peers[p] \in members[batch[p].islandId]
                      \/ /\ p \in Bannable
                         /\ peers[p] = NoObj /\ members[batch[p].islandId] # {}
    BY DEF ReceiverIsListed
  <2>1. batch[p].action = "changeTo" /\ batch[p].islandId \in islands /\ p \in Peer
    BY DEF Sent
  <2>2. CASE peers[p] = NoObj
    <3>1. members[batch[p].islandId] # {}
      BY <2>1 DEF TellInv, RefInv, Placed, Sound, SizeInv
    <3>2. p \in Bannable
      BY <2>1, <2>2 DEF StayInv, Unpublished
    <3> QED
      BY <2>2, <3>1, <3>2
  <2>3. CASE peers[p] # NoObj
    <3>1. home[peers[p]] \in IslandId /\ peers[p] \in members[home[peers[p]]]
      BY <2>1, <2>3, KnownIsListed, PlaceTypes DEF TellInv, RefInv, Placed
    <3>2. batch[p] = ChangeTo(home[peers[p]])
      BY <2>1, <2>3, <3>1, Constants DEF TellInv, ToldInv, Unpublished, NoUpdate
    <3> QED
      BY <3>1, <3>2 DEF ChangeTo
  <2> QED
    BY <2>2, <2>3
<1>2. Inv /\ [ServiceNext]_allVars => Inv'
  BY NextTell, NextStays
<1>3. ServiceInit => Inv
  <2>1. ServiceInit => StayInv
    BY DEF ServiceInit, Init, StayInv, Unpublished, NoUpdate
  <2> QED
    BY <2>1, InitTell
<1> QED
  BY <1>1, <1>2, <1>3, PTL DEF ServiceSpec

----------------------------------------------------------------------------
(* The service implements IslandFeed *)

FeedInv == TellInv /\ AssignInv

\* The two instances of IslandAssignment are of the same islands, and neither
\* has ghosts where no call of a split rejects.
LEMMA SameInit == Feed!Assignment!Init <=> Assignment!Init
BY DEF Feed!Assignment!Init, Assignment!Init

LEMMA SameNext ==
  ASSUME "createSplit" \notin TransportFails
  PROVE  Feed!Assignment!Next <=> Assignment!Next
<1>1. \A S, i : /\ Feed!Assignment!Cardinality(S) = Assignment!Cardinality(S)
                /\ Feed!Assignment!On(i) = Assignment!On(i)
  BY DEF Feed!Assignment!Cardinality, Assignment!Cardinality, Feed!Assignment!On, Assignment!On
<1>2. \A S, to : Feed!Assignment!MoveGroup(S, to) <=> Assignment!MoveGroup(S, to)
  BY DEF Feed!Assignment!MoveGroup, Assignment!MoveGroup
<1>3. \A i, j : Feed!Assignment!SplitOff(i, j) <=> Assignment!SplitOff(i, j)
  BY <1>1, <1>2 DEF Feed!Assignment!SplitOff, Assignment!SplitOff
<1>4. \A i, j : Feed!Assignment!Merge(i, j) <=> Assignment!Merge(i, j)
  BY <1>1, <1>2 DEF Feed!Assignment!Merge, Assignment!Merge
<1>5. \A p, j : /\ Feed!Assignment!GiveOut(j) <=> Assignment!GiveOut(j)
                /\ Feed!Assignment!Enter(p, j) <=> Assignment!Enter(p, j)
                /\ Feed!Assignment!Disconnect(p) <=> Assignment!Disconnect(p)
  BY DEF Feed!Assignment!GiveOut, Assignment!GiveOut, Feed!Assignment!Enter, Assignment!Enter,
     Feed!Assignment!Disconnect, Assignment!Disconnect, Feed!Assignment!Move, Assignment!Move
<1> QED
  BY <1>3, <1>4, <1>5
     DEF Feed!Assignment!Next, Feed!Assignment!NewIsland, Feed!Assignment!SameIslands,
         Assignment!Next, Assignment!NewIsland, Assignment!SameIslands

FeedStep == Feed!Next \/ UNCHANGED <<heard, islandOf, givenOut, told, missed>>

\* A heartbeat is heard, and moves nobody.
LEMMA HeartbeatFeeds ==
  ASSUME FeedInv, NEW p \in Peer, NEW x \in Pos, NEW r \in Preference, Heartbeat(p, x, r)
  PROVE  FeedStep
<1>1. UNCHANGED <<islandOf, givenOut, told, missed>>
  BY HeartbeatKeepsIslands DEF Heartbeat, FeedInv, AssignInv
<1>2. Feed!Hear(p)
  BY <1>1 DEF Heartbeat, HeartbeatSet, Feed!Hear
<1> QED
  BY <1>2 DEF FeedStep, Feed!Next

\* A disconnect and an expiry forget everything about the peer at once.
LEMMA ForgetFeeds ==
  ASSUME FeedInv, NEW p \in Peer, ConnectOrDisconnect(p) \/ Expire(p)
  PROVE  FeedStep
<1>1. islandOf' = [islandOf EXCEPT ![p] = NoIsland] /\ givenOut' = givenOut
  BY DisconnectTakesOff
     DEF ConnectOrDisconnect, Expire, OnPeerDisconnected, FeedInv, AssignInv
<1>2. Feed!Forget(p)
  BY <1>1 DEF ConnectOrDisconnect, Expire, HeartbeatDelete, Untell, Feed!Forget
<1> QED
  BY <1>2 DEF FeedStep, Feed!Next

\* A step of the flush regroups: whoever gets an island has a heartbeat time,
\* since the flush makes known only those that waited.
LEMMA FlushFeeds ==
  ASSUME "createSplit" \notin TransportFails, FeedInv, FlushStep
  PROVE  FeedStep
<1>1. (Step \/ Answer) /\ UNCHANGED <<heard, told, missed>>
  BY DEF FlushStep
<1>2. Refines
  BY <1>1, StepRefines DEF FeedInv, Next
<1>3. ASSUME NEW p \in Peer \ heard PROVE islandOf'[p] = NoIsland
  <2>1. peers[p] = NoObj /\ pendingNew[p] = NoObj
    BY <1>3 DEF FeedInv, TellInv, HeardInv, KnownCanExpire
  <2>2. peers'[p] = NoObj
    BY <1>1, <2>1, FlushIntroducesNobody DEF FeedInv, TellInv, HeardInv
  <2> QED
    BY <2>2 DEF islandOf
<1>4. CASE Assignment!Next
  <2>1. Feed!Regroup
    BY <1>1, <1>3, <1>4, SameNext DEF Feed!Regroup
  <2> QED
    BY <2>1 DEF FeedStep, Feed!Next
<1>5. CASE UNCHANGED <<islandOf, givenOut>>
  BY <1>1, <1>5 DEF FeedStep
<1> QED
  BY <1>2, <1>4, <1>5 DEF Refines

\* Publishing tells everybody on an island whose last update is in the batch;
\* those whose publish threw are lost.
LEMMA PublishFeeds ==
  ASSUME FeedInv, NEW sent \in SUBSET Sent, Publish(sent), PublishFails \/ sent = Sent,
         pc = "returned", UNCHANGED <<heard, peers, home, nextId, group, room>>
  PROVE  FeedStep
<1> DEFINE on == Feed!OnIsland
           refused == sent \ on
           lost == Sent \ sent
<1>1. UNCHANGED <<heard, islandOf, givenOut>>
  BY IslandOfUnchanged, GivenOutUnchanged
<1>2. /\ \A p \in on : p \in Peer /\ peers[p] # NoObj /\ islandOf[p] = home[peers[p]]
      /\ \A p \in on : home[peers[p]] # NoIsland
  BY DEF Feed!OnIsland, islandOf
<1>3. ASSUME NEW p \in on
      PROVE  \/ p \in Sent /\ batch[p].islandId = islandOf[p]
             \/ p \notin Sent /\ (told[p] = islandOf[p] \/ p \in missed)
  <2>1. \/ batch[p] = ChangeTo(home[peers[p]])
        \/ batch[p] = NoUpdate /\ (told[p] = home[peers[p]] \/ p \in missed)
    BY <1>2 DEF FeedInv, TellInv, ToldInv, Unpublished
  <2>2. home[peers[p]] \in islands
    BY <1>2, KnownIsListed DEF FeedInv, TellInv
  <2> QED
    BY <1>2, <2>1, <2>2 DEF Sent, ChangeTo, NoUpdate
<1>4. sent \subseteq Peer /\ lost \subseteq Peer /\ refused \in SUBSET Peer
  BY DEF Sent
<1>5. ASSUME NEW p \in refused PROVE peers[p] = NoObj
  <2> SUFFICES ASSUME peers[p] # NoObj PROVE FALSE
    OBVIOUS
  <2>1. home[peers[p]] \in IslandId
    BY <1>4, KnownIsListed, PlaceTypes DEF FeedInv, TellInv, RefInv, Placed
  <2> QED
    BY <1>4, <2>1, Constants DEF Feed!OnIsland, islandOf
<1>6. told' = [p \in Peer |-> IF p \in sent \cap on THEN islandOf[p]
                             ELSE IF p \in refused THEN NoIsland ELSE told[p]]
  <2>1. \A p \in sent \cap on : batch[p].islandId = islandOf[p] /\ peers[p] # NoObj
    BY <1>2, <1>3
  <2>2. \A p \in sent \ on : peers[p] = NoObj
    BY <1>5
  <2> HIDE DEF on
  <2> QED
    BY <1>4, <2>1, <2>2 DEF Publish
<1>7. missed' = (missed \ ((sent \cap on) \cup refused)) \cup lost
  BY DEF Publish
<1>8. \A p \in on \ missed' : told'[p] = islandOf[p]
  <2> SUFFICES ASSUME NEW p \in on \ missed' PROVE told'[p] = islandOf[p]
    OBVIOUS
  <2>1. p \in Peer /\ p \notin lost
    BY <1>2, <1>7
  <2>2. CASE p \in sent
    BY <1>6, <2>1, <2>2
  <2>3. CASE p \notin sent
    BY <1>3, <1>6, <1>7, <2>1, <2>3
  <2> QED
    BY <2>2, <2>3
<1>9. Feed!Tell(sent \cap on, lost, refused)
  <2>1. refused \subseteq Peer \ on /\ sent \cap on \subseteq on
    BY <1>4
  <2>2. PublishFails \/ lost = {}
    OBVIOUS
  <2> HIDE DEF refused, lost
  <2> QED
    BY <1>1, <1>6, <1>7, <1>8, <2>1, <2>2 DEF Feed!Tell
<1>10. sent \cap on \in SUBSET Peer /\ lost \in SUBSET Peer /\ refused \in SUBSET Peer
  BY <1>4
<1> QED
  BY <1>9, <1>10 DEF FeedStep, Feed!Next

LEMMA NextFeeds ==
  ASSUME "createSplit" \notin TransportFails, FeedInv, [ServiceNext]_allVars
  PROVE  FeedStep
<1>1. ASSUME UNCHANGED <<heard, peers, home, nextId, group, room, told, missed>> PROVE FeedStep
  BY <1>1, IslandOfUnchanged, GivenOutUnchanged DEF FeedStep
<1>2. CASE Subscription
  <2>1. ASSUME NEW p \in Peer, GrowOld(p) PROVE FeedStep
    BY <1>1, <2>1 DEF GrowOld, vars, mapVars, objVars, flushVars, callVars
  <2> QED
    BY <1>2, <2>1, HeartbeatFeeds, ForgetFeeds DEF Subscription
<1>3. CASE TimerFires \/ Flush
  BY <1>1, <1>3 DEF TimerFires, Flush, BeginFlush, vars, mapVars, objVars, flushVars, callVars
<1>4. CASE PublishAll \/ PublishThrows
  <2>1. /\ pc = "returned"
        /\ UNCHANGED <<heard, peers, home, nextId, group, room>>
        /\ \E sent \in SUBSET Sent : Publish(sent) /\ (PublishFails \/ sent = Sent)
    BY <1>4 DEF PublishAll, PublishThrows, Report, SkipReport, mapVars, objVars, callVars
  <2> QED
    BY <2>1, PublishFeeds
<1>5. CASE UNCHANGED allVars
  BY <1>1, <1>5 DEF allVars, serviceVars, vars, mapVars, objVars, flushVars, callVars
<1> QED
  BY <1>2, <1>3, <1>4, <1>5, FlushFeeds, ForgetFeeds DEF ServiceNext, Loop

LEMMA InitFeeds == ServiceInit => FeedInv /\ Feed!Init
<1>1. ServiceInit => FeedInv
  BY InitTell, EngineInits, InitAssign DEF FeedInv
<1>2. ServiceInit => Feed!Init
  BY EngineInits, InitRefines, SameInit DEF ServiceInit, Feed!Init
<1> QED
  BY <1>1, <1>2

\* What the other services see of core is what IslandFeed allows: only peers
\* with a heartbeat time enter an island, whoever is forgotten leaves it at once,
\* and each round of updates leaves nobody with an island it was not told of, but
\* for those whose update was lost.
THEOREM ServiceImplementsFeed ==
  ASSUME "createSplit" \notin TransportFails
  PROVE  ServiceSpec => ImplementsFeed
<1>1. FeedInv /\ [ServiceNext]_allVars => FeedInv'
  BY NextTell, EngineSteps, NextAssign DEF FeedInv
<1>2. FeedInv /\ [ServiceNext]_allVars => [Feed!Next]_<<heard, islandOf, givenOut, told, missed>>
  BY NextFeeds DEF FeedStep
<1> QED
  BY <1>1, <1>2, InitFeeds, PTL DEF ServiceSpec, ImplementsFeed, Feed!Spec

============================================================================
