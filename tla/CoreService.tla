---------------------------- MODULE CoreService ----------------------------
(***************************************************************************)
(* The core service around the engine: main in core/src/service.ts with    *)
(* the publisher (core/src/adapters/publisher.ts).                         *)
(*                                                                         *)
(* Three NATS subscriptions feed the engine and keep the time of the last  *)
(* heartbeat of every peer; a loop expires the silent peers, flushes the   *)
(* engine and publishes what the flush returns.  Expiring and publishing   *)
(* run without an await, so nothing interleaves with them; the flush does  *)
(* interleave, as Engine says.                                             *)
(*                                                                         *)
(* Times are abstracted to old: the peers whose last heartbeat is more     *)
(* than CHECK_HEARTBEAT_INTERVAL ago.                                      *)
(***************************************************************************)
EXTENDS Engine

CONSTANT PublishFails       \* may nats.publish throw?

ASSUME PublishAssumption == PublishFails \in BOOLEAN

VARIABLES
  heard,        \* the keys of lastPeerHeartbeats
  old,          \* those among them that have expired
  loopAt,       \* where loop is: waiting for its timer, expiring, flushing
  batch,        \* the updates that the flush returned
  told,         \* the island each known peer was last sent
  missed        \* the peers whose last update was lost when a publish threw

serviceVars == <<heard, old, loopAt, batch, told, missed>>
allVars == <<vars, serviceVars>>

ServiceInit ==
  /\ Init
  /\ heard = {} /\ old = {}
  /\ loopAt = "waiting"
  /\ batch = [p \in Peer |-> NoUpdate]
  /\ told = [p \in Peer |-> NoIsland]
  /\ missed = {}

----------------------------------------------------------------------------
(* The subscriptions *)

\* Mutant: only the heartbeats of peers the engine knows are recorded.
HeartbeatSetIfKnown(p) ==
  /\ heard' = IF peers[p] = NoObj THEN heard ELSE heard \cup {p}
  /\ old' = old \ {p}

\* lastPeerHeartbeats.set(id, Date.now())
HeartbeatSet(p) ==
  /\ heard' = heard \cup {p}
  /\ old' = old \ {p}

\* peer.*.heartbeat; r is its desiredRoom.  One without a position is ignored.
Heartbeat(p, x, r) ==
  /\ loopAt # "expiring"
  /\ NewPeerPosition(p, x, r) \/ KnownPeerPosition(p, x, r)
  /\ HeartbeatSet(p)
  /\ UNCHANGED <<loopAt, batch, told, missed>>

\* Mutant: the age of a deleted heartbeat is kept.
HeartbeatDeleteForgotten(p) ==
  /\ heard' = heard \ {p}
  /\ UNCHANGED old

\* lastPeerHeartbeats.delete(id)
HeartbeatDelete(p) ==
  /\ heard' = heard \ {p}
  /\ old' = old \ {p}

\* What was sent to p is of no meaning any more.
Untell(p) ==
  /\ told' = [told EXCEPT ![p] = NoIsland]
  /\ missed' = missed \ {p}

OnPeerDisconnected(p) == DisconnectPending(p) \/ DisconnectAssigned(p)

\* peer.*.connect and peer.*.disconnect, which are handled alike.
ConnectOrDisconnect(p) ==
  /\ loopAt # "expiring"
  /\ HeartbeatDelete(p)
  /\ OnPeerDisconnected(p)
  /\ Untell(p)
  /\ UNCHANGED <<loopAt, batch>>

\* Time passes: the last heartbeat of a peer is now too long ago.
GrowOld(p) ==
  /\ loopAt # "expiring"
  /\ p \in heard \ old
  /\ old' = old \cup {p}
  /\ UNCHANGED <<vars, heard, loopAt, batch, told, missed>>

----------------------------------------------------------------------------
(* loop *)

TimerFires ==
  /\ loopAt = "waiting"
  /\ loopAt' = "expiring"
  /\ UNCHANGED <<vars, heard, old, batch, told, missed>>

Expire(p) ==
  /\ loopAt = "expiring"
  /\ p \in old
  /\ HeartbeatDelete(p)
  /\ OnPeerDisconnected(p)
  /\ Untell(p)
  /\ UNCHANGED <<loopAt, batch>>

Flush ==
  /\ loopAt = "expiring"
  /\ old = {}
  /\ BeginFlush
  /\ loopAt' = "flushing"
  /\ UNCHANGED <<heard, old, batch, told, missed>>

FlushStep ==
  /\ Step \/ Answer
  /\ batch' = IF pc' = "returned" THEN updates ELSE batch
  /\ UNCHANGED <<heard, old, loopAt, told, missed>>

\* Mutants: the island is not looked up; the first one missing ends the loop.
SentUnchecked == {p \in Peer : batch[p].action = "changeTo"}
SentIfNoneMissing ==
  {p \in Peer : /\ batch[p].action = "changeTo"
                /\ \A q \in Peer : batch[q].action = "changeTo" => batch[q].islandId \in islands}

\* The peers that get an island_changed: an update whose island has gone in
\* the same flush is skipped, a leave is not sent.
Sent == {p \in Peer : batch[p].action = "changeTo" /\ batch[p].islandId \in islands}

\* onChangeToIsland, for those of Sent that it does not throw for.  One that was
\* refused meanwhile is known no more, and has been told nothing once it is back.
Publish(sent) ==
  /\ told' = [p \in Peer |-> IF p \notin sent THEN told[p]
                             ELSE IF peers[p] = NoObj THEN NoIsland ELSE batch[p].islandId]
  /\ missed' = (missed \ sent) \cup (Sent \ sent)

\* Mutant: the timer is set again only after a report.
SetTimerIfReported == loopAt' = IF dirty' = {} THEN "waiting" ELSE loopAt

\* The finally clause of the loop.
SetTimer == loopAt' = "waiting"

PublishAll ==
  /\ pc = "returned"
  /\ Publish(Sent)
  /\ Report
  /\ SetTimer
  /\ batch' = [p \in Peer |-> NoUpdate]
  /\ UNCHANGED <<heard, old>>

\* A publish throws: the other updates and the report are lost.
PublishThrows ==
  /\ PublishFails
  /\ pc = "returned"
  /\ \E sent \in SUBSET Sent : Publish(sent)
  /\ SkipReport
  /\ SetTimer
  /\ batch' = [p \in Peer |-> NoUpdate]
  /\ UNCHANGED <<heard, old>>

----------------------------------------------------------------------------

Subscription ==
  \E p \in Peer :
    \/ \E x \in Pos, r \in Preference : Heartbeat(p, x, r)
    \/ ConnectOrDisconnect(p)
    \/ GrowOld(p)

Loop ==
  \/ TimerFires
  \/ \E p \in Peer : Expire(p)
  \/ Flush
  \/ PublishAll
  \/ PublishThrows

ServiceNext == Subscription \/ Loop \/ FlushStep

ServiceSpec == ServiceInit /\ [][ServiceNext]_allVars

\* The timer fires, the loop and its flush run on, and the transport answers
\* every call: its ban checks are aborted after a second and its tokens are made
\* locally.  Nothing obliges a peer to send or to leave.
FairServiceSpec == ServiceSpec /\ WF_allVars(Loop \/ FlushStep)

----------------------------------------------------------------------------
(* Properties *)

\* The state has its types; only a heartbeat that is kept can have expired.
ServiceTypeOK ==
  /\ heard \subseteq Peer
  /\ old \subseteq heard
  /\ loopAt \in {"waiting", "expiring", "flushing"}
  /\ batch \in [Peer -> Update]
  /\ told \in [Peer -> IslandId \cup {NoIsland}]
  /\ missed \subseteq Peer

\* Whoever the engine knows or is about to know has a heartbeat time, without
\* which the loop would never expire it: the two maps of service.ts and
\* engine.ts are updated by different handlers and by the flush.
KnownCanExpire ==
  \A p \in Peer : peers[p] # NoObj \/ pendingNew[p] # NoObj => p \in heard

\* Between two loops every known peer has been told the island it is on,
\* whatever was merged, split, evicted or gone during the flush, and unless the
\* loop failed before it came to that peer.
ToldTheirIsland ==
  loopAt = "waiting" =>
    \A p \in Peer \ missed : peers[p] # NoObj => told[p] = home[peers[p]]

\* An island_changed message lists its receiver among the peers of the island,
\* although the island is looked up only after the flush (service.ts, loop):
\* unless the transport refused the receiver after it got there, and left others
\* behind.
ReceiverIsListed ==
  pc = "returned" =>
    \A p \in Sent :
      \/ peers[p] \in members[batch[p].islandId]
      \/ p \in Bannable /\ peers[p] = NoObj /\ members[batch[p].islandId] # {}

\* The flush is to create an island, for which the bound leaves no id.
OutOfIds ==
  /\ nextId + 1 \notin IslandId
  /\ \/ pc = "new" /\ NotPassed # {}
     \/ pc = "groups" /\ limbo # {}

\* A silent peer is forgotten, unless it is heard again: the flush before it ends
\* and the loop goes on after whatever throws in it.  A flush may not end while
\* peers keep joining: each of them makes the loop over pendingNewPeers create and
\* await one more island.  Within a bound such a flush uses up the ids, and is
\* excepted where it stands without one; FlushAdvances says that joins alone can
\* hold a flush up.
SilentPeersExpire ==
  \A p \in Peer : p \in old ~> (p \notin old \/ OutOfIds)

============================================================================
