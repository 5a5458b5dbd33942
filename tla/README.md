# Archipelago workers: TLA+ specifications and proofs

Archipelago groups the connected peers of a virtual world into *islands* by their positions, so
that the peers of an island share a voice and data room. This directory holds TLA+ models of the
services' code, the TLC runs that check them on small instances, and proofs checked by TLAPS.
Everything is written from the TypeScript under `core/src`, `ws-connector/src` and `stats/src`;
docs and comments are only quoted where the code disagrees with them.

Run a model with `tlc -config X.cfg M` and a proof with `tlapm M.tla`. `PROJECT.json` lists the
runs, the mutants that show that each property can fail, the source lines each definition stands
for, the hazards and the theorems.

## 1. The system

```
 client --ws--> ws-connector --peer.*.heartbeat / disconnect--> NATS --> core  (engine, publisher)
                     ^                                           |        | livekit transport
                     +------ engine.peer.*.island_changed -------+--------+  (gatekeeper, tokens)
                                                                 +--> stats <-- engine.islands
```

| Component | State | Operations | What is hard | What makes it correct |
|---|---|---|---|---|
| Engine `core/src/adapters/engine.ts` | `peers`, `pendingNewPeers`, `islands` (arrays of references, dirty flag), `pendingUpdates` | `onPeerPositionsUpdate`, `onPeerDisconnected`, `flush` | `flush` awaits the transport in each of its phases; callbacks run meanwhile | maps and arrays agree; capacity; no empty island; islands follow the positions; a flush advances with each step and ends, unless peers keep joining |
| Geometry `core/src/logic/islands.ts` | none | intersection, grouping, `popMax` | the order of arrays | groups are the connected components |
| Id generator `core/src/logic/idGenerator.ts` | a counter | `generateId` | restarts | ids are fresh |
| Core service `core/src/service.ts` | `lastPeerHeartbeats` | subscriptions, `loop` | updates of a flush are published after it; failures in the loop | peers are told their island; silent peers expire |
| Publisher `core/src/adapters/publisher.ts` | none | island change, report, discovery | the report clears dirty flags | the receiver is listed |
| Livekit transport `core/src/components.ts` | one call: cursor, results | `getConnectionStrings` | workers interleave; the gatekeeper fails | nobody is skipped or refused without a ban |
| Websocket handler `ws-connector/src/controllers/handlers/ws-handler.ts` | user data of sockets, deny list cache | `open`, `message`, `close`, timers | an asynchronous handler, with closes and other messages during its awaits | one live, registered session per address; handshakes end |
| Peers registry, ban checker, ban sweep `ws-connector/src/adapters` | address -> socket | connect, disconnect, sweep | deletion by address; a session replaced during a check | banned sessions end |
| Forwarding `ws-connector/src/service.ts` | none | `island_changed` to the socket | the session may be a newer one | a client gets its own changes only |
| Stats `stats/src` | peers, last islands report, last discovery | three NATS handlers, HTTP reads | lost disconnects, reports older than the peers, an await between a count and its answer | no peer is listed after it left; every peer is counted once |

The components interact through NATS messages only, which are not acknowledged; inside a service,
through calls and the shared maps above. Nothing is persisted: a restart starts from nothing.

## 2. The modules

| Module | Models | Extends |
|---|---|---|
| `Islands` | distances, `intersectIslands`, groups as connected components | |
| `Engine` | the engine, cut at its awaits | `Islands` |
| `SplitLoop` | the grouping loop of `checkSplitIsland`, one step per peer | `Islands` |
| `IslandAssignment` | abstract: how the assignment of peers to islands may change | |
| `EngineImplements` | the refinement mapping from `Engine` to it | `Engine` |
| `Transport` | one call of `getConnectionStrings` | |
| `CoreService` | the subscriptions, the loop and the publisher around the engine | `Engine` |
| `IslandFeed` | abstract: what core promises to the other services | instance of `IslandAssignment` |
| `ServiceImplements` | the refinement mapping from `CoreService` to it | `CoreService`, `EngineImplements` |
| `WsConnector` | websocket handler, deny list cache, peers registry, ban checker and ban sweep | |
| `Sessions` | abstract: what the gateway promises to the other services | |
| `WsImplements` | the refinement mapping from `WsConnector` to it | `WsConnector` |
| `Stats` | the peers and the islands report of stats, `/peers` and `/islands` | |
| `StatsAnswers` | `/parcels` and `/hot-scenes` | `Stats` |
| `Services` | gateway, core and stats over NATS, with losses and restarts | instances of `Sessions`, `IslandFeed`, `Stats` |
| `MC*` | constants, symmetry and views for TLC | |
| `*Proof` | theorems and proofs | |

The system is too large to be composed from its detailed modules. It is composed from abstract
ones instead, each of which a run shows to be implemented by the code's model:

```
 Engine --ImplementsAssignment--> IslandAssignment       WsConnector --ImplementsSessions--> Sessions
 CoreService --ImplementsFeed--> IslandFeed                                                     |
                                     |                                                          |
                                     +---------------> Services <------------ Stats  <----------+
```

### Engine

`peers` and `pendingNew` map an id to an object, `members` maps an island to a set of objects,
and `home`, `pref`, `pos` are the fields of the objects: the code keeps *references*, and a peer
that leaves and returns is a new object while the old one may still be in an array that a
suspended flush holds. `pc` says where the flush is; the states `createNew`, `createSplit` and
`mergeInto` are its awaits. Actions come in four kinds: the callbacks (`NewPeerPosition`,
`KnownPeerPosition`, `DisconnectPending`, `DisconnectAssigned`), enabled between flushes and
during awaits; the steps between awaits (`PlaceNewPeer`, `AllPlaced`, `SplitIsland`,
`MergeIslands`, `CallMerge`, ...); the answers (`CreateIsland`, `MergeInto` and their failures);
and what the caller does (`Return`, `Report`, `SkipReport`).

Abstractions. The order of an array decides only ties, which become free choices. Island ids are
numbers in generation order and also stand for `sequenceId`: an id without an island consumes no
`sequenceId`, but the order is the same. `fromIslandId` and connection strings are dropped, since
nothing reads them back. The circle test of `intersectIslands` is implied by the pairwise one
(the center of a group within *r* of each member) and is left out. `visited` is the set of keys
of `pendingNewPeers` that the running `for ... of` has passed: `Map.set` on a present key keeps its
place, deleting and setting it again puts it last. `PeerGroups` is defined by closed sets rather
than by recursion, so that it can be reasoned about; `SplitLoop` checks, and its proof shows, that the loop computes it.

`IslandAssignment` sees only which island each known peer names. It has one constant, `Ghosts`: may
an island list a peer that has left? Only a split that fails makes ghosts, so `EngineImplements` sets it
to `"createSplit" \in TransportFails`. With ghosts two more things can be seen from outside: a peer that has
come back elsewhere is dropped there when its ghost is refused, and an island of nothing but
ghosts can merge.

### CoreService

Expiring (a loop without an await) and publishing run alone, so no subscription is enabled in
between; the flush interleaves as in `Engine`. Times are abstracted to `old`, the peers whose
heartbeat is older than `CHECK_HEARTBEAT_INTERVAL`. `told` is the island each peer was last sent
since core last forgot it. `peer.*.connect` is handled like a disconnect; nothing in the
repository publishes it.

`IslandFeed` keeps what the other services can see of all this: whose heartbeat time is kept, the
island of each peer (which changes in the ways of `IslandAssignment` only, and is entered by heard
peers only), and what each was sent. Its `Tell` is the end of a round of the loop: after it
nobody is on an island that it was not told of, but for those whose update a throwing publish lost.

### Transport

One step per answer of the gatekeeper or of `mintToken`. `Unanswered` users are those for which
the gatekeeper fails, which `isBanned` takes for "not banned". `Answers` in `Engine` is what is
checked here, with any subset of the peers refused.

### WsConnector

A message handler that awaits is a task of its socket; nothing keeps a second message, the close
or the timer waiting, so every task may resume in any order. `ws.end()` runs the close handler
before it returns, the user data of a closed socket is still readable, and `send` on it throws
(behaviour of uWebSockets.js, outside the repository). The address that the first message claims, the
verdict of the signature and the wallet that signed are free choices of each handler (`signer`):
nothing ties two signed challenges of one socket to one wallet, and both may pass the stage check before
either completes. The second then registers the socket for its own wallet and overwrites
`userData.address`, and a heartbeat in between has told core of the first. `TakenOver` names that first
wallet, and `abandoned` keeps it until core hears a heartbeat or a disconnect of it: a history variable, which
only properties read. The cache of the
deny list is shared by all handshakes: one that finds it stale fetches, a fetch that fails leaves
the old list and counts as fresh, an answer without users empties it; how long a list is fresh is
left open. `active` is the set of addresses that core has heard of since their last disconnect,
with NATS delivering in order. The clients of
`Patient` sockets send nothing and do not close while their last message is handled; real ones
may, which is what `ghost_session` is about.

`Sessions` is what is left of this for the other services: an address has one session at a time,
heartbeats come from a session, and each session is followed by a disconnect before the next one
begins. Only a session whose socket passes to another wallet ends without one (`Lose`). The mapping
takes the open socket that has completed its handshake as the session, and does not count the
abandoned as active; `Handshake` is the one step in which a session begins, another socket of its wallet is kicked,
and whoever had the new one's socket, or signed on the kicked one since, loses it.

### Stats and StatsAnswers

`Stats` has the two maps of `adapters/stats.ts`, one action per NATS message, and the answers at
`/peers` and `/islands` as operators over the state. `StatsAnswers` adds what is counted: `/parcels`,
and `/hot-scenes` cut at its await of the content server, while heartbeats and disconnects go on.
`Sorted` and `Slice` are sets: scenes with the same count keep the order of the content server, which is
open. Parcels are pairs of numbers, positions are whole numbers (fractions change no quotient), and
`ParcelsOf` has the parcels of each scene, without repetitions.

### Services

The gateway is `Sessions`, core is `IslandFeed`, stats are `Stats`; the module adds the channels
between them (in order, since one connection publishes to another; at most once), what each
session was last sent (`client`), which clients send no heartbeats (`quiet`), and the faults: a
message is lost, a socket passes to another wallet (`TakeOver`, and `Misdirect` for the island changes
that go to its client as long as the registry has the old entry), or a service restarts with nothing. A restart is one step: what the
others do while a service is down they could as well do before, and the messages are lost in either
case. Forwarding (`Deliver`) goes to the session that is registered when the message arrives.

A handshake that ends several sessions at once in `Sessions` is taken here one address at a time, in the
order in which the gateway publishes: nothing is known here of which addresses share a socket, so `TakeOver`
may come to any session at any time. An "unheard" message is no message: it marks in a channel where a crashed
gateway, or one whose socket was taken over, did not publish a disconnect, so that `coreMissed` and
`statsMissed` can say from when on a service takes a session that is over for a live one (`coreMissed`
also whether the client was kept from an island change). They and it are history variables: no other
variable depends on them. `Expire` is enabled only for peers without a session or whose client has not been sending:
this is the timing assumption that a client that is not quiet sends, and its heartbeats
arrive, more often than `CHECK_HEARTBEAT_INTERVAL`.

## 3. What is checked

Bounds: `Slots` objects per peer id, `LastId` island ids (when they are used up, no island can be
created and that branch of the run stops, which is why the liveness properties except it and why
the engine's runs do not check deadlock), `Xs` positions on a line, `Ws` sockets, `Task` handlers
under way per socket. In `MCEngine` 0 and 2 are within the join distance, 2 and 5 within the
leave distance only. Two peers suffice for every race of one transport call with one callback;
three are needed for a split against a queued merge and for two merges in one flush; one object
slot serves where a peer may return once everything has forgotten its old object, two where the
old object is to be held by a suspended flush meanwhile. `VIEW` leaves out the fields of objects
that nothing refers to. `TransportFails` names the places whose transport calls may reject
(`createNew`, `createSplit`, `mergeInto`): a split that rejects leaves ghosts behind (`ghost_member`),
so what holds only without them is checked, and proved, with other calls rejecting.
`engine_failures` has all three reject; there every peer prefers island 2, so that merges do and do
not find the preferred island among those they may choose. Its bounds are two peers, three objects
of each and five ids: with three peers, one object each and three ids no island of ghosts alone
could merge, and no refused ghost could evict its peer elsewhere, so that the run passed without
the part of `IslandAssignment` that allows for them. In `service` one peer may be refused and the other
never is. `apart_island` needs a fourth peer, two on
the island in the middle and one on each side.

In `ws_sessions` two sockets with two handlers each suffice for a session that replaces another
while both have messages under way and for a socket that two wallets sign on; three wallets are one
that is denied, one that may be banned and one that takes a socket over. `services` has one address, since the services treat addresses apart from one another (what
peers of one island have to do with each other is checked in `service`); it has one session identity,
which may begin again and again, two core messages, one for stats, one island change and one report
on their way, two island ids and one fault of any kind at any point. For more of each of these, the theorems of
`ServicesProof` have the safety properties. Four peers and a limit of two make `stats_answers` have parcels and scenes with several
peers, ties and scenes that are cut off.

| Run | Properties | Shows |
|---|---|---|
| `engine_callbacks` | `TypeOK MembersAreKnown EveryPeerPlaced Capacity NoEmptyIsland MovesAreNoticed` | maps and arrays agree although callbacks run during every await, any peer may be refused and calls for new peers reject; a peer that moves marks the island that lists it |
| `engine_failures` | `Capacity ListsAgreeWithHomes FlushAdvances MovesAreNoticed ImplementsAssignment` | with callbacks, preferences and calls that reject, those of splits included, arrays and the islands that objects name agree although arrays hold ghosts; groups still move together, whole islands merge, ids are fresh, a group that is put back finds room, and each step of a flush leaves it less to do, but for peers that join while it waits to place another |
| `split_loop` | `GroupsAreComponents` | the loop computes connected components, for five peers on a 3x2 grid |
| `transport` | `AnswerIsComplete ItemsShared CallEnds` and types | the assumption of the engine on its transport |
| `service` | `KnownCanExpire ToldTheirIsland ReceiverIsListed NoHeartbeatDropped SilentPeersExpire ImplementsFeed` and types | what is published fits the islands, heartbeat times cover whoever the engine knows, no heartbeat of a peer that is never refused is dropped, a flush ends, as far as peers that join leave it an id, and thus the loop goes on, although merges reject and publishing throws; core is an `IslandFeed` |
| `ws_sessions` | `LiveSessionsRegistered ActiveHasSession PatientIsLive DeniedStaysOut TimerSparesSessions ImplementsSessions HandshakeEnds BannedSessionsEnd` and types | one live session per address, nobody on the deny list; core is told of those that ended, unless another wallet took their socket; a patient client among impatient ones leaves no stale entry and is not cut off; handshakes end, and so do sessions of banned users; the gateway is a `Sessions` |
| `services` | `InSync NobodyLingers SessionsForgotten SessionsTold` and types | through restarts, losses and sockets taken over a session learns the island core has it on, and core and stats forget who left |
| `stats_answers` | `ParcelsCountEverybody HotScenesCount HotScenesAreHottest` | counts are exact, on all sides of the origin, and those of `/hot-scenes` are of one moment |

`CHECK_DEADLOCK FALSE` is stated where a run uses up its ids or sockets, and in `split_loop` and
`transport`, whose programs end. `ws_sessions` has `BanCheckFails = FALSE` and `FetchFails = FALSE`: a
gatekeeper that never answers bans nobody, and a deny list that was never fetched denies nobody. `missed` in `CoreService` names the peers whose last
update was dropped when a publish threw; no later flush repeats it, and `ToldTheirIsland` says
that nobody else is left untold.

### Findings

Four runs end in a violation, each of something a comment or a document of the repository says:

- `ghost_member`: a split call rejects after a member of its group disconnected; the catch puts
  the whole group back (engine.ts:209) and the member stays in the island as a ghost. The same
  catch can put known peers back into an island that a disconnect has deleted from the map
  meanwhile; their heartbeats then only move them, and no flush places them again, although the
  comment there says "Put them back in the original island to avoid orphaning them".
- `ghost_session`: a socket that closed during its handshake is registered afterwards
  (ws-handler.ts:241).
- `untold_session`: core subscribes to `peer.*.connect` in order to start over with a peer
  (service.ts:68), but nothing publishes it. When a gateway crashes, it publishes no disconnects; a client
  that is back at once keeps the old entry of core alive with its heartbeats, and core has told that
  entry its island. The new session is sent no island until its island changes for another
  reason, although `docs/ai-agent-context.md:5` says that the gateway "drives the island assignment loop
  for the lifetime of the session". `SessionsTold` shows that a
  session is otherwise told its island, unless core missed the end of the session before it or the
  island change itself was lost.
- `apart_island`: of the islands that intersect one affected island (engine.ts:154-160), `mergeIslands`
  tries each with all that came before it, and `mergeIntoIfPossible` looks at sizes only
  (engine.ts:260-305). When the affected island is full, two islands on its two sides are merged with
  each other (engine.ts:339) although their peers are farther apart than the leave distance. The merge
  marks the island, but the islands report reads its geometry, which clears the flag, so no flush
  splits it before one of its peers moves, while `docs/ai-agent-context.md:89` calls that distance the
  "Distance threshold to split peers into different islands". The run needs no refusal, no failure
  and no callback during an await: `CleanIslandsTogether` says of a clean island that it is in one piece.

The first needs a transport call that rejects: the gatekeeper's failures do not (they fail
open), only a token that cannot be signed does.

Observations without a run of their own:

- A flush need not end. The loop over `pendingNewPeers` (engine.ts:121) awaits a call of the transport for each
  entry and walks the entries that heartbeats add meanwhile as well, so peers that keep joining, or that leave and
  return, during each await keep the flush in its first phase: nothing is published, and nobody expires.
  `FlushAdvances` says that this is the only way: any other step of a flush, whatever a callback did during
  its awaits, shrinks `WorkLeft`. `SilentPeersExpire` therefore makes an exception where a flush has no id left for the island
  it is to create, which in the bounded model stands for peers that go on joining (`OutOfIds`).
- Two wallets that sign on one socket (ws-handler.ts:190-248): once a heartbeat has gone out for the first, and
  the second handshake has overwritten the address, no close handler publishes a disconnect of the first.
  Core drops it when its heartbeats are too old, and `/islands` with the next report (`SessionsForgotten`); `/peers` lists it until
  it has been connected and disconnected again. Its entry stays in the registry: island changes of the
  first go to the client of the second, and a ban of the first, or a new handshake of it, ends the second's
  session.

- A move during an await of the merge phase sets a dirty flag that the next read of the geometry
  clears (engine.ts:33), so that the split is not looked for until another move. What does hold is
  `MovesAreNoticed`: at the time of the move the flag is set on the island that lists the peer.
- Islands are compared once per affected island, before the merges of the same flush
  (engine.ts:151-165), so an island that a merge has brought within the join distance of a clean one
  stays apart from it until a peer of either moves.
- A peer that is refused and heard again in the same first phase of a flush is dropped by
  `pendingNewPeers.clear()` (engine.ts:132) until its next heartbeat. `HeartbeatsKept` proves that
  it takes a refusal of that very peer, or a call of the first phase that rejects.
- Each island change is sent once. One that is lost leaves its client without it until the next
  change; `InSync` and `SessionsTold` except this by `coreMissed`.
- A client that sends a second `challengeRequest` before the first is handled gets a second timer, over the first
  one, which nothing clears (ws-handler.ts:174): it ends the session later, though the handshake has
  completed (`leaked`). `TimerSparesSessions` is about clients that wait for their answers.
- A peer whose disconnect stats missed stays in `/peers` until it has been connected and
  disconnected again (`statsMissed` in `NobodyLingers`), while `docs/stats/openapi.yaml:102` calls the list
  "all peers (users) currently active". `/islands` recovers with the next report (`SessionsForgotten`).
- A peer that two splits of one flush move, and that the second one's call refuses, is still sent
  the island of the first, which no longer lists it: the update is looked up by island only
  (service.ts:43-54). It takes four peers; `ReceiverIsListed`, for peers that may be refused, and `Tell` in
  `IslandFeed` (its `refused`) allow for it. Nothing follows from it later: whoever was refused is told again once it is
  back on an island, which is why `told` forgets what such a peer was sent.
- A fetch of the deny list that ends after a later one replaces its answer with an older one for the
  life of the cache. With a list that changes, a denial may so come five minutes late; the model's
  list does not change.

### Fairness

`FairServiceSpec` of `CoreService`: the loop and its flush run on by themselves, by the timer that the loop sets and
as the transport answers (`Answer`: the fetch is aborted after one second, the token is signed in the process;
`CallEnds` in `Transport` checks that such a call ends). `FairSpec` of `WsConnector`: timers
fire, awaits resolve, and the sweep runs by `setInterval`; each check of the sweep ends. No
fairness is asked of clients, of callbacks or of the gatekeeper's verdict. `FairSpec` of `Services`:
what is on its way and not lost arrives, the loop of core tells and expires, the engine places a peer
it hears from (what `SilentPeersExpire` and `EveryPeerPlaced` check of the detailed model), and a client
that is not quiet sends heartbeats. Nobody need begin or end a session, and faults are bounded in
number, as the properties are about what happens after the last one.

## 4. What is proved

For every value of the constants, under the assumptions named in the modules: any peers, objects,
positions, distances and sizes, any number of sockets, tasks, messages and faults. `TransportFails`
may be anything unless a theorem says otherwise.

**Engine.** `EngineProof`, with no assumption on the transport:

- `TypeCorrect`, `CapacityKept` and `IslandsInhabited`. The inductive invariant `Sound` adds to the types
  what the flush holds outside the islands map: the groups of a running split are disjoint subsets that
  were cut from the island they came from, the sum of what is left in it and of its groups is
  within the capacity (so that putting all of them back is safe), and the id that a `createIsland` waits
  with is fresh.
- `ListsAgree` (`ListsAgreeWithHomes`). `Placed` adds to `Sound` what survives failed splits: maps are keyed
  by the ids of what they hold; an object in an array names that island, which is in the map; whoever
  is in transit is in no array, and names the island that is being split, or none for a new peer, as
  `setPeersIsland` only comes after the await; and the island that is being merged is none of its own
  targets.
- `MovesSeen` (`MovesAreNoticed`): a heartbeat that moves a listed object is of the very object in
  `peers`, whose island is the one that lists it, so that one is marked.
- `EveryFlushAdvances` (`FlushAdvances`). `WorkLeft` lists finite sets, the most telling first: the phases left; the
  entries to be placed; the peers in affected islands not yet looked at, and in groups; the groups; whether one is
  being placed; the affected islands left; the queue; the island that is merged; its targets left; where in a
  round the flush is. A split adds an island to `affectedIslands`, but only of peers that it took off the one it has passed:
  a peer of the group that stays is no longer among the third; that a group goes back to a passed island only is `SplittingInv`.
  Merging into a target, giving up on one and keeping an island apart each shrink one of the last. Callbacks take
  peers off these sets, or let one join.
- `EngineImplementsAssignment`, the refinement of `IslandAssignment`. A split maps to one `SplitOff` per
  group, when its call answers; a merge is a `Merge` of two islands that both exist and fit; an id counts
  as given out once the call that waits with it has ended. Steps between awaits map to stutters. The
  invariant is `AssignInv`: `Placed`, and `RefInv` unless splits may fail.

With an assumption on the calls that may reject, which a run or the model shows to be needed:

- `NoGhosts` and `NoOrphans`, if no call of a split rejects (`ghost_member` has one that does). `RefInv`
  adds to `Placed` that an array lists the very objects in `peers`, and that a known peer is in an
  array or in transit.
- `HeartbeatsKept` (`NoHeartbeatDropped`), if no call of the first phase rejects: a key that the flush has
  passed, of a peer that is never refused, is of a peer in `peers`, as the object it waited with. Other
  peers may be refused meanwhile.

**Groups of a split.** `IslandsProof`: the groups are not empty and partition the members of the island
(`PeerGroupsPartition`), and `OneMorePeer` says how components change with one more peer: those near
it are united with it. `SplitLoopProof.LoopFindsComponents` follows: the groups so far are the
components of the peers walked so far, so the loop ends with `PeerGroups`, which `Engine` takes.

**Transport.** `TransportProof`: types, and the answer of a call names exactly the users that the
gatekeeper does not call banned (`AnswerKept`), no two workers are at one user (`EachItemOnce`), and
nobody writes into an answer that is in use (`AnswerNotTouched`). The invariant says that an item
without a result is ahead of the cursor or in a worker's hands, and that a worker returns only when
the cursor has passed the last item.

**Core service.** `CoreServiceProof`: the engine inside the service takes only the steps that
`Engine` specifies (`EngineInside`), so that the theorems above hold there as well
(`ReportsInhabited`); `ServiceTypes`; and `EverybodyExpires`: the steps of the flush make known only
peers that were waiting already, so that the types and `KnownCanExpire` are inductive together. With
the assumption on splits:

- `EverybodyTold` and `ReceiversListed`. Without the assumption the first is false: a peer that has
  returned can be told the island of the ghost it left behind. `ToldInv` says of each known peer that its island is in the
  update still to be published (in the engine during the flush, in the batch after it), or that
  there is none and it was told its island, or its update was lost. `FlushMoves` supplies what each
  step of the flush does to the island and to the update of a peer. `StayInv` says that a peer that is
  never refused, and is to be sent an island, is on one, so that every receiver is listed where the
  gatekeeper refuses nobody (`Bannable = {}`).
- `ServiceImplementsFeed`, the refinement of `IslandFeed`: the engine's steps map by the refinement
  above, the subscriptions to `Hear` and `Forget`, a round of publishing to `Tell`.

**Gateway.** `WsConnectorProof`: `TypeCorrect`, `OneSession`, `NobodyAbandoned` and `DenyListHolds`.
Any wallets may sign on a socket, in any of its handlers. `NobodyAbandoned` says of everybody whose socket was not
taken over that core hears a disconnect of them, or still has a session of them.
The inductive invariant adds that a completed handshake has an address, as has a socket in the
registry, that nothing is under way on a socket that was never opened, that whoever a handler has authenticated is a wallet, and, unless fetches fail, that a fetched deny list is the real one and whoever is
past its second check is not on it. `PatientsRegistered` and `TimersSpareSessions` are about clients
that wait for their answers: one task at a time, no timer while it runs, and no close before it ends.
`GatewayImplementsSessions` is the refinement of `Sessions`, with one step per action: a handshake that replaces a
session, or takes over a socket, or both, is one `Handshake`.

**The services together.** `ServicesProof`: `TypeCorrect`, `StatsForgets` (`NobodyLingers`) and
`SessionsInSync` (`InSync`), where the run has one address and one fault. Both properties are about
empty channels, so what is inductive says what the channels hold in store. `StatsInv` and `CoreInv`:
whoever has no session and is not forgotten, nor excepted by `statsMissed` or `coreMissed`, has the end
of its session on its way, and no heartbeat comes after the last end. `ToldInv`: the last of the
island changes on their way to an address is the one that core has it told; if there is none on its
way, a session that core does not take for an earlier one knows that island. The lemmas on `Append`,
`Tail` and `\o` say what each step does to such a channel.

**What stats count.** `StatsAnswersProof`: `ParcelsRight`, `CountsRight` and `HottestListed`, for any peers,
positions, limit and any finite set of scenes. The community modules' sum over a set is a recursive
function on its subsets; an induction theorem cannot be instantiated here, but the library's theorem on
minimal elements of a well-founded relation can: `SumCounts` takes a smallest subset on which a
solution of that recursion differs from the number of peers with a key in it, and there is none.
`ParcelOfPosition` says that the parcel of a position is the one whose borders it lies within, by the
floor of a quotient. The invariant `AnswersInv` keeps the counts of a request those of the positions
at that moment (`asked`), and the answer one of the `Slice` of them; that finitely many peers are known,
which `Cardinality` needs, is part of it, and follows from one heartbeat being one step. That a sorted
sequence lists every scene is the pigeonhole theorem: it has as many places as there are scenes.

Since `CoreService` implements `IslandFeed` and `WsConnector` implements `Sessions`, these theorems
rest on the models of the code, except that `Services` takes the messages between the services by
what the abstract actions publish, and a handshake by its parts, and that `Expire` has the timing assumption of section 2.

Every safety property of the passing runs is stated by a theorem, and `AnswerNotTouched` states one that no run
repeats. Only model-checked is liveness
(fairness and `ENABLED` are out of the prover's reach): `SilentPeersExpire`, `CallEnds`, `HandshakeEnds`,
`BannedSessionsEnd`, `SessionsForgotten`, `SessionsTold`.

## 5. Not modelled

Start-up wiring, metrics, logging, message encoding and JWT signing, which keep no state that a
property is about. The core status of stats: the last discovery message and whether it is younger
than 90 seconds, one register that nothing else reads. Heights, thumbnails, the other status pages and
`/islands/:id`, which add nothing to what is listed above.

## 6. Plan

Done in this order: `Islands`, `Engine`, `IslandAssignment`/`EngineImplements`, `SplitLoop`,
`CoreService`, `WsConnector`, `Transport`, `Stats`, `Sessions`/`WsImplements`,
`IslandFeed`/`ServiceImplements`, `Services`, `StatsAnswers`, and the proofs of section 4. Left:

1. The core service when calls of a split reject: `IslandFeed` with the ghosts of `IslandAssignment`, and
   what of `ToldTheirIsland` is left (an exception for returned peers that left a ghost behind).
2. Liveness stays with TLC.
3. The parts of section 5, should any of them come to keep state.
