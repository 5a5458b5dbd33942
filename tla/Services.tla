------------------------------ MODULE Services ------------------------------
(***************************************************************************)
(* The three services over NATS: the websocket gateway as Sessions has it, *)
(* core as IslandFeed has it, and Stats, with the messages between them    *)
(* and what the clients have been sent (ws-connector/src/service.ts).      *)
(*                                                                         *)
(* NATS delivers in order what one service publishes for another, at most  *)
(* once: a message may be lost.  Nothing is kept over a restart, and what  *)
(* is on its way to a service that restarts is lost.  A restart is one     *)
(* step: whatever the others do while a service is down, they could do     *)
(* before it goes down, and the messages are lost either way.              *)
(***************************************************************************)
EXTENDS Naturals, Sequences, FiniteSets

CONSTANTS
  Address,              \* wallet addresses
  Session,              \* sessions
  None,                 \* no session
  IslandId, NoIsland, MaxIslandSize,
  MaxToCore, MaxToStats, MaxToClients,  \* bound the messages on their way
  Faults,               \* the kinds of faults: "lost", "takeover", who may restart
  MaxFaults             \* bounds how many there are

ASSUME FaultAssumption ==
  /\ Faults \subseteq {"lost", "takeover", "connector", "core", "stats"}
  /\ {MaxToCore, MaxToStats, MaxToClients, MaxFaults} \subseteq Nat
  /\ IsFiniteSet(Address)

VARIABLES
  session, active,      \* the gateway: Sessions
  quiet,                \* the sessions whose clients send no heartbeats
  client,               \* the island that each session was last sent
  heard, assign, used, told, missed,    \* core: IslandFeed
  peers, islands,       \* stats: Stats
  toCore, toStats,      \* peer.*.heartbeat and peer.*.disconnect on their way
  toClients,            \* engine.peer.*.island_changed on their way
  reports,              \* engine.islands on their way
  coreMissed,           \* whose session may not be the one core takes it for
  statsMissed,          \* whose end of session stats never heard of
  faults                \* how many faults there were

gateVars == <<session, active, quiet, client>>
coreVars == <<heard, assign, used, told, missed>>
statsVars == <<peers, islands>>
channels == <<toCore, toStats, toClients, reports>>
vars == <<gateVars, coreVars, statsVars, channels, coreMissed, statsMissed, faults>>

Gate == INSTANCE Sessions WITH
  session <- session,
  active <- active

Feed == INSTANCE IslandFeed WITH
  Peer <- Address,
  PublishFails <- FALSE,
  heard <- heard,
  assign <- assign,
  used <- used,
  told <- told,
  missed <- missed

St == INSTANCE Stats WITH
  Peer <- Address,
  NoPosition <- "unknown",
  peers <- peers,
  islands <- islands

Init ==
  /\ Gate!Init /\ Feed!Init /\ St!Init
  /\ quiet = {}
  /\ client = [a \in Address |-> NoIsland]
  /\ toCore = <<>> /\ toStats = <<>> /\ toClients = <<>> /\ reports = <<>>
  /\ coreMissed = {} /\ statsMissed = {}
  /\ faults = 0

Fails(what) ==
  /\ what \in Faults
  /\ faults < MaxFaults
  /\ faults' = faults + 1

----------------------------------------------------------------------------
(* The gateway and its clients.  A handshake that Sessions takes as one step   *)
(* for several addresses is taken here one address after the other, in the    *)
(* order of its messages.                                                     *)

Message(a, kind) == [address |-> a, kind |-> kind]

\* nats.publish of a message that core and stats have subscribed to
Publish(a, kind) ==
  /\ Len(toCore) < MaxToCore /\ Len(toStats) < MaxToStats
  /\ toCore' = Append(toCore, Message(a, kind))
  /\ toStats' = Append(toStats, Message(a, kind))
  /\ UNCHANGED <<toClients, reports>>

\* A handshake completes; the session it replaces is said to be over.
Begin(a, s) ==
  /\ Gate!Begin(a, s)
  /\ IF session[a] = None THEN UNCHANGED channels ELSE Publish(a, "disconnect")
  /\ client' = [client EXCEPT ![a] = NoIsland]
  /\ quiet' = quiet \ {a}
  /\ UNCHANGED <<coreVars, statsVars, coreMissed, statsMissed, faults>>

\* A session ends, or one that could not be welcomed is said to be over.
End(a) ==
  /\ Gate!End(a)
  /\ Publish(a, "disconnect")
  /\ client' = [client EXCEPT ![a] = NoIsland]
  /\ quiet' = quiet \ {a}
  /\ UNCHANGED <<coreVars, statsVars, coreMissed, statsMissed, faults>>

Beat(a) ==
  /\ Gate!Beat(a)
  /\ Publish(a, "heartbeat")
  /\ quiet' = quiet \ {a}
  /\ UNCHANGED <<client, coreVars, statsVars, coreMissed, statsMissed, faults>>

GoQuiet(a) ==
  /\ session[a] # None
  /\ quiet' = quiet \cup {a}
  /\ UNCHANGED <<session, active, client, coreVars, statsVars, channels, coreMissed,
                 statsMissed, faults>>

----------------------------------------------------------------------------
(* Core *)

\* core has not been told that the session of a is over, or of an island change
\* that went astray, and still knows a.
CoreMisses(a) == coreMissed' = coreMissed \cup ({a} \cap heard)

\* What core does with a message.  It never gets an "unheard", which stands for
\* a disconnect that the gateway does not publish.
CoreHandles(m) ==
  \/ /\ m.kind = "heartbeat"
     /\ Feed!Hear(m.address)
     /\ UNCHANGED coreMissed
  \/ /\ m.kind = "disconnect"
     /\ Feed!Forget(m.address)
     /\ coreMissed' = coreMissed \ {m.address}
  \/ /\ m.kind = "unheard"
     /\ CoreMisses(m.address)
     /\ UNCHANGED coreVars

CoreHears ==
  /\ toCore # <<>>
  /\ CoreHandles(Head(toCore))
  /\ toCore' = Tail(toCore)
  /\ UNCHANGED <<gateVars, statsVars, toStats, toClients, reports, statsMissed, faults>>

\* Mutant: only peers that are on an island expire.
ExpirePlaced(a) ==
  /\ a \in heard /\ (a \notin active \/ a \in quiet) /\ assign[a] # NoIsland
  /\ Feed!Forget(a)
  /\ coreMissed' = coreMissed \ {a}
  /\ UNCHANGED <<gateVars, statsVars, channels, statsMissed, faults>>

\* No heartbeat of a for CHECK_HEARTBEAT_INTERVAL: its session is quiet, or has
\* not sent any yet, or is over.
Expire(a) ==
  /\ a \in heard /\ (a \notin active \/ a \in quiet)
  /\ Feed!Forget(a)
  /\ coreMissed' = coreMissed \ {a}
  /\ UNCHANGED <<gateVars, statsVars, channels, statsMissed, faults>>

Regroup ==
  /\ assign' \in [Address -> IslandId \cup {NoIsland}]
  /\ Feed!Regroup
  /\ UNCHANGED <<gateVars, statsVars, channels, coreMissed, statsMissed, faults>>

\* The messages of a round of updates, in any order; what is sent to one of
\* refused is some island that it was on before.
Changes(sent, refused) ==
  LET receivers == sent \cup refused
  IN  {q \in [1..Cardinality(receivers) -> [address : receivers, island : used]] :
         /\ \A n \in DOMAIN q : q[n].address \in sent => q[n].island = assign[q[n].address]
         /\ \A a \in receivers : \E n \in DOMAIN q : q[n].address = a}

Report ==
  {[id |-> i, peers |-> {a \in Address : assign[a] = i}] : i \in {assign[a] : a \in Address}}
    \ {[id |-> NoIsland, peers |-> {a \in Address : assign[a] = NoIsland}]}

\* The end of a round of the loop
Tell(sent, refused) ==
  /\ Feed!Tell(sent, {}, refused)
  /\ Len(toClients) + Cardinality(sent \cup refused) <= MaxToClients
  /\ Len(reports) < MaxToStats
  /\ \E q \in Changes(sent, refused) : toClients' = toClients \o q
  /\ reports' = Append(reports, Report)
  /\ UNCHANGED <<gateVars, statsVars, toCore, toStats, coreMissed, statsMissed, faults>>

----------------------------------------------------------------------------
(* Stats *)

StatsHandles(m) ==
  \/ /\ m.kind = "heartbeat"
     /\ St!OnPeerUpdated(m.address, "somewhere")
     /\ UNCHANGED statsMissed
  \/ /\ m.kind = "disconnect"
     /\ St!OnPeerDisconnected(m.address)
     /\ statsMissed' = statsMissed \ {m.address}
  \/ /\ m.kind = "unheard"
     /\ statsMissed' = statsMissed \cup ({m.address} \cap St!Known)
     /\ UNCHANGED statsVars

StatsHears ==
  /\ toStats # <<>>
  /\ StatsHandles(Head(toStats))
  /\ toStats' = Tail(toStats)
  /\ UNCHANGED <<gateVars, coreVars, toCore, toClients, reports, coreMissed, faults>>

StatsGetsReport ==
  /\ reports # <<>>
  /\ St!OnIslandsDataReceived(Head(reports))
  /\ reports' = Tail(reports)
  /\ UNCHANGED <<gateVars, coreVars, toCore, toStats, toClients, coreMissed, statsMissed, faults>>

----------------------------------------------------------------------------
(* The gateway again: engine.peer.*.island_changed *)

\* Mutants: only the first island of a session is forwarded; nobody looks
\* whether there is a session.
SendBlindly(m) == [client EXCEPT ![m.address] = m.island]
SendFirst(m) ==
  IF session[m.address] = None \/ client[m.address] # NoIsland THEN client
  ELSE [client EXCEPT ![m.address] = m.island]

\* It goes to the session that is registered by now, or nowhere.
Send(m) ==
  IF session[m.address] = None THEN client ELSE [client EXCEPT ![m.address] = m.island]

\* Whoever is sent an island now has what core takes it to have.
Deliver ==
  /\ toClients # <<>>
  /\ client' = Send(Head(toClients))
  /\ coreMissed' =
       IF session[Head(toClients).address] = None THEN coreMissed
       ELSE coreMissed \ {Head(toClients).address}
  /\ toClients' = Tail(toClients)
  /\ UNCHANGED <<session, active, quiet, coreVars, statsVars, toCore, toStats, reports,
                 statsMissed, faults>>

----------------------------------------------------------------------------
(* Losses, sockets that pass to another wallet, restarts *)

LoseToCore ==
  /\ Fails("lost")
  /\ toCore # <<>> /\ Head(toCore).kind # "unheard"
  /\ IF Head(toCore).kind = "disconnect" THEN CoreMisses(Head(toCore).address)
     ELSE UNCHANGED coreMissed
  /\ toCore' = Tail(toCore)
  /\ UNCHANGED <<gateVars, coreVars, statsVars, toStats, toClients, reports, statsMissed>>

LoseToStats ==
  /\ Fails("lost")
  /\ toStats # <<>> /\ Head(toStats).kind # "unheard"
  /\ statsMissed' =
       IF Head(toStats).kind = "disconnect"
       THEN statsMissed \cup ({Head(toStats).address} \cap St!Known)
       ELSE statsMissed
  /\ toStats' = Tail(toStats)
  /\ UNCHANGED <<gateVars, coreVars, statsVars, toCore, toClients, reports, coreMissed>>

\* Core takes the session of a for one that knows its island, which it does not.
LoseToClients ==
  /\ Fails("lost")
  /\ toClients # <<>>
  /\ CoreMisses(Head(toClients).address)
  /\ toClients' = Tail(toClients)
  /\ UNCHANGED <<gateVars, coreVars, statsVars, toCore, toStats, reports, statsMissed>>

\* A handshake of another wallet takes the socket of a, and nobody is told that
\* the session of a is over.
TakeOver(a) ==
  /\ Fails("takeover")
  /\ Gate!Lose(a)
  /\ Publish(a, "unheard")
  /\ client' = [client EXCEPT ![a] = NoIsland]
  /\ quiet' = quiet \ {a}
  /\ UNCHANGED <<coreVars, statsVars, coreMissed, statsMissed>>

\* The session of a has the socket of another wallet, whose entry is still in the
\* registry: an island change of that one goes to the client of a.
Misdirect(a) ==
  /\ Fails("takeover")
  /\ session[a] # None
  /\ \E i \in IslandId : client' = [client EXCEPT ![a] = i]
  /\ CoreMisses(a)
  /\ UNCHANGED <<session, active, quiet, coreVars, statsVars, channels, statsMissed>>

InSession == {a \in Address : session[a] # None}

Unheard ==
  {q \in [1..Cardinality(InSession) -> [address : InSession, kind : {"unheard"}]] :
     \A a \in InSession : \E n \in DOMAIN q : q[n].address = a}

\* Every session is over, and nobody is told.
RestartConnector ==
  /\ Fails("connector")
  /\ session' = [a \in Address |-> None]
  /\ active' = {}
  /\ quiet' = {}
  /\ client' = [a \in Address |-> NoIsland]
  /\ \E q \in Unheard : toCore' = toCore \o q /\ toStats' = toStats \o q
  /\ toClients' = <<>>
  /\ UNCHANGED <<coreVars, statsVars, reports, coreMissed, statsMissed>>

\* Island ids are given out from the first one again.
RestartCore ==
  /\ Fails("core")
  /\ heard' = {}
  /\ assign' = [a \in Address |-> NoIsland]
  /\ used' = {}
  /\ told' = [a \in Address |-> NoIsland]
  /\ missed' = {}
  /\ toCore' = <<>>
  /\ coreMissed' = {}
  /\ UNCHANGED <<gateVars, statsVars, toStats, toClients, reports, statsMissed>>

RestartStats ==
  /\ Fails("stats")
  /\ peers' = [a \in Address |-> "unknown"]
  /\ islands' = {}
  /\ toStats' = <<>>
  /\ reports' = <<>>
  /\ statsMissed' = {}
  /\ UNCHANGED <<gateVars, coreVars, toCore, toClients, coreMissed>>

----------------------------------------------------------------------------

Client ==
  \E a \in Address :
    \/ \E s \in Session : Begin(a, s)
    \/ End(a)
    \/ Beat(a)
    \/ GoQuiet(a)

Core ==
  \/ CoreHears
  \/ \E a \in Address : Expire(a)
  \/ Regroup
  \/ \E sent, refused \in SUBSET Address : Tell(sent, refused)

Fault ==
  \/ LoseToCore \/ LoseToStats \/ LoseToClients
  \/ \E a \in Address : TakeOver(a) \/ Misdirect(a)
  \/ RestartConnector \/ RestartCore \/ RestartStats

Next == Client \/ Core \/ StatsHears \/ StatsGetsReport \/ Deliver \/ Fault

Spec == Init /\ [][Next]_vars

\* The engine places a peer it hears from.
Place(a) == Regroup /\ assign[a] = NoIsland /\ assign'[a] # NoIsland

\* What is not lost arrives, the loop of core goes round, and a client that is
\* not quiet sends heartbeats.  Nobody has to close a session or to open one.
FairSpec ==
  /\ Spec
  /\ WF_vars(CoreHears) /\ WF_vars(StatsHears) /\ WF_vars(StatsGetsReport)
  /\ WF_vars(Deliver)
  /\ WF_vars(\E sent \in SUBSET Address : Tell(sent, {}))
  /\ \A a \in Address :
       /\ WF_vars(a \notin quiet /\ Beat(a))
       /\ WF_vars(a \notin quiet /\ Place(a))
       /\ WF_vars(Expire(a))

----------------------------------------------------------------------------
(* Properties *)

\* The state has its types; only a session can be quiet or know an island.
TypeOK ==
  /\ session \in [Address -> Session \cup {None}]
  /\ active \cup quiet \subseteq InSession
  /\ client \in [Address -> IslandId \cup {NoIsland}]
  /\ \A a \in Address : client[a] # NoIsland => session[a] # None
  /\ heard \subseteq Address
  /\ assign \in [Address -> IslandId \cup {NoIsland}]
  /\ used \subseteq IslandId
  /\ told \in [Address -> IslandId \cup {NoIsland}]
  /\ missed = {}
  /\ peers \in [Address -> {"somewhere", "unknown"}]
  /\ islands \subseteq [id : IslandId, peers : SUBSET Address]
  /\ coreMissed \subseteq heard /\ statsMissed \subseteq St!Known

\* Nothing is on its way, and core has told what there is to tell.
Settled ==
  /\ toCore = <<>> /\ toClients = <<>>
  /\ \A a \in Address : assign[a] # NoIsland => told[a] = assign[a]

\* Once what was under way has arrived, a session knows the island that core has
\* its address on, though island changes are addressed to wallets and not to
\* sessions: one for the session before may come to the next one, or core may
\* have restarted meanwhile and given out the same ids again.  Not so where core
\* has missed the end of a session, or one of its island changes has been lost or
\* sent to another client.
InSync ==
  Settled =>
    \A a \in Address \ coreMissed :
      session[a] # None /\ assign[a] # NoIsland => client[a] = assign[a]

\* Stats lists nobody whose sessions are over, but for those whose disconnect
\* was lost or never published.
NobodyLingers == toStats = <<>> => St!PeersAnswer({}) \ statsMissed \subseteq active

Listed(a) == \E i \in St!IslandsAnswer : a \in i.peers

\* Whoever has no session is forgotten by core and not listed at /islands any
\* more in the end, whichever service restarted and whatever was lost: core need
\* not hear a disconnect, and stats keep a peer whose disconnect they missed, but
\* no report has it.
SessionsForgotten ==
  \A a \in Address :
    session[a] = None ~> (a \notin heard /\ ~Listed(a)) \/ session[a] # None

Knows(a) == client[a] # NoIsland /\ client[a] = assign[a]

\* A session that sends heartbeats is told its island, through restarts and
\* losses, unless core missed the end of the one before (ids are bounded here).
SessionsTold ==
  \A a \in Address, s \in Session :
    session[a] = s ~>
      (Knows(a) \/ session[a] # s \/ a \in quiet \/ a \in coreMissed \/ used = IslandId)

\* The same without the exception, as docs/ai-agent-context.md has it: the gateway
\* drives the island assignment for the lifetime of the session.
EverySessionTold ==
  \A a \in Address, s \in Session :
    session[a] = s ~>
      (client[a] # NoIsland \/ session[a] # s \/ a \in quiet \/ used = IslandId)

============================================================================
