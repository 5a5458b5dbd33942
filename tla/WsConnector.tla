---------------------------- MODULE WsConnector ----------------------------
(***************************************************************************)
(* The websocket gateway: registerWsHandler                                *)
(* (ws-connector/src/controllers/handlers/ws-handler.ts) with the peers    *)
(* registry and the ban sweep (ws-connector/src/adapters).                 *)
(*                                                                         *)
(* The message handler is asynchronous, and nothing keeps the next message *)
(* of a socket, its close or its timer waiting while one is being handled: *)
(* a handler that awaits is a task of its socket, at one of its awaits.    *)
(* ws.end() runs the close handler before it returns; the user data of a   *)
(* closed socket can still be read, and sending on it fails.               *)
(***************************************************************************)
EXTENDS Naturals, FiniteSets

CONSTANTS
  Ws,               \* sockets, each of which is opened at most once
  Address,          \* wallet addresses
  None,             \* no socket, no address
  Task,             \* the handlers that one socket may have under way
  Patient,          \* sockets whose client waits for what it sent to be handled
  Denied,           \* the wallets that are on the deny list whenever it is served
  Bannable,         \* the wallets that may get banned; a bound in the runs
  FetchFails,       \* may the deny list be out of reach or malformed?
  BanCheckFails     \* may the gatekeeper fail to answer?

ASSUME NoneAssumption == None \notin Ws \cup Address

ASSUME ClientAssumption == Patient \subseteq Ws /\ BanCheckFails \in BOOLEAN

ASSUME BanAssumption == Bannable \subseteq Address

ASSUME DenyAssumption == Denied \subseteq Address /\ FetchFails \in BOOLEAN

VARIABLES
  socket,           \* "new", "open" or "closed" (isClosed)
  stage,            \* userData.stage
  address,          \* userData.address
  timer,            \* is the timer of userData.timeout running?
  leaked,           \* is one running that userData no longer refers to?
  at,               \* the await each task of each socket is at
  signer,           \* the wallet of the auth chain that the task has validated
  cachedDenyList,   \* the deny list that was fetched last
  fetched,          \* has a fetch ended since the start (denyListLastFetched)?
  connectedPeers,   \* the peers registry: address -> socket
  active,           \* the peers core has heard of since their last disconnect
  abandoned,        \* those whose socket has passed to another wallet since; only
                    \* properties read this history
  banned,           \* who is banned from the platform
  sweeping          \* the peers whose check the ban sweep awaits

socketVars == <<socket, stage, address, timer, leaked>>
denyVars == <<cachedDenyList, fetched>>
taskVars == <<at, signer>>
coreVars == <<active, abandoned>>
sweepVars == <<banned, sweeping>>
vars == <<socketVars, taskVars, denyVars, connectedPeers, coreVars, sweepVars>>

Stage == {"HANDSHAKE_START", "HANDSHAKE_CHALLENGE_SENT", "HANDSHAKE_COMPLETED"}

Init ==
  /\ socket = [w \in Ws |-> "new"]
  /\ stage = [w \in Ws |-> "HANDSHAKE_START"]
  /\ address = [w \in Ws |-> None]
  /\ timer = [w \in Ws |-> FALSE]
  /\ leaked = [w \in Ws |-> FALSE]
  /\ at = [w \in Ws |-> [t \in Task |-> "idle"]]
  /\ signer = [w \in Ws |-> [t \in Task |-> None]]
  /\ cachedDenyList = {}
  /\ fetched = FALSE
  /\ connectedPeers = [a \in Address |-> None]
  /\ active = {}
  /\ abandoned = {}
  /\ banned = {}
  /\ sweeping = {}

----------------------------------------------------------------------------
(* Closing *)

\* Mutants: the close handler leaves the registry alone; it is not told to core.
UnregisterNobody(w) == connectedPeers
PublishNoDisconnect(w) == active

\* peersRegistry.onPeerDisconnected(data.address)
Unregister(w) ==
  [a \in Address |-> IF a = address[w] THEN None ELSE connectedPeers[a]]

\* nats.publish(peer.address.disconnect)
PublishDisconnect(w) == active \ {address[w]}

\* What is left of the registry and of core's peers when w has been closed.
RegistryWithout(w) == IF socket[w] = "open" THEN Unregister(w) ELSE connectedPeers
ActiveWithout(w) == IF socket[w] = "open" THEN PublishDisconnect(w) ELSE active

\* safeEndWebSocket and, if the socket was open, the close handler.
End(w) ==
  /\ socket' = [socket EXCEPT ![w] = "closed"]
  /\ timer' = [timer EXCEPT ![w] = FALSE]
  /\ connectedPeers' = RegistryWithout(w)
  /\ active' = ActiveWithout(w)
  /\ abandoned' = abandoned \cap active'
  /\ UNCHANGED <<stage, address, leaked>>

\* A client may send or go away at any time, unless it is patient.
MayAct(w) ==
  /\ socket[w] = "open"
  /\ w \in Patient => \A t \in Task : at[w][t] = "idle"

\* The client goes away, or its connection is lost.
ClientCloses(w) ==
  /\ MayAct(w)
  /\ End(w)
  /\ UNCHANGED <<taskVars, denyVars, sweepVars>>

----------------------------------------------------------------------------
(* open and the timer *)

\* Mutant: no timer is started.
StartNoTimer(w) == UNCHANGED <<timer, leaked>>

\* startTimeoutHandler: the timer that was running keeps running.
StartTimeout(w) ==
  /\ timer' = [timer EXCEPT ![w] = TRUE]
  /\ leaked' = [leaked EXCEPT ![w] = @ \/ timer[w]]

Open(w) ==
  /\ socket[w] = "new"
  /\ socket' = [socket EXCEPT ![w] = "open"]
  /\ StartTimeout(w)
  /\ UNCHANGED <<stage, address, taskVars, denyVars, connectedPeers, coreVars, sweepVars>>

TimerFires(w) ==
  /\ socket[w] = "open"
  /\ timer[w] \/ leaked[w]
  /\ End(w)
  /\ UNCHANGED <<taskVars, denyVars, sweepVars>>

----------------------------------------------------------------------------
(* message: what is done before the first await *)

\* Mutant: the timer is not cleared when a message arrives.
ClearNoTimer(w) == UNCHANGED timer

\* clearTimeout(userData.timeout)
ClearTimer(w) == timer' = [timer EXCEPT ![w] = FALSE]

Go(w, t, place) == at' = [at EXCEPT ![w][t] = place]

\* The handler returns.
Finish(w, t) ==
  /\ Go(w, t, "idle")
  /\ signer' = [signer EXCEPT ![w][t] = None]

\* A message that cannot be decoded or that is not the one of this stage.
BadMessage(w) ==
  /\ MayAct(w)
  /\ End(w)
  /\ UNCHANGED <<taskVars, denyVars, sweepVars>>

\* The message of a handshake stage starts a task.
HandshakeMessage(w, t, inStage, place) ==
  /\ MayAct(w)
  /\ stage[w] = inStage
  /\ at[w][t] = "idle"
  /\ ClearTimer(w)
  /\ Go(w, t, place)
  /\ UNCHANGED <<socket, stage, address, leaked, signer, denyVars, connectedPeers, coreVars,
                 sweepVars>>

ChallengeRequest(w, t) == HandshakeMessage(w, t, "HANDSHAKE_START", "denyList")
SignedChallenge(w, t) == HandshakeMessage(w, t, "HANDSHAKE_CHALLENGE_SENT", "validate")

\* nats.publish(peer.address.heartbeat)
PublishHeartbeat(w) ==
  /\ active' = active \cup {address[w]}
  /\ abandoned' = abandoned \ {address[w]}

\* Mutant: a heartbeat is passed on in every stage.
HeartbeatInAnyStage(w) ==
  /\ MayAct(w)
  /\ ClearTimer(w)
  /\ UNCHANGED coreVars \/ PublishHeartbeat(w)
  /\ UNCHANGED <<socket, stage, address, leaked, taskVars, denyVars, connectedPeers, sweepVars>>

\* A heartbeat goes to core at once; other messages are ignored by then.
CompletedMessage(w) ==
  /\ MayAct(w)
  /\ stage[w] = "HANDSHAKE_COMPLETED"
  /\ ClearTimer(w)
  /\ UNCHANGED coreVars \/ PublishHeartbeat(w)
  /\ UNCHANGED <<socket, stage, address, leaked, taskVars, denyVars, connectedPeers, sweepVars>>

----------------------------------------------------------------------------
(* message: what is done after the awaits *)

\* What a fetch of the deny list leaves in the cache: a failure leaves it as it
\* was, an answer without users empties it.
Fetches == {Denied} \cup (IF FetchFails THEN {cachedDenyList, {}} ELSE {})

\* Mutant: the cache is taken for fresh before anything was fetched.
FetchDenyListStampedEarly(list) ==
  \/ /\ list = cachedDenyList
     /\ UNCHANGED denyVars
  \/ /\ list \in Fetches
     /\ cachedDenyList' = list
     /\ fetched' = TRUE

\* fetchDenyList gave list.  A fresh cache answers at once; how long it stays
\* fresh is left open.  Otherwise the fetch of this handler has just ended, which
\* does not keep the handlers of other sockets from fetching meanwhile.
FetchDenyList(list) ==
  \/ /\ fetched
     /\ list = cachedDenyList
     /\ UNCHANGED denyVars
  \/ /\ list \in Fetches
     /\ cachedDenyList' = list
     /\ fetched' = TRUE

\* The address claimed in the request, which may be any, or the wallet that
\* signed is on the list.
RejectListed(w, t) ==
  /\ \/ at[w][t] = "denyList" /\ \E list \in SUBSET Address : FetchDenyList(list) /\ list # {}
     \/ at[w][t] = "denyListPostAuth" /\ \E list \in SUBSET Address :
          FetchDenyList(list) /\ signer[w][t] \in list
  /\ Finish(w, t)
  /\ End(w)
  /\ UNCHANGED sweepVars

\* The claimed address is not on the list.
ClaimNotListed(w, t) ==
  /\ at[w][t] = "denyList"
  /\ \E list \in SUBSET Address : FetchDenyList(list) /\ Address \ list # {}
  /\ Finish(w, t)

\* The challenge is sent, which fails on a closed socket and may on an open one.
SendChallenge(w, t) ==
  /\ ClaimNotListed(w, t)
  /\ socket[w] = "open"
  /\ stage' = [stage EXCEPT ![w] = "HANDSHAKE_CHALLENGE_SENT"]
  /\ StartTimeout(w)
  /\ UNCHANGED <<socket, address, connectedPeers, coreVars, sweepVars>>

ChallengeFails(w, t) ==
  /\ ClaimNotListed(w, t)
  /\ End(w)
  /\ UNCHANGED sweepVars

\* validateSignature was not in favour of the client, or threw.
RejectSignature(w, t) ==
  /\ at[w][t] = "validate"
  /\ Finish(w, t)
  /\ End(w)
  /\ UNCHANGED <<denyVars, sweepVars>>

\* The address is that of the auth chain: nothing ties it to the one claimed in
\* the request, nor to that of another message on the same socket.
Authenticated(w, t) ==
  /\ at[w][t] = "validate"
  /\ \E a \in Address : signer' = [signer EXCEPT ![w][t] = a]
  /\ Go(w, t, "denyListPostAuth")
  /\ UNCHANGED <<socketVars, denyVars, connectedPeers, coreVars, sweepVars>>

\* The wallet that signed is not on the list.
NotListed(w, t) ==
  /\ at[w][t] = "denyListPostAuth"
  /\ \E list \in SUBSET Address : FetchDenyList(list) /\ signer[w][t] \notin list
  /\ Go(w, t, "banCheck")
  /\ UNCHANGED <<socketVars, signer, connectedPeers, coreVars, sweepVars>>

\* isBanned fails open.
BanCheckSays(a, verdict) ==
  IF verdict THEN a \in banned ELSE a \notin banned \/ BanCheckFails

RejectBanned(w, t) ==
  /\ at[w][t] = "banCheck"
  /\ BanCheckSays(signer[w][t], TRUE)
  /\ Finish(w, t)
  /\ End(w)
  /\ UNCHANGED <<denyVars, sweepVars>>

\* The socket that the registry has for the address: that of another session,
\* this one, or one that has passed to another address since.
Previous(w, t) == connectedPeers[signer[w][t]]

\* Mutant: the new session is registered before the previous one is ended.
RegisterFirst(w, t) ==
  LET registered == [connectedPeers EXCEPT ![signer[w][t]] = w]
  IN  [a \in Address |->
         IF Previous(w, t) # None /\ socket[Previous(w, t)] = "open" /\ a = address[Previous(w, t)]
         THEN None ELSE registered[a]]

\* What the close handler of the previous socket leaves of the registry and of
\* core's peers.
RegistryAfterKick(w, t) ==
  IF Previous(w, t) = None THEN connectedPeers ELSE RegistryWithout(Previous(w, t))
ActiveAfterKick(w, t) ==
  IF Previous(w, t) = None THEN active ELSE ActiveWithout(Previous(w, t))

\* peersRegistry.onPeerConnected
Register(w, t) == [RegistryAfterKick(w, t) EXCEPT ![signer[w][t]] = w]

\* Mutant: the previous session is left open.
KickNobody(w, t) == socket

\* The previous socket, which may be the same one, is sent a kick and ended.
Kick(w, t) == [v \in Ws |-> IF v = Previous(w, t) THEN "closed" ELSE socket[v]]

\* Whose session is over because its socket, still open, gets another address.
TakenOver(w, t) ==
  {a \in active \ {signer[w][t]} :
     address[w] = a /\ socket[w] = "open" /\ w # Previous(w, t)}

\* changeStage
Complete(w, t) ==
  /\ stage' = [stage EXCEPT ![w] = "HANDSHAKE_COMPLETED"]
  /\ address' = [address EXCEPT ![w] = signer[w][t]]
  /\ abandoned' = (abandoned \cup TakenOver(w, t)) \cap active'

\* Kick the previous session, register, complete the stage and send the welcome.
Welcome(w, t) ==
  /\ at[w][t] = "banCheck"
  /\ BanCheckSays(signer[w][t], FALSE)
  /\ Finish(w, t)
  /\ socket' = Kick(w, t)
  /\ timer' = [v \in Ws |-> timer[v] /\ v # Previous(w, t)]
  /\ connectedPeers' = Register(w, t)
  /\ active' = ActiveAfterKick(w, t)
  /\ Complete(w, t)
  /\ UNCHANGED <<leaked, denyVars, sweepVars>>

\* The same, but the welcome cannot be sent: the socket is ended, and its close
\* handler takes it out of the registry.
WelcomeFails(w, t) ==
  /\ at[w][t] = "banCheck"
  /\ BanCheckSays(signer[w][t], FALSE)
  /\ socket[w] = "open" /\ Previous(w, t) # w
  /\ Finish(w, t)
  /\ socket' = [Kick(w, t) EXCEPT ![w] = "closed"]
  /\ timer' = [v \in Ws |-> timer[v] /\ v \notin {w, Previous(w, t)}]
  /\ connectedPeers' = [RegistryAfterKick(w, t) EXCEPT ![signer[w][t]] = None]
  /\ active' = ActiveAfterKick(w, t) \ {signer[w][t]}
  /\ Complete(w, t)
  /\ UNCHANGED <<leaked, denyVars, sweepVars>>

----------------------------------------------------------------------------
(* The ban sweep *)

Ban(a) ==
  /\ a \in Bannable \ banned
  /\ banned' = banned \cup {a}
  /\ UNCHANGED <<socketVars, taskVars, denyVars, connectedPeers, coreVars, sweeping>>

\* sweep takes a snapshot of the registry; sweeps may overlap.
Sweep ==
  /\ sweeping' = sweeping \cup {a \in Address : connectedPeers[a] # None}
  /\ UNCHANGED <<socketVars, taskVars, denyVars, connectedPeers, coreVars, banned>>

\* A check of the sweep says no, or the peer has no session any more.
SweepSpares(a) ==
  /\ a \in sweeping
  /\ BanCheckSays(a, FALSE) \/ connectedPeers[a] = None
  /\ sweeping' = sweeping \ {a}
  /\ UNCHANGED <<socketVars, taskVars, denyVars, connectedPeers, coreVars, banned>>

\* Mutant: the peer is taken out of the registry and its socket is left open.
SweepUnregisters(a) ==
  /\ a \in sweeping
  /\ BanCheckSays(a, TRUE)
  /\ connectedPeers[a] # None
  /\ connectedPeers' = Unregister(connectedPeers[a])
  /\ sweeping' = sweeping \ {a}
  /\ UNCHANGED <<socketVars, taskVars, denyVars, coreVars, banned>>

\* It says yes: the session that the peer has by now is ended.
SweepEnds(a) ==
  /\ a \in sweeping
  /\ BanCheckSays(a, TRUE)
  /\ connectedPeers[a] # None
  /\ End(connectedPeers[a])
  /\ sweeping' = sweeping \ {a}
  /\ UNCHANGED <<taskVars, denyVars, banned>>

----------------------------------------------------------------------------

Client ==
  \E w \in Ws :
    \/ Open(w)
    \/ ClientCloses(w)
    \/ BadMessage(w)
    \/ CompletedMessage(w)
    \/ \E t \in Task : ChallengeRequest(w, t) \/ SignedChallenge(w, t)

Resume(w, t) ==
  \/ RejectListed(w, t)
  \/ SendChallenge(w, t)
  \/ ChallengeFails(w, t)
  \/ RejectSignature(w, t)
  \/ Authenticated(w, t)
  \/ NotListed(w, t)
  \/ RejectBanned(w, t)
  \/ Welcome(w, t)
  \/ WelcomeFails(w, t)

SweepChecked(a) == SweepSpares(a) \/ SweepEnds(a)

Next ==
  \/ Client
  \/ \E w \in Ws : TimerFires(w)
  \/ \E w \in Ws, t \in Task : Resume(w, t)
  \/ \E a \in Address : Ban(a) \/ SweepChecked(a)
  \/ Sweep

Spec == Init /\ [][Next]_vars

\* Timers fire, what is awaited comes, and the sweep runs every 30 seconds.
FairSpec ==
  /\ Spec
  /\ \A w \in Ws : WF_vars(TimerFires(w))
  /\ \A w \in Ws, t \in Task : WF_vars(Resume(w, t))
  /\ WF_vars(Sweep)
  /\ \A a \in Address : WF_vars(SweepChecked(a))

----------------------------------------------------------------------------
(* Properties *)

\* The state has its types: core hears of addresses only, not of sockets that
\* have none yet.
TypeOK ==
  /\ socket \in [Ws -> {"new", "open", "closed"}]
  /\ stage \in [Ws -> Stage]
  /\ address \in [Ws -> Address \cup {None}]
  /\ timer \in [Ws -> BOOLEAN]
  /\ leaked \in [Ws -> BOOLEAN]
  /\ at \in [Ws -> [Task -> {"idle", "denyList", "validate", "denyListPostAuth", "banCheck"}]]
  /\ signer \in [Ws -> [Task -> Address \cup {None}]]
  /\ cachedDenyList \subseteq Address
  /\ fetched \in BOOLEAN
  /\ connectedPeers \in [Address -> Ws \cup {None}]
  /\ active \subseteq Address /\ abandoned \subseteq active
  /\ banned \subseteq Address
  /\ sweeping \subseteq Address

\* A session that can send heartbeats is the registered one of its address, so
\* that it gets its island changes, and the address has no other: the registry
\* is updated by the handshakes of all sockets of an address, their close
\* handlers and the sweep, and entries are deleted by address, not by socket.
LiveSessionsRegistered ==
  \A w \in Ws : socket[w] = "open" /\ address[w] # None => connectedPeers[address[w]] = w

IsLive(a, w) == socket[w] = "open" /\ address[w] = a

\* The registry lists open sessions only: a close handler that runs during an
\* await of the handshake comes before the registration that it should undo.
RegistryIsLive ==
  \A a \in Address : connectedPeers[a] # None => IsLive(a, connectedPeers[a])

\* The same for the sessions of patient clients, whatever the others do: a
\* session that is replaced or swept leaves no entry behind.
PatientIsLive ==
  \A a \in Address : connectedPeers[a] \in Patient => IsLive(a, connectedPeers[a])

\* Core keeps no peer whose sessions are all over: the disconnect of a session
\* follows its last heartbeat, whatever ends it (close, kick, sweep, timer, a
\* second handshake on its socket).  Not so where the socket passed to another
\* wallet: a close handler knows the last address of its socket only.
ActiveHasSession ==
  \A a \in active \ abandoned : \E w \in Ws : socket[w] = "open" /\ address[w] = a

\* Who is on the deny list never gets a session, whichever address was claimed
\* and whichever handshake fetches the list first, unless the list cannot be
\* fetched: the first check is of the claimed address, the second of the wallet,
\* and both may go by what another handler has put into the cache.
DeniedStaysOut ==
  FetchFails \/ \A w \in Ws : address[w] \notin Denied

\* The handshake timer never ends the session of a patient client that has
\* completed its handshake.
TimerSparesSessions ==
  [][\A w \in Patient : TimerFires(w) => address[w] = None]_vars

\* A handshake completes or its socket is ended, even if the client stays silent.
HandshakeEnds ==
  \A w \in Ws : socket[w] = "open" ~> (address[w] # None \/ socket[w] = "closed")

\* The session of a banned user is ended, also if the ban comes after the check
\* of its handshake, as long as the gatekeeper answers.
BannedSessionsEnd ==
  \A w \in Ws : (address[w] # None /\ address[w] \in banned) ~> socket[w] = "closed"

============================================================================
