-------------------------- MODULE WsConnectorProof --------------------------
(***************************************************************************)
(* Proofs about WsConnector, for any number of sockets, handlers and       *)
(* wallets, of which several may sign on one socket: at most one live      *)
(* session per address, which is the registered one; core is told when it  *)
(* is over, unless its socket passed to another wallet; nobody on the deny *)
(* list has one; patient clients keep theirs; the gateway implements       *)
(* Sessions.                                                               *)
(***************************************************************************)
EXTENDS WsImplements, TLAPS

\* A socket whose handshake has completed has an address, and so has a socket
\* that is registered, though maybe another one by now.
Identified ==
  /\ \A w \in Ws : stage[w] = "HANDSHAKE_COMPLETED" => address[w] # None
  /\ \A a \in Address : connectedPeers[a] # None => address[connectedPeers[a]] # None

\* A socket that has not been opened has nothing under way.
Fresh ==
  \A w \in Ws : socket[w] = "new" => address[w] = None /\ \A t \in Task : at[w][t] = "idle"

Await == {"idle", "denyList", "validate", "denyListPostAuth", "banCheck"}

\* Whoever a handler has authenticated has an address, which is not on the deny
\* list once it has passed the second check, unless fetches fail.
TaskInv ==
  /\ at \in [Ws -> [Task -> Await]]
  /\ signer \in [Ws -> [Task -> Address \cup {None}]]
  /\ \A w \in Ws, t \in Task :
       /\ at[w][t] \in {"denyListPostAuth", "banCheck"} => signer[w][t] # None
       /\ at[w][t] = "banCheck" => FetchFails \/ signer[w][t] \notin Denied

\* Unless fetches fail, a list that was fetched is the real one.
DenyInv ==
  /\ cachedDenyList \subseteq Address /\ fetched \in BOOLEAN
  /\ FetchFails \/ (fetched => cachedDenyList = Denied)

SessionTypes ==
  /\ socket \in [Ws -> {"new", "open", "closed"}]
  /\ stage \in [Ws -> Stage]
  /\ address \in [Ws -> Address \cup {None}]
  /\ timer \in [Ws -> BOOLEAN]
  /\ leaked \in [Ws -> BOOLEAN]
  /\ connectedPeers \in [Address -> Ws \cup {None}]
  /\ active \subseteq Address /\ abandoned \subseteq active

\* What is about sockets and the registry only.
SessionInv ==
  /\ SessionTypes
  /\ Identified
  /\ LiveSessionsRegistered
  /\ ActiveHasSession
  /\ DeniedStaysOut

Inv ==
  /\ SessionInv
  /\ Fresh
  /\ TaskInv
  /\ DenyInv
  /\ banned \subseteq Address /\ sweeping \subseteq Address

LEMMA InvTypes == ASSUME Inv PROVE TypeOK
  BY DEF Inv, SessionInv, SessionTypes, TaskInv, DenyInv, TypeOK, Await

----------------------------------------------------------------------------
(* Steps that several actions take *)

\* Closing a socket, whichever it is, keeps the registry in order.
LEMMA EndKeeps ==
  ASSUME SessionInv, NEW w \in Ws, End(w)
  PROVE  /\ SessionInv'
         /\ \A v \in Ws : socket'[v] = "new" => socket[v] = "new"
         /\ address' = address
<1>0. SessionTypes BY DEF SessionInv
<1>1. /\ socket' = [socket EXCEPT ![w] = "closed"]
      /\ address' = address /\ stage' = stage
      /\ connectedPeers' = RegistryWithout(w)
      /\ active' = ActiveWithout(w)
      /\ abandoned' = abandoned \cap active'
  BY DEF End
<1>2. \A a \in Address : connectedPeers'[a] = connectedPeers[a]
        \/ (connectedPeers'[a] = None /\ a = address[w] /\ socket[w] = "open")
  BY <1>0, <1>1 DEF RegistryWithout, Unregister, SessionTypes
<1>3. SessionTypes'
  BY <1>0, <1>1 DEF End, SessionTypes, RegistryWithout, Unregister, ActiveWithout,
     PublishDisconnect
<1>4. \A v \in Ws : socket'[v] = IF v = w THEN "closed" ELSE socket[v]
  BY <1>0, <1>1 DEF SessionTypes
<1>5. Identified' /\ DeniedStaysOut'
  BY <1>1, <1>2 DEF SessionInv, Identified, DeniedStaysOut
<1>7. LiveSessionsRegistered'
  <2> SUFFICES ASSUME NEW v \in Ws, socket'[v] = "open", address'[v] # None
               PROVE  connectedPeers'[address'[v]] = v
    BY DEF LiveSessionsRegistered
  <2>1. v # w /\ socket[v] = "open" BY <1>4
  <2>2. address[v] \in Address BY <1>0, <1>1 DEF SessionTypes
  <2>3. connectedPeers[address[v]] = v
    BY <1>1, <2>1 DEF SessionInv, LiveSessionsRegistered
  <2>4. address[v] = address[w] => socket[w] # "open"
    BY <1>1, <2>1, <2>3 DEF SessionInv, LiveSessionsRegistered
  <2> QED BY <1>1, <1>2, <2>2, <2>3, <2>4
<1>8. ActiveHasSession'
  <2> SUFFICES ASSUME NEW a \in active' \ abandoned'
               PROVE  \E v \in Ws : socket'[v] = "open" /\ address'[v] = a
    BY DEF ActiveHasSession
  <2>1. a \in active \ abandoned /\ (socket[w] = "open" => a # address[w])
    BY <1>1 DEF ActiveWithout, PublishDisconnect
  <2>2. PICK v \in Ws : socket[v] = "open" /\ address[v] = a
    BY <2>1 DEF SessionInv, ActiveHasSession
  <2>3. v # w BY <2>1, <2>2
  <2> QED BY <1>1, <1>4, <2>2, <2>3
<1> QED BY <1>1, <1>3, <1>4, <1>5, <1>7, <1>8 DEF SessionInv

LEMMA GoKeeps ==
  ASSUME TaskInv, NEW w \in Ws, NEW t \in Task, NEW place \in Await, Go(w, t, place)
  PROVE  /\ at' \in [Ws -> [Task -> Await]]
         /\ at'[w][t] = place
         /\ \A v \in Ws, s \in Task : v # w \/ s # t => at'[v][s] = at[v][s]
  BY DEF Go, TaskInv

\* A handler returns.
LEMMA FinishKeeps ==
  ASSUME TaskInv, NEW w \in Ws, NEW t \in Task, Finish(w, t)
  PROVE  /\ TaskInv'
         /\ at'[w][t] = "idle"
         /\ \A v \in Ws, s \in Task : v # w \/ s # t => at'[v][s] = at[v][s]
<1>1. "idle" \in Await BY DEF Await
<1>2. /\ at' \in [Ws -> [Task -> Await]]
      /\ at'[w][t] = "idle"
      /\ \A v \in Ws, s \in Task : v # w \/ s # t => at'[v][s] = at[v][s]
  BY <1>1, GoKeeps DEF Finish
<1>3. /\ signer' \in [Ws -> [Task -> Address \cup {None}]]
      /\ \A v \in Ws, s \in Task : v # w \/ s # t => signer'[v][s] = signer[v][s]
  BY DEF Finish, TaskInv
<1>4. \A v \in Ws, s \in Task :
        /\ at'[v][s] \in {"denyListPostAuth", "banCheck"} => signer'[v][s] # None
        /\ at'[v][s] = "banCheck" => FetchFails \/ signer'[v][s] \notin Denied
  BY <1>2, <1>3 DEF TaskInv
<1> QED BY <1>2, <1>3, <1>4 DEF TaskInv

\* What a handler gets to see of the deny list.
LEMMA FetchKeeps ==
  ASSUME DenyInv, NEW list \in SUBSET Address, FetchDenyList(list)
  PROVE  DenyInv' /\ (FetchFails \/ list = Denied)
<1>1. CASE fetched /\ list = cachedDenyList /\ UNCHANGED denyVars
  BY <1>1 DEF DenyInv, denyVars
<1>2. CASE list \in Fetches /\ cachedDenyList' = list /\ fetched' = TRUE
  <2>1. FetchFails \/ list = Denied
    BY <1>2, DenyAssumption DEF Fetches
  <2> QED BY <1>2, <2>1 DEF DenyInv
<1> QED BY <1>1, <1>2 DEF FetchDenyList

LEMMA DenySame == ASSUME DenyInv, UNCHANGED denyVars PROVE DenyInv'
  BY DEF DenyInv, denyVars

\* A socket is ended, and no task is under way in this step.
LEMMA EndOnly ==
  ASSUME Inv, NEW w \in Ws, End(w), UNCHANGED <<taskVars, denyVars, banned>>,
         sweeping' \subseteq Address
  PROVE  Inv'
<1>1. SessionInv' /\ address' = address
      /\ \A v \in Ws : socket'[v] = "new" => socket[v] = "new"
  BY EndKeeps DEF Inv
<1>2. at' = at /\ signer' = signer BY DEF taskVars
<1>3. Fresh' /\ TaskInv' BY <1>1, <1>2 DEF Inv, Fresh, TaskInv
<1> QED BY <1>1, <1>3, DenySame DEF Inv

\* A task rejects its client: it ends the socket and returns.
LEMMA TaskEnds ==
  ASSUME Inv, NEW w \in Ws, NEW t \in Task, Finish(w, t), End(w), UNCHANGED sweepVars, DenyInv'
  PROVE  Inv'
<1>1. SessionInv' /\ address' = address
      /\ \A v \in Ws : socket'[v] = "new" => socket[v] = "new"
  BY EndKeeps DEF Inv
<1>2. TaskInv' /\ \A v \in Ws, s \in Task : at'[v][s] = "idle" \/ at'[v][s] = at[v][s]
  BY FinishKeeps DEF Inv
<1>3. Fresh' BY <1>1, <1>2 DEF Inv, Fresh
<1> QED BY <1>1, <1>2, <1>3 DEF Inv, sweepVars

\* A task of an open or closed socket goes on or returns, and nothing happens to
\* the sockets.
LEMMA TaskGoes ==
  ASSUME Inv, NEW w \in Ws, NEW t \in Task, SessionInv', TaskInv', DenyInv',
         UNCHANGED <<socket, address, sweepVars>>,
         socket[w] # "new" \/ at'[w][t] = "idle",
         \A v \in Ws, s \in Task : v # w \/ s # t => at'[v][s] = at[v][s]
  PROVE  Inv'
<1>1. Fresh' BY DEF Inv, Fresh
<1> QED BY <1>1 DEF Inv, sweepVars

\* Session state that is left alone, but for timers and leaks.
LEMMA SessionSame ==
  ASSUME SessionInv, UNCHANGED <<socket, stage, address, connectedPeers, coreVars>>,
         timer' \in [Ws -> BOOLEAN], leaked' \in [Ws -> BOOLEAN]
  PROVE  SessionInv'
  BY DEF SessionInv, SessionTypes, Identified, LiveSessionsRegistered, ActiveHasSession,
     DeniedStaysOut, coreVars

----------------------------------------------------------------------------
(* The actions *)

LEMMA InitInv == ASSUME Init PROVE Inv
<1>1. SessionTypes BY DEF Init, SessionTypes, Stage
<1>2. \A w \in Ws : socket[w] = "new" /\ address[w] = None /\ stage[w] = "HANDSHAKE_START"
        /\ \A t \in Task : at[w][t] = "idle"
  BY DEF Init
<1>3. None \notin Denied BY NoneAssumption, DenyAssumption
<1>4. DenyInv BY DEF Init, DenyInv
<1>5. TaskInv BY DEF Init, TaskInv, Await
<1>6. Identified /\ ActiveHasSession BY <1>2 DEF Init, Identified, ActiveHasSession
<1>7. SessionInv
  BY <1>1, <1>2, <1>3, <1>6 DEF SessionInv, LiveSessionsRegistered, DeniedStaysOut
<1> QED BY <1>2, <1>4, <1>5, <1>7 DEF Init, Inv, Fresh

LEMMA OpenInv == ASSUME Inv, NEW w \in Ws, Open(w) PROVE Inv'
<1>0. /\ socket' = [socket EXCEPT ![w] = "open"]
      /\ UNCHANGED <<stage, address, at, signer, denyVars, connectedPeers, active, abandoned,
                     sweepVars>>
      /\ address[w] = None
  BY DEF Open, Inv, Fresh, taskVars, coreVars
<1>1. timer' \in [Ws -> BOOLEAN] /\ leaked' \in [Ws -> BOOLEAN] /\ SessionTypes
  BY DEF Open, StartTimeout, Inv, SessionInv, SessionTypes
<1>2. \A v \in Ws : socket'[v] = IF v = w THEN "open" ELSE socket[v]
  BY <1>0, <1>1 DEF SessionTypes
<1>3. SessionTypes'
  BY <1>0, <1>1 DEF SessionTypes
<1>4. Identified' /\ LiveSessionsRegistered' /\ DeniedStaysOut' /\ ActiveHasSession'
  BY <1>0, <1>2
     DEF Inv, SessionInv, Identified, LiveSessionsRegistered, DeniedStaysOut, ActiveHasSession
<1>5. Fresh' /\ TaskInv'
  BY <1>0, <1>2 DEF Inv, Fresh, TaskInv
<1>6. SessionInv' BY <1>3, <1>4 DEF SessionInv
<1>7. banned' = banned /\ sweeping' = sweeping BY <1>0 DEF sweepVars
<1> QED BY <1>0, <1>5, <1>6, <1>7, DenySame DEF Inv

LEMMA EndingInv ==
  ASSUME Inv, NEW w \in Ws, ClientCloses(w) \/ BadMessage(w) \/ TimerFires(w)
  PROVE  Inv'
<1>1. End(w) /\ UNCHANGED <<taskVars, denyVars, sweepVars>>
  BY DEF ClientCloses, BadMessage, TimerFires
<1>2. banned' = banned /\ sweeping' = sweeping BY <1>1 DEF sweepVars
<1> QED BY <1>1, <1>2, EndOnly DEF Inv

LEMMA HandshakeMessageInv ==
  ASSUME Inv, NEW w \in Ws, NEW t \in Task, NEW place \in {"denyList", "validate"},
         NEW inStage, HandshakeMessage(w, t, inStage, place)
  PROVE  Inv'
<1>1. timer' \in [Ws -> BOOLEAN] /\ leaked' \in [Ws -> BOOLEAN]
  BY DEF HandshakeMessage, ClearTimer, Inv, SessionInv, SessionTypes
<1>2. SessionInv'
  BY <1>1, SessionSame DEF HandshakeMessage, Inv
<1>3. /\ at' \in [Ws -> [Task -> Await]] /\ at'[w][t] = place
      /\ \A v \in Ws, s \in Task : v # w \/ s # t => at'[v][s] = at[v][s]
  BY GoKeeps DEF HandshakeMessage, Inv, Await
<1>4. TaskInv' BY <1>3 DEF HandshakeMessage, Inv, TaskInv
<1> QED BY <1>2, <1>3, <1>4, DenySame, TaskGoes DEF HandshakeMessage, MayAct, Inv

\* A heartbeat comes from a session, as Identified says.
LEMMA CompletedMessageInv == ASSUME Inv, NEW w \in Ws, CompletedMessage(w) PROVE Inv'
<1>1. /\ socket[w] = "open" /\ address[w] # None /\ address[w] \in Address
      /\ \/ active' = active /\ abandoned' = abandoned
         \/ active' = active \cup {address[w]} /\ abandoned' = abandoned \ {address[w]}
      /\ UNCHANGED <<socket, stage, address, leaked, at, signer, denyVars, connectedPeers,
                     banned, sweeping>>
  BY DEF CompletedMessage, PublishHeartbeat, MayAct, Inv, SessionInv, SessionTypes, Identified,
     coreVars, taskVars, sweepVars
<1>2. timer' \in [Ws -> BOOLEAN]
  BY DEF CompletedMessage, ClearTimer, Inv, SessionInv, SessionTypes
<1>3. SessionTypes' BY <1>1, <1>2 DEF SessionTypes, Inv, SessionInv
<1>4. Identified' /\ LiveSessionsRegistered' /\ DeniedStaysOut' /\ Fresh' /\ TaskInv'
  BY <1>1
     DEF Inv, SessionInv, Identified, LiveSessionsRegistered, DeniedStaysOut, Fresh, TaskInv
<1>5. ActiveHasSession' BY <1>1 DEF Inv, SessionInv, ActiveHasSession
<1>6. SessionInv' BY <1>3, <1>4, <1>5 DEF SessionInv
<1> QED BY <1>1, <1>4, <1>6, DenySame DEF Inv

\* The actions that end the socket of their task.
LEMMA RejectInv ==
  ASSUME Inv, NEW w \in Ws, NEW t \in Task,
         RejectListed(w, t) \/ ChallengeFails(w, t) \/ RejectSignature(w, t) \/ RejectBanned(w, t)
  PROVE  Inv'
<1>1. CASE RejectListed(w, t)
  <2>1. PICK list \in SUBSET Address : FetchDenyList(list) BY <1>1 DEF RejectListed
  <2> QED BY <1>1, <2>1, FetchKeeps, TaskEnds DEF RejectListed, Inv
<1>2. CASE ChallengeFails(w, t)
  <2>1. PICK list \in SUBSET Address : FetchDenyList(list)
    BY <1>2 DEF ChallengeFails, ClaimNotListed
  <2> QED BY <1>2, <2>1, FetchKeeps, TaskEnds DEF ChallengeFails, ClaimNotListed, Inv
<1>3. CASE RejectSignature(w, t)
  BY <1>3, DenySame, TaskEnds DEF RejectSignature, Inv
<1>4. CASE RejectBanned(w, t)
  BY <1>4, DenySame, TaskEnds DEF RejectBanned, Inv
<1> QED BY <1>1, <1>2, <1>3, <1>4

LEMMA SendChallengeInv ==
  ASSUME Inv, NEW w \in Ws, NEW t \in Task, SendChallenge(w, t)
  PROVE  Inv'
<1>1. PICK list \in SUBSET Address : FetchDenyList(list)
  BY DEF SendChallenge, ClaimNotListed
<1>2. /\ Finish(w, t)
      /\ stage' = [stage EXCEPT ![w] = "HANDSHAKE_CHALLENGE_SENT"]
      /\ timer' \in [Ws -> BOOLEAN] /\ leaked' \in [Ws -> BOOLEAN]
      /\ UNCHANGED <<socket, address, connectedPeers, active, abandoned, sweepVars>>
  BY DEF SendChallenge, ClaimNotListed, StartTimeout, Inv, SessionInv, SessionTypes, coreVars
<1>3. SessionTypes' BY <1>2 DEF SessionTypes, Inv, SessionInv, Stage
<1>4. Identified'
  BY <1>2 DEF Inv, SessionInv, SessionTypes, Identified
<1>5. LiveSessionsRegistered' /\ ActiveHasSession' /\ DeniedStaysOut'
  BY <1>2 DEF Inv, SessionInv, LiveSessionsRegistered, ActiveHasSession, DeniedStaysOut
<1>6. SessionInv' BY <1>3, <1>4, <1>5 DEF SessionInv
<1> QED BY <1>1, <1>2, <1>6, FetchKeeps, FinishKeeps, TaskGoes DEF Inv

LEMMA ValidatedInv ==
  ASSUME Inv, NEW w \in Ws, NEW t \in Task, Authenticated(w, t) \/ NotListed(w, t)
  PROVE  Inv'
<1>1. /\ UNCHANGED <<socket, stage, address, timer, leaked, connectedPeers, coreVars, sweepVars>>
      /\ at[w][t] # "idle"
  BY DEF Authenticated, NotListed, socketVars
<1>2. SessionInv'
  BY <1>1, SessionSame DEF Inv, SessionInv, SessionTypes
<1>3. socket[w] # "new" BY <1>1 DEF Inv, Fresh
<1>4. CASE Authenticated(w, t)
  <2>1. /\ at' \in [Ws -> [Task -> Await]] /\ at'[w][t] = "denyListPostAuth"
        /\ \A v \in Ws, s \in Task : v # w \/ s # t => at'[v][s] = at[v][s]
    BY <1>4, GoKeeps DEF Authenticated, Inv, Await
  <2>2. PICK a \in Address : signer' = [signer EXCEPT ![w][t] = a] BY <1>4 DEF Authenticated
  <2>3. /\ signer' \in [Ws -> [Task -> Address \cup {None}]]
        /\ signer'[w][t] = a
        /\ \A v \in Ws, s \in Task : v # w \/ s # t => signer'[v][s] = signer[v][s]
    BY <2>2 DEF Inv, TaskInv
  <2>4. TaskInv' BY <2>1, <2>3, NoneAssumption DEF Inv, TaskInv
  <2> QED BY <1>1, <1>2, <1>3, <1>4, <2>1, <2>4, DenySame, TaskGoes DEF Authenticated, Inv
<1>5. CASE NotListed(w, t)
  <2>1. /\ at' \in [Ws -> [Task -> Await]] /\ at'[w][t] = "banCheck"
        /\ \A v \in Ws, s \in Task : v # w \/ s # t => at'[v][s] = at[v][s]
    BY <1>5, GoKeeps DEF NotListed, Inv, Await
  <2>2. PICK list \in SUBSET Address : FetchDenyList(list) /\ signer[w][t] \notin list
    BY <1>5 DEF NotListed
  <2>3. DenyInv' /\ (FetchFails \/ signer[w][t] \notin Denied) BY <2>2, FetchKeeps DEF Inv
  <2>4. signer' = signer /\ at[w][t] = "denyListPostAuth" BY <1>5 DEF NotListed
  <2>5. TaskInv' BY <2>1, <2>3, <2>4 DEF Inv, TaskInv
  <2> QED BY <1>1, <1>2, <1>3, <2>1, <2>3, <2>5, TaskGoes
<1> QED BY <1>4, <1>5

\* p is the socket whose session ends, and the close handler has told core so.
Kicked(p) == p # None /\ socket[p] = "open"

\* What the end of a handshake of a on the socket w does, where p is the socket
\* that is registered for a: it is ended, with the session of whatever address it
\* has; w gets the address a; and the welcome is sent or fails.
HandshakeDone(w, a, p) ==
  /\ a \in Address /\ p \in Ws \cup {None} /\ p = connectedPeers[a]
  /\ \A v \in Ws :
       /\ address'[v] = IF v = w THEN a ELSE address[v]
       /\ stage'[v] = IF v = w THEN "HANDSHAKE_COMPLETED" ELSE stage[v]
       /\ v # w => socket'[v] = IF v = p THEN "closed" ELSE socket[v]
       /\ timer'[v] => timer[v]
  /\ leaked' = leaked
  /\ \A b \in Address \ {a} :
       connectedPeers'[b] = IF Kicked(p) /\ address[p] = b THEN None ELSE connectedPeers[b]
  /\ \/ /\ socket'[w] = IF w = p THEN "closed" ELSE socket[w]
        /\ connectedPeers'[a] = w
        /\ active' = {b \in active : ~(Kicked(p) /\ address[p] = b)}
     \/ /\ socket[w] = "open" /\ w # p /\ socket'[w] = "closed"
        /\ connectedPeers'[a] = None
        /\ active' = {b \in active \ {a} : ~(Kicked(p) /\ address[p] = b)}
  /\ abandoned' =
       (abandoned \cup {b \in active \ {a} : address[w] = b /\ socket[w] = "open" /\ w # p})
         \cap active'

LEMMA HandshakeDoes ==
  ASSUME Inv, NEW w \in Ws, NEW t \in Task, Welcome(w, t) \/ WelcomeFails(w, t)
  PROVE  /\ HandshakeDone(w, signer[w][t], connectedPeers[signer[w][t]])
         /\ SessionTypes'
         /\ FetchFails \/ signer[w][t] \notin Denied
<1> DEFINE a == signer[w][t]
           p == connectedPeers[a]
<1>1. at[w][t] = "banCheck" BY DEF Welcome, WelcomeFails
<1>2. a \in Address /\ (FetchFails \/ a \notin Denied)
  BY <1>1 DEF Inv, TaskInv
<1>3. p \in Ws \cup {None} /\ SessionTypes BY <1>2 DEF Inv, SessionInv, SessionTypes
<1> HIDE DEF a
<1>4. /\ RegistryAfterKick(w, t) \in [Address -> Ws \cup {None}]
      /\ \A b \in Address : RegistryAfterKick(w, t)[b] =
           IF Kicked(p) /\ address[p] = b THEN None ELSE connectedPeers[b]
  BY <1>2, <1>3
     DEF a, RegistryAfterKick, RegistryWithout, Unregister, Previous, Kicked, SessionTypes
<1>5. ActiveAfterKick(w, t) = {b \in active : ~(Kicked(p) /\ address[p] = b)}
  BY <1>2, <1>3
     DEF a, ActiveAfterKick, ActiveWithout, PublishDisconnect, Previous, Kicked, SessionTypes
<1>6. TakenOver(w, t) = {b \in active \ {a} : address[w] = b /\ socket[w] = "open" /\ w # p}
  BY DEF a, TakenOver, Previous
<1>7. /\ stage' = [stage EXCEPT ![w] = "HANDSHAKE_COMPLETED"]
      /\ address' = [address EXCEPT ![w] = a]
      /\ abandoned' = (abandoned \cup TakenOver(w, t)) \cap active'
      /\ leaked' = leaked
  BY DEF a, Welcome, WelcomeFails, Complete
<1>8. CASE Welcome(w, t)
  <2>1. /\ socket' = [v \in Ws |-> IF v = p THEN "closed" ELSE socket[v]]
        /\ timer' = [v \in Ws |-> timer[v] /\ v # p]
        /\ connectedPeers' = [RegistryAfterKick(w, t) EXCEPT ![a] = w]
        /\ active' = ActiveAfterKick(w, t)
    BY <1>8 DEF a, Welcome, Kick, Previous, Register
  <2>2. SessionTypes'
    BY <1>2, <1>3, <1>4, <1>5, <1>7, <2>1 DEF SessionTypes, Stage
  <2>3. HandshakeDone(w, a, p)
    BY <1>2, <1>3, <1>4, <1>5, <1>6, <1>7, <2>1 DEF HandshakeDone, SessionTypes
  <2> QED BY <1>2, <2>2, <2>3 DEF a
<1>9. CASE WelcomeFails(w, t)
  <2>1. /\ socket' = [[v \in Ws |-> IF v = p THEN "closed" ELSE socket[v]] EXCEPT ![w] = "closed"]
        /\ timer' = [v \in Ws |-> timer[v] /\ v \notin {w, p}]
        /\ connectedPeers' = [RegistryAfterKick(w, t) EXCEPT ![a] = None]
        /\ active' = ActiveAfterKick(w, t) \ {a}
        /\ socket[w] = "open" /\ w # p
    BY <1>9 DEF a, WelcomeFails, Kick, Previous
  <2>2. SessionTypes'
    BY <1>2, <1>3, <1>4, <1>5, <1>7, <2>1 DEF SessionTypes, Stage
  <2>3. HandshakeDone(w, a, p)
    BY <1>2, <1>3, <1>4, <1>5, <1>6, <1>7, <2>1 DEF HandshakeDone, SessionTypes
  <2> QED BY <1>2, <2>2, <2>3 DEF a
<1> QED BY <1>8, <1>9

\* The session that is replaced is the only one of its address, so that the new
\* one may take its place in the registry.
LEMMA WelcomeInv ==
  ASSUME Inv, NEW w \in Ws, NEW t \in Task, Welcome(w, t) \/ WelcomeFails(w, t)
  PROVE  Inv'
<1>0. PICK a, p : HandshakeDone(w, a, p) /\ SessionTypes' /\ (FetchFails \/ a \notin Denied)
  BY HandshakeDoes
<1>1. /\ a \in Address /\ p \in Ws \cup {None} /\ p = connectedPeers[a]
      /\ \A v \in Ws :
           /\ address'[v] = IF v = w THEN a ELSE address[v]
           /\ stage'[v] = IF v = w THEN "HANDSHAKE_COMPLETED" ELSE stage[v]
           /\ v # w => socket'[v] = IF v = p THEN "closed" ELSE socket[v]
      /\ socket'[w] = "closed" \/ (socket'[w] = socket[w] /\ w # p)
      /\ socket'[w] = "closed" \/ connectedPeers'[a] = w
      /\ connectedPeers'[a] \in {w, None}
      /\ \A b \in Address \ {a} :
           connectedPeers'[b] = IF Kicked(p) /\ address[p] = b THEN None ELSE connectedPeers[b]
      /\ \A b \in active' : b \in active /\ ~(Kicked(p) /\ address[p] = b)
      /\ SessionTypes /\ a # None
  BY <1>0, NoneAssumption DEF HandshakeDone, Inv, SessionInv
<1>2. \A v \in Ws : address[v] = a /\ socket[v] = "open" => v = p
  BY <1>1 DEF Inv, SessionInv, LiveSessionsRegistered
<1>3. Identified'
  <2>1. \A v \in Ws : stage'[v] = "HANDSHAKE_COMPLETED" => address'[v] # None
    BY <1>1 DEF Inv, SessionInv, Identified
  <2> SUFFICES ASSUME NEW b \in Address, connectedPeers'[b] # None
               PROVE  address'[connectedPeers'[b]] # None
    BY <2>1 DEF Identified
  <2>2. CASE b = a BY <1>1, <2>2
  <2>3. CASE b # a
    <3>1. connectedPeers[b] \in Ws /\ connectedPeers'[b] = connectedPeers[b]
      BY <1>1, <2>3 DEF SessionTypes
    <3>2. address[connectedPeers[b]] # None
      BY <3>1, NoneAssumption DEF Inv, SessionInv, Identified
    <3> QED BY <1>1, <3>1, <3>2
  <2> QED BY <2>2, <2>3
<1>4. LiveSessionsRegistered'
  <2> SUFFICES ASSUME NEW v \in Ws, socket'[v] = "open", address'[v] # None
               PROVE  connectedPeers'[address'[v]] = v
    BY DEF LiveSessionsRegistered
  <2>1. CASE v = w BY <1>1, <2>1
  <2>2. CASE v # w
    <3>1. v # p /\ socket[v] = "open" /\ address[v] # None /\ address'[v] = address[v]
      BY <1>1, <2>2
    <3>2. address[v] # a /\ address[v] \in Address BY <1>1, <1>2, <3>1 DEF SessionTypes
    <3>3. connectedPeers[address[v]] = v
      BY <3>1 DEF Inv, SessionInv, LiveSessionsRegistered
    <3>4. ~(Kicked(p) /\ address[p] = address[v])
      BY <1>1, <3>1, <3>3 DEF Inv, SessionInv, LiveSessionsRegistered, Kicked
    <3> QED BY <1>1, <3>1, <3>2, <3>3, <3>4
  <2> QED BY <2>1, <2>2
<1>5. ActiveHasSession'
  <2> SUFFICES ASSUME NEW b \in active' \ abandoned'
               PROVE  \E v \in Ws : socket'[v] = "open" /\ address'[v] = b
    BY DEF ActiveHasSession
  <2>1. /\ b \in active \ abandoned /\ ~(Kicked(p) /\ address[p] = b)
        /\ b # a => ~(address[w] = b /\ socket[w] = "open" /\ w # p)
    BY <1>0, <1>1 DEF HandshakeDone
  <2>2. PICK v \in Ws : socket[v] = "open" /\ address[v] = b
    BY <2>1 DEF Inv, SessionInv, ActiveHasSession
  <2>3. v # p BY <1>1, <2>1, <2>2, NoneAssumption DEF Kicked
  <2>4. b # a BY <1>2, <2>2, <2>3
  <2>5. v # w BY <2>1, <2>2, <2>3, <2>4
  <2> QED BY <1>1, <2>2, <2>3, <2>5
<1>6. DeniedStaysOut'
  BY <1>0, <1>1 DEF Inv, SessionInv, DeniedStaysOut
<1>7. SessionInv' BY <1>0, <1>3, <1>4, <1>5, <1>6 DEF SessionInv
<1>8. Finish(w, t) /\ at[w][t] = "banCheck" /\ UNCHANGED <<denyVars, sweepVars>>
  BY DEF Welcome, WelcomeFails
<1>9. /\ TaskInv'
      /\ \A v \in Ws, s \in Task : at'[v][s] = "idle" \/ at'[v][s] = at[v][s]
  BY <1>8, FinishKeeps DEF Inv
<1>10. Fresh'
  <2>1. socket[w] # "new" BY <1>8 DEF Inv, Fresh
  <2> QED BY <1>1, <1>9, <2>1 DEF Inv, Fresh
<1> QED BY <1>7, <1>8, <1>9, <1>10, DenySame DEF Inv, sweepVars

\* Sockets, tasks and the registry are left alone.
LEMMA SweepVarsInv ==
  ASSUME Inv, UNCHANGED <<socketVars, taskVars, denyVars, connectedPeers, coreVars>>,
         banned' \subseteq Address, sweeping' \subseteq Address
  PROVE  Inv'
<1>1. UNCHANGED <<socket, stage, address, timer, leaked, at, signer>>
  BY DEF socketVars, taskVars
<1>2. SessionInv' BY <1>1, SessionSame DEF Inv, SessionInv, SessionTypes
<1>3. Fresh' /\ TaskInv' BY <1>1 DEF Inv, Fresh, TaskInv
<1> QED BY <1>2, <1>3, DenySame DEF Inv

LEMMA SweepInv ==
  ASSUME Inv,
         \/ Sweep
         \/ \E a \in Address : Ban(a) \/ SweepChecked(a)
  PROVE  Inv'
<1>0. banned \subseteq Address /\ sweeping \subseteq Address BY DEF Inv
<1>1. CASE Sweep
  BY <1>0, <1>1, SweepVarsInv DEF Sweep
<1>2. ASSUME NEW a \in Address, Ban(a) PROVE Inv'
  BY <1>0, <1>2, SweepVarsInv DEF Ban
<1>3. ASSUME NEW a \in Address, SweepSpares(a) PROVE Inv'
  BY <1>0, <1>3, SweepVarsInv DEF SweepSpares
<1>4. ASSUME NEW a \in Address, SweepEnds(a) PROVE Inv'
  <2>1. connectedPeers[a] \in Ws BY <1>4 DEF SweepEnds, Inv, SessionInv, SessionTypes
  <2> QED BY <1>0, <1>4, <2>1, EndOnly DEF SweepEnds
<1> QED BY <1>1, <1>2, <1>3, <1>4 DEF SweepChecked

----------------------------------------------------------------------------
(* The theorems *)

LEMMA NextInv == ASSUME Inv, [Next]_vars PROVE Inv'
<1>1. CASE UNCHANGED vars
  <2>1. UNCHANGED <<socketVars, taskVars, denyVars, connectedPeers, coreVars, banned, sweeping>>
    BY <1>1 DEF vars, sweepVars
  <2> QED BY <2>1, SweepVarsInv DEF Inv
<1>2. CASE Client
  <2>1. ASSUME NEW w \in Ws, NEW t \in Task, ChallengeRequest(w, t) \/ SignedChallenge(w, t)
        PROVE  Inv'
    BY <2>1, HandshakeMessageInv DEF ChallengeRequest, SignedChallenge
  <2> QED BY <1>2, <2>1, OpenInv, EndingInv, CompletedMessageInv DEF Client
<1>3. CASE \E w \in Ws : TimerFires(w)
  BY <1>3, EndingInv
<1>4. CASE \E w \in Ws, t \in Task : Resume(w, t)
  BY <1>4, RejectInv, SendChallengeInv, ValidatedInv, WelcomeInv DEF Resume
<1>5. CASE Sweep \/ \E a \in Address : Ban(a) \/ SweepChecked(a)
  BY <1>5, SweepInv
<1> QED BY <1>1, <1>2, <1>3, <1>4, <1>5 DEF Next

LEMMA Invariance == Spec => []Inv
<1>1. Init => Inv BY InitInv
<1>2. Inv /\ [Next]_vars => Inv' BY NextInv
<1> QED BY <1>1, <1>2, PTL DEF Spec

\* Every variable of the gateway keeps its type; core hears of addresses only.
THEOREM TypeCorrect == Spec => []TypeOK
<1>1. Inv => TypeOK BY InvTypes
<1> QED BY <1>1, Invariance, PTL

\* A session that can send heartbeats is the registered one of its address, and
\* the only one, however handshakes, kicks, closes, timers and sweeps interleave.
THEOREM OneSession == Spec => []LiveSessionsRegistered
<1>1. Inv => LiveSessionsRegistered BY DEF Inv, SessionInv
<1> QED BY <1>1, Invariance, PTL

\* Whoever core has heard of since the last disconnect has a session, whatever
\* wallets sign on its socket, as long as none takes the socket over: the last
\* heartbeat of a session comes before its disconnect.
THEOREM NobodyAbandoned == Spec => []ActiveHasSession
<1>1. Inv => ActiveHasSession BY DEF Inv, SessionInv
<1> QED BY <1>1, Invariance, PTL

\* Unless the deny list cannot be fetched, nobody on it gets a session.
THEOREM DenyListHolds == Spec => []DeniedStaysOut
<1>1. Inv => DeniedStaysOut BY DEF Inv, SessionInv
<1> QED BY <1>1, Invariance, PTL

----------------------------------------------------------------------------
(* Patient clients *)

\* A patient client has one handler under way, and meanwhile no timer and no
\* session; with a session it has neither a timer nor a handler.
Calm(w) ==
  /\ ~ leaked[w]
  /\ socket[w] = "new" => ~ timer[w]
  /\ address[w] # None => stage[w] = "HANDSHAKE_COMPLETED" /\ ~ timer[w]
  /\ \A t \in Task : at[w][t] # "idle" =>
       /\ socket[w] = "open"
       /\ stage[w] # "HANDSHAKE_COMPLETED"
       /\ ~ timer[w]
       /\ \A s \in Task \ {t} : at[w][s] = "idle"

PatientInv == (\A w \in Patient : Calm(w)) /\ PatientIsLive

LEMMA PatientTypes ==
  ASSUME Inv
  PROVE  /\ socket \in [Ws -> {"new", "open", "closed"}]
         /\ stage \in [Ws -> Stage]
         /\ address \in [Ws -> Address \cup {None}]
         /\ timer \in [Ws -> BOOLEAN] /\ leaked \in [Ws -> BOOLEAN]
         /\ at \in [Ws -> [Task -> Await]] /\ "idle" \in Await
         /\ connectedPeers \in [Address -> Ws \cup {None}]
         /\ Patient \subseteq Ws /\ None \notin Patient /\ None \notin Address
BY NoneAssumption, ClientAssumption DEF Inv, SessionInv, SessionTypes, TaskInv, Await

\* A socket is ended while, if it is a patient client's, no handler is left.
LEMMA EndPatient ==
  ASSUME Inv, PatientInv, NEW w \in Ws, End(w),
         \A v \in Ws, t \in Task : at'[v][t] \in {at[v][t], "idle"},
         w \in Patient => \A t \in Task : at'[w][t] = "idle"
  PROVE  PatientInv'
<1>1. /\ \A v \in Ws : /\ socket'[v] = IF v = w THEN "closed" ELSE socket[v]
                       /\ timer'[v] = IF v = w THEN FALSE ELSE timer[v]
      /\ UNCHANGED <<stage, address, leaked>>
      /\ connectedPeers' = RegistryWithout(w)
  BY PatientTypes DEF End
<1>2. ASSUME NEW v \in Patient PROVE Calm(v)'
  <2>1. Calm(v) /\ v \in Ws
    BY PatientTypes DEF PatientInv
  <2>2. CASE v = w
    BY <1>1, <2>1, <2>2 DEF Calm
  <2>3. CASE v # w
    <3>1. UNCHANGED <<socket[v], stage[v], address[v], timer[v], leaked[v]>>
      BY <1>1, <2>1, <2>3
    <3> QED
      BY <2>1, <3>1 DEF Calm
  <2> QED
    BY <2>2, <2>3
<1>3. PatientIsLive'
  <2> SUFFICES ASSUME NEW a \in Address, connectedPeers'[a] \in Patient
               PROVE  IsLive(a, connectedPeers[a])'
    BY DEF PatientIsLive
  <2>1. /\ connectedPeers'[a] = connectedPeers[a]
        /\ socket[w] = "open" => a # address[w]
    BY <1>1, PatientTypes DEF RegistryWithout, Unregister
  <2>2. IsLive(a, connectedPeers[a])
    BY <2>1 DEF PatientInv, PatientIsLive
  <2> QED
    BY <1>1, <2>1, <2>2, PatientTypes DEF IsLive
<1> QED
  BY <1>2, <1>3 DEF PatientInv

\* No socket is ended or registered, and what is left to see is one socket.
LEMMA OnePatient ==
  ASSUME Inv, PatientInv, NEW w \in Ws, UNCHANGED <<address, connectedPeers>>,
         socket'[w] = socket[w] \/ address[w] = None,
         \A v \in Ws \ {w} :
           /\ UNCHANGED <<socket[v], stage[v], timer[v], leaked[v]>>
           /\ \A t \in Task : at'[v][t] = at[v][t],
         w \in Patient => Calm(w)'
  PROVE  PatientInv'
<1>1. ASSUME NEW v \in Patient \ {w} PROVE Calm(v)'
  BY <1>1, PatientTypes DEF PatientInv, Calm
<1>2. PatientIsLive'
  BY PatientTypes DEF PatientInv, PatientIsLive, IsLive
<1> QED
  BY <1>1, <1>2 DEF PatientInv

\* What a client does, apart from going away.
LEMMA ClientPatient ==
  ASSUME Inv, PatientInv, NEW w \in Ws,
         \/ Open(w)
         \/ CompletedMessage(w)
         \/ \E t \in Task : ChallengeRequest(w, t) \/ SignedChallenge(w, t)
  PROVE  PatientInv'
<1>1. CASE Open(w)
  <2>1. address[w] = None /\ \A t \in Task : at[w][t] = "idle"
    BY <1>1 DEF Open, Inv, Fresh
  <2>2. w \in Patient => Calm(w)'
    BY <1>1, <2>1, PatientTypes DEF Open, StartTimeout, taskVars, PatientInv, Calm
  <2> QED
    BY <1>1, <2>1, <2>2, OnePatient, PatientTypes DEF Open, StartTimeout, taskVars
<1>2. CASE CompletedMessage(w)
  <2>1. w \in Patient => Calm(w)'
    BY <1>2, PatientTypes DEF CompletedMessage, ClearTimer, taskVars, PatientInv, Calm
  <2> QED
    BY <1>2, <2>1, OnePatient, PatientTypes DEF CompletedMessage, ClearTimer, taskVars
<1>3. ASSUME NEW t \in Task, ChallengeRequest(w, t) \/ SignedChallenge(w, t) PROVE PatientInv'
  <2>1. PICK place \in Await :
          /\ Go(w, t, place) /\ ClearTimer(w) /\ MayAct(w)
          /\ stage[w] # "HANDSHAKE_COMPLETED"
          /\ UNCHANGED <<socket, stage, address, leaked, connectedPeers>>
    BY <1>3 DEF ChallengeRequest, SignedChallenge, HandshakeMessage, Await
  <2>2. /\ at'[w][t] = place
        /\ \A v \in Ws, s \in Task : v # w \/ s # t => at'[v][s] = at[v][s]
    BY <2>1, GoKeeps DEF Inv
  <2>3. w \in Patient => Calm(w)'
    BY <2>1, <2>2, PatientTypes DEF MayAct, ClearTimer, PatientInv, Calm
  <2> QED
    BY <2>1, <2>2, <2>3, OnePatient, PatientTypes DEF ClearTimer
<1> QED
  BY <1>1, <1>2, <1>3

\* A handler that goes on waiting, or sends the challenge.
LEMMA HandlerPatient ==
  ASSUME Inv, PatientInv, NEW w \in Ws, NEW t \in Task,
         SendChallenge(w, t) \/ Authenticated(w, t) \/ NotListed(w, t)
  PROVE  PatientInv'
<1>1. PICK place \in Await :
        /\ Go(w, t, place) /\ at[w][t] # "idle"
        /\ UNCHANGED <<socket, address, connectedPeers>>
        /\ \/ place = "idle" /\ StartTimeout(w) /\ stage' = [stage EXCEPT ![w] = "HANDSHAKE_CHALLENGE_SENT"]
           \/ UNCHANGED <<timer, leaked, stage>>
  BY DEF SendChallenge, ClaimNotListed, Finish, Authenticated, NotListed, Await, socketVars
<1>2. /\ at'[w][t] = place
      /\ \A v \in Ws, s \in Task : v # w \/ s # t => at'[v][s] = at[v][s]
  BY <1>1, GoKeeps DEF Inv
<1>3. w \in Patient => Calm(w)'
  BY <1>1, <1>2, PatientTypes DEF StartTimeout, PatientInv, Calm
<1>4. \A v \in Ws \ {w} : UNCHANGED <<socket[v], stage[v], timer[v], leaked[v]>>
  BY <1>1, PatientTypes DEF StartTimeout
<1> QED
  BY <1>1, <1>2, <1>3, <1>4, OnePatient

\* The session that ends with a handshake is not the one that begins.
\* The session that ends with a handshake is not the one that begins.
LEMMA WelcomePatient ==
  ASSUME Inv, PatientInv, NEW w \in Ws, NEW t \in Task, Welcome(w, t) \/ WelcomeFails(w, t)
  PROVE  PatientInv'
<1>1. PICK a, p : HandshakeDone(w, a, p)
  BY HandshakeDoes
<1>2. /\ a \in Address /\ p \in Ws \cup {None} /\ p = connectedPeers[a]
      /\ \A v \in Ws : /\ address'[v] = IF v = w THEN a ELSE address[v]
                       /\ stage'[v] = IF v = w THEN "HANDSHAKE_COMPLETED" ELSE stage[v]
                       /\ v # w => socket'[v] = IF v = p THEN "closed" ELSE socket[v]
                       /\ timer'[v] => timer[v]
      /\ leaked' = leaked
      /\ \A b \in Address \ {a} : connectedPeers'[b] \in {connectedPeers[b], None}
      /\ \/ connectedPeers'[a] = w /\ (w = p \/ socket'[w] = socket[w])
         \/ connectedPeers'[a] = None
  BY <1>1 DEF HandshakeDone
<1>3. /\ at[w][t] = "banCheck" /\ at'[w][t] = "idle"
      /\ \A v \in Ws, s \in Task : v # w \/ s # t => at'[v][s] = at[v][s]
  <2>1. Finish(w, t) /\ at[w][t] = "banCheck"
    BY DEF Welcome, WelcomeFails
  <2> QED
    BY <2>1, FinishKeeps DEF Inv
<1>4. ASSUME w \in Patient
      PROVE  /\ ~ timer[w] /\ socket[w] = "open" /\ w # p /\ address[w] = None
             /\ \A s \in Task : at'[w][s] = "idle"
  <2>1. /\ address[w] = None /\ ~ timer[w] /\ socket[w] = "open"
        /\ \A s \in Task \ {t} : at[w][s] = "idle"
    BY <1>3, <1>4 DEF PatientInv, Calm
  <2>2. w # p
    BY <1>2, <1>4, <2>1, PatientTypes DEF PatientInv, PatientIsLive, IsLive
  <2> QED
    BY <1>3, <2>1, <2>2
<1>5. ASSUME p \in Patient PROVE \A s \in Task : at[p][s] = "idle"
  BY <1>2, <1>5, PatientTypes DEF PatientInv, PatientIsLive, IsLive, Calm
<1>6. ASSUME NEW v \in Patient, v # w PROVE Calm(v)'
  BY <1>2, <1>3, <1>5, <1>6, PatientTypes DEF PatientInv, Calm
<1>7. ASSUME w \in Patient PROVE Calm(w)'
  <2>1. ~ timer'[w] /\ ~ leaked'[w] /\ stage'[w] = "HANDSHAKE_COMPLETED"
    BY <1>2, <1>4, <1>7 DEF PatientInv, Calm
  <2> QED
    BY <1>4, <1>7, <2>1 DEF Calm
<1>8. PatientIsLive'
  <2> SUFFICES ASSUME NEW b \in Address, connectedPeers'[b] \in Patient
               PROVE  IsLive(b, connectedPeers[b])'
    BY DEF PatientIsLive
  <2>1. CASE b = a
    <3>1. connectedPeers'[b] = w /\ w \in Patient
      BY <1>2, <2>1, PatientTypes
    <3> QED
      BY <1>2, <1>4, <2>1, <3>1, PatientTypes DEF IsLive
  <2>2. CASE b # a
    <3>1. connectedPeers'[b] = connectedPeers[b] /\ IsLive(b, connectedPeers[b])
      BY <1>2, <2>2, PatientTypes DEF PatientInv, PatientIsLive
    <3>2. connectedPeers[b] # w
      BY <1>4, <3>1, PatientTypes DEF IsLive
    <3>3. connectedPeers[b] # p
      BY <1>2, <2>2, <3>1 DEF PatientInv, PatientIsLive, IsLive
    <3> QED
      BY <1>2, <3>1, <3>2, <3>3, PatientTypes DEF IsLive
  <2> QED
    BY <2>1, <2>2
<1> QED
  BY <1>6, <1>7, <1>8 DEF PatientInv

LEMMA NextPatient == ASSUME Inv, PatientInv, [Next]_vars PROVE PatientInv'
<1>1. ASSUME NEW w \in Ws, ClientCloses(w) \/ BadMessage(w) \/ TimerFires(w) PROVE PatientInv'
  <2>1. End(w) /\ UNCHANGED at
    BY <1>1 DEF ClientCloses, BadMessage, TimerFires, taskVars
  <2>2. w \in Patient => \A t \in Task : at[w][t] = "idle"
    BY <1>1 DEF ClientCloses, BadMessage, TimerFires, MayAct, PatientInv, Calm
  <2> QED
    BY <2>1, <2>2, EndPatient
<1>2. ASSUME NEW w \in Ws, NEW t \in Task,
             RejectListed(w, t) \/ ChallengeFails(w, t) \/ RejectSignature(w, t) \/ RejectBanned(w, t)
      PROVE  PatientInv'
  <2>1. End(w) /\ Finish(w, t) /\ at[w][t] # "idle"
    BY <1>2 DEF RejectListed, ChallengeFails, ClaimNotListed, RejectSignature, RejectBanned
  <2>2. /\ at'[w][t] = "idle"
        /\ \A v \in Ws, s \in Task : v # w \/ s # t => at'[v][s] = at[v][s]
    BY <2>1, FinishKeeps DEF Inv
  <2>3. w \in Patient => \A s \in Task : at'[w][s] = "idle"
    BY <2>1, <2>2 DEF PatientInv, Calm
  <2>4. \A v \in Ws, s \in Task : at'[v][s] \in {at[v][s], "idle"}
    BY <2>2
  <2> QED
    BY <2>1, <2>3, <2>4, EndPatient
<1>3. ASSUME NEW a \in Address, SweepEnds(a) PROVE PatientInv'
  <2>1. connectedPeers[a] \in Ws /\ End(connectedPeers[a]) /\ UNCHANGED at
    BY <1>3, PatientTypes DEF SweepEnds, taskVars
  <2>2. connectedPeers[a] \in Patient => \A t \in Task : at[connectedPeers[a]][t] = "idle"
    BY PatientTypes DEF PatientInv, PatientIsLive, IsLive, Calm
  <2> QED
    BY <2>1, <2>2, EndPatient
<1>4. CASE UNCHANGED <<socketVars, taskVars, connectedPeers>>
  BY <1>4 DEF socketVars, taskVars, PatientInv, PatientIsLive, IsLive, Calm
<1>5. ASSUME NEW a \in Address, Ban(a) \/ SweepSpares(a) PROVE PatientInv'
  BY <1>4, <1>5 DEF Ban, SweepSpares
<1>6. ASSUME NEW w \in Ws, NEW t \in Task, Resume(w, t) PROVE PatientInv'
  BY <1>2, <1>6, HandlerPatient, WelcomePatient DEF Resume
<1>7. CASE Client
  BY <1>1, <1>7, ClientPatient DEF Client
<1>8. CASE Sweep
  BY <1>4, <1>8 DEF Sweep
<1>9. CASE UNCHANGED vars
  BY <1>4, <1>9 DEF vars
<1> QED
  BY <1>1, <1>3, <1>5, <1>6, <1>7, <1>8, <1>9 DEF Next, SweepChecked

LEMMA PatientInvariance == Spec => [](Inv /\ PatientInv)
<1>1. Init => PatientInv
  BY NoneAssumption, ClientAssumption DEF Init, PatientInv, PatientIsLive, Calm
<1>2. Inv /\ PatientInv /\ [Next]_vars => PatientInv'
  BY NextPatient
<1> QED
  BY <1>1, <1>2, Invariance, PTL DEF Spec

\* The registry never keeps the session of a patient client after its end,
\* whatever the other clients, the timers and the sweep do.
THEOREM PatientsRegistered == Spec => []PatientIsLive
<1>1. PatientInv => PatientIsLive
  BY DEF PatientInv
<1> QED
  BY <1>1, PatientInvariance, PTL

\* No timer ends the session of a patient client: each is cleared by the
\* message that follows, and none is started while another runs.
THEOREM TimersSpareSessions == Spec => TimerSparesSessions
<1>1. Inv /\ PatientInv => [\A w \in Patient : TimerFires(w) => address[w] = None]_vars
  BY DEF PatientInv, Calm, TimerFires
<1> QED
  BY <1>1, PatientInvariance, PTL DEF TimerSparesSessions

----------------------------------------------------------------------------
(* The gateway implements Sessions *)

\* Whom core takes for connected, and rightly so.
heard == active \ abandoned

\* The choice in live is of the only candidate.
LiveExactly ==
  /\ live \in [Address -> Ws \cup {None}]
  /\ \A a \in Address, v \in Ws : live[a] = v <=> IsLive(a, v)

LEMMA LiveIs == Inv => LiveExactly
<1> SUFFICES ASSUME Inv PROVE LiveExactly
  OBVIOUS
<1>1. \A a \in Address, v \in Ws : IsLive(a, v) => connectedPeers[a] = v
  BY NoneAssumption DEF Inv, SessionInv, LiveSessionsRegistered, IsLive
<1> SUFFICES ASSUME NEW a \in Address
             PROVE  /\ live[a] \in Ws \cup {None}
                    /\ \A v \in Ws : live[a] = v <=> IsLive(a, v)
  BY DEF live, LiveExactly
<1>2. CASE \E w \in Ws : IsLive(a, w)
  <2>1. live[a] = CHOOSE w \in Ws : IsLive(a, w) BY <1>2 DEF live
  <2>2. live[a] \in Ws /\ IsLive(a, live[a]) BY <1>2, <2>1
  <2> QED BY <1>1, <2>2
<1>3. CASE ~ \E w \in Ws : IsLive(a, w)
  <2>1. live[a] = None BY <1>3 DEF live
  <2> QED BY <1>3, <2>1, NoneAssumption
<1> QED BY <1>2, <1>3

LEMMA LiveIsNext == Inv' => LiveExactly'
  BY LiveIs, PTL

\* The sessions are known by the live sockets.
LEMMA LiveBecomes ==
  ASSUME Inv', NEW f \in [Address -> Ws \cup {None}],
         \A b \in Address, v \in Ws : IsLive(b, v)' <=> f[b] = v
  PROVE  live' = f
<1>1. live' \in [Address -> Ws \cup {None}]
  BY LiveIsNext DEF LiveExactly
<1>2. \A b \in Address, v \in Ws : live'[b] = v <=> f[b] = v
  BY LiveIsNext DEF LiveExactly
<1>3. \A b \in Address : live'[b] = f[b]
  BY <1>1, <1>2
<1> QED BY <1>1, <1>3

\* Two states with the same live sockets have the same sessions.
LEMMA SameLive ==
  ASSUME Inv, Inv', \A b \in Address, v \in Ws : IsLive(b, v)' <=> IsLive(b, v)
  PROVE  live' = live
<1>1. live \in [Address -> Ws \cup {None}]
      /\ \A b \in Address, v \in Ws : live[b] = v <=> IsLive(b, v)
  BY LiveIs DEF LiveExactly
<1> QED BY <1>1, LiveBecomes

Step == \/ Promise!Next
        \/ UNCHANGED <<live, heard>>

----------------------------------------------------------------------------
(* The steps *)

\* The socket p, and no other, is ended, and core is told of its address.
LEMMA OneEnds ==
  ASSUME Inv, Inv', NEW p \in Ws \cup {None},
         \A b \in Address, v \in Ws : IsLive(b, v)' <=> (IsLive(b, v) /\ v # p),
         \A b \in Address : b \in heard' <=> (b \in heard /\ ~(Kicked(p) /\ address[p] = b))
  PROVE  Step
<1>0. heard \subseteq Address /\ heard' \subseteq Address
  BY DEF heard, Inv, SessionInv, SessionTypes
<1>1. live \in [Address -> Ws \cup {None}]
      /\ \A b \in Address, v \in Ws : live[b] = v <=> IsLive(b, v)
  BY LiveIs DEF LiveExactly
<1>2. CASE Kicked(p) /\ address[p] # None
  <2> SUFFICES ASSUME NEW a \in Address, a = address[p] PROVE Step
    BY <1>2 DEF Inv, SessionInv, SessionTypes, Kicked
  <2>1. IsLive(a, p) /\ p \in Ws BY <1>2 DEF IsLive, Kicked
  <2>2. \A b \in Address, v \in Ws : IsLive(b, v)' <=> [live EXCEPT ![a] = None][b] = v
    <3> SUFFICES ASSUME NEW b \in Address, NEW v \in Ws
                 PROVE  IsLive(b, v)' <=> [live EXCEPT ![a] = None][b] = v
      OBVIOUS
    <3>1. CASE b = a
      <4>1. ~ IsLive(b, v)' BY <1>1, <2>1, <3>1
      <4> QED BY <1>1, <3>1, <4>1, NoneAssumption
    <3>2. CASE b # a
      <4>1. IsLive(b, v) => v # p BY <3>2 DEF IsLive
      <4> QED BY <1>1, <3>2, <4>1
    <3> QED BY <3>1, <3>2
  <2>3. live' = [live EXCEPT ![a] = None]
    <3>1. [live EXCEPT ![a] = None] \in [Address -> Ws \cup {None}] BY <1>1
    <3> QED BY <2>2, <3>1, LiveBecomes
  <2>4. heard' = heard \ {a} BY <1>0, <1>2
  <2>5. Promise!End(a) BY <2>3, <2>4 DEF Promise!End, heard
  <2> QED BY <2>5 DEF Step, Promise!Next
<1>3. CASE ~(Kicked(p) /\ address[p] # None)
  <2>1. \A b \in Address, v \in Ws : IsLive(b, v) => v # p
    BY <1>3, NoneAssumption DEF IsLive, Kicked
  <2>2. live' = live BY <2>1, SameLive
  <2>3. heard' = heard BY <1>0, <1>3, NoneAssumption
  <2> QED BY <2>2, <2>3 DEF Step
<1> QED BY <1>2, <1>3

\* Closing a socket ends its session, if it has one.
LEMMA EndMaps == ASSUME Inv, Inv', NEW w \in Ws, End(w) PROVE Step
<1>1. /\ \A v \in Ws : socket'[v] = IF v = w THEN "closed" ELSE socket[v]
      /\ address' = address /\ active' = ActiveWithout(w)
      /\ abandoned' = abandoned \cap active'
  BY DEF End, Inv, SessionInv, SessionTypes
<1>2. \A b \in Address, v \in Ws : IsLive(b, v)' <=> (IsLive(b, v) /\ v # w)
  BY <1>1 DEF IsLive
<1>3. \A b \in Address : b \in heard' <=> (b \in heard /\ ~(Kicked(w) /\ address[w] = b))
  BY <1>1, NoneAssumption DEF heard, ActiveWithout, PublishDisconnect, Kicked
<1> QED BY <1>2, <1>3, OneEnds

LEMMA SameMaps ==
  ASSUME Inv, Inv', UNCHANGED <<socket, address, coreVars>>
  PROVE  Step
  BY SameLive DEF IsLive, Step, heard, coreVars

\* A new socket has no address: it becomes no session by being opened.
LEMMA OpenMaps == ASSUME Inv, Inv', NEW w \in Ws, Open(w) PROVE Step
<1>1. /\ \A v \in Ws : socket'[v] = IF v = w THEN "open" ELSE socket[v]
      /\ UNCHANGED <<address, active, abandoned>> /\ address[w] = None
  BY DEF Open, Inv, SessionInv, SessionTypes, Fresh, coreVars
<1>2. \A b \in Address, v \in Ws : IsLive(b, v)' <=> IsLive(b, v)
  BY <1>1, NoneAssumption DEF IsLive
<1> QED BY <1>1, <1>2, SameLive DEF Step, heard

LEMMA BeatMaps == ASSUME Inv, Inv', NEW w \in Ws, CompletedMessage(w) PROVE Step
<1>1. /\ socket[w] = "open" /\ address[w] \in Address /\ UNCHANGED <<socket, address>>
      /\ UNCHANGED coreVars \/ PublishHeartbeat(w)
  BY DEF CompletedMessage, MayAct, Inv, SessionInv, SessionTypes, Identified
<1>2. live' = live BY <1>1, SameLive DEF IsLive
<1>3. live[address[w]] = w BY <1>1, LiveIs DEF LiveExactly, IsLive
<1>4. CASE UNCHANGED coreVars BY <1>1, <1>4, SameMaps
<1>5. CASE PublishHeartbeat(w)
  <2>1. heard' = heard \cup {address[w]} BY <1>5 DEF PublishHeartbeat, heard
  <2>2. Promise!Beat(address[w]) BY <1>2, <1>3, <2>1, NoneAssumption DEF Promise!Beat, heard
  <2> QED BY <1>1, <2>2 DEF Step, Promise!Next
<1> QED BY <1>1, <1>4, <1>5

\* A handshake that completes on an open socket other than the registered one.
LEMMA SessionBegins ==
  ASSUME Inv, Inv', NEW w \in Ws, NEW a, NEW p, HandshakeDone(w, a, p),
         socket[w] = "open", w # p
  PROVE  Step
<1>1. /\ a \in Address /\ p \in Ws \cup {None} /\ p = connectedPeers[a] /\ a # None
      /\ \A v \in Ws :
           /\ address'[v] = IF v = w THEN a ELSE address[v]
           /\ v # w => socket'[v] = IF v = p THEN "closed" ELSE socket[v]
  BY NoneAssumption DEF HandshakeDone
<1>2. \A v \in Ws : IsLive(a, v) => v = p
  BY <1>1 DEF Inv, SessionInv, LiveSessionsRegistered, IsLive
<1>3. live \in [Address -> Ws \cup {None}]
      /\ \A b \in Address, v \in Ws : live[b] = v <=> IsLive(b, v)
  BY LiveIs DEF LiveExactly
<1>4. PICK b \in Address : b = IF Kicked(p) THEN address[p] ELSE a
  BY <1>1 DEF Inv, SessionInv, SessionTypes, Identified, Kicked
<1> DEFINE over == {a, b} \cup {c \in Address : live[c] = w}
           new == IF socket'[w] = "open" THEN w ELSE None
           f == [c \in Address |-> IF c = a THEN new ELSE IF c \in over THEN None ELSE live[c]]
<1>5. live[a] # w BY <1>1, <1>2, <1>3
<1>6. live' = f
  <2>1. f \in [Address -> Ws \cup {None}] BY <1>3
  <2> SUFFICES ASSUME NEW c \in Address, NEW v \in Ws PROVE IsLive(c, v)' <=> f[c] = v
    BY <2>1, LiveBecomes
  <2>2. CASE v = w
    <3>1. IsLive(c, v)' <=> (c = a /\ socket'[w] = "open") BY <1>1, <2>2 DEF IsLive
    <3>2. f[c] = w <=> (c = a /\ socket'[w] = "open") BY <1>3, NoneAssumption
    <3> QED BY <2>2, <3>1, <3>2
  <2>3. CASE v # w
    <3>1. IsLive(c, v)' <=> (IsLive(c, v) /\ v # p) BY <1>1, <2>3 DEF IsLive
    <3>2. CASE c = a BY <1>2, <2>3, <3>1, <3>2, NoneAssumption
    <3>3. CASE c # a /\ c \in over
      <4>1. f[c] # v BY <3>3, NoneAssumption
      <4>2. CASE live[c] = w
        <5>1. ~ IsLive(c, v) BY <1>3, <2>3, <4>2
        <5> QED BY <3>1, <4>1, <5>1
      <4>3. CASE live[c] # w
        <5>1. c = b /\ Kicked(p) /\ address[p] = c BY <1>4, <3>3, <4>3
        <5>2. IsLive(c, p) /\ p \in Ws BY <1>1, <5>1 DEF IsLive, Kicked
        <5>3. IsLive(c, v) => v = p BY <1>3, <5>2
        <5> QED BY <3>1, <4>1, <5>3
      <4> QED BY <4>2, <4>3
    <3>4. CASE c # a /\ c \notin over
      <4>1. f[c] = live[c] BY <3>4
      <4>2. IsLive(c, v) => v # p
        BY <1>1, <1>4, <3>4, NoneAssumption DEF IsLive, Kicked
      <4> QED BY <1>3, <3>1, <4>1, <4>2
    <3> QED BY <3>2, <3>3, <3>4
  <2> QED BY <2>2, <2>3
<1>7. heard' = heard \ over
  <2>0. heard \subseteq Address /\ heard' \subseteq Address
    BY DEF heard, Inv, SessionInv, SessionTypes
  <2>1. a \in heard => Kicked(p) /\ address[p] = a
    BY <1>1, <1>2, NoneAssumption
       DEF heard, Inv, SessionInv, ActiveHasSession, IsLive, Kicked
  <2>2. \A c \in Address : live[c] = w <=> address[w] = c BY <1>3 DEF IsLive
  <2>3. a \notin heard' BY <2>1 DEF HandshakeDone, heard
  <2>4. \A c \in Address \ {a} : c \in heard' <=>
          (c \in heard /\ address[w] # c /\ ~(Kicked(p) /\ address[p] = c))
    BY DEF HandshakeDone, heard
  <2>5. \A c \in Address \ {a} : c \in over <=>
          (address[w] = c \/ (Kicked(p) /\ address[p] = c))
    BY <1>4, <2>2
  <2> QED BY <2>0, <2>3, <2>4, <2>5
<1>8. Promise!Handshake(a, w, b)
  <2>1. new \in {w, None} OBVIOUS
  <2> QED BY <1>5, <1>6, <1>7, <2>1 DEF Promise!Handshake, heard
<1> QED BY <1>1, <1>4, <1>8 DEF Step, Promise!Next

\* On another socket it is only the end of the session of the registered one.
LEMMA WelcomeMaps ==
  ASSUME Inv, Inv', NEW w \in Ws, NEW t \in Task, Welcome(w, t) \/ WelcomeFails(w, t)
  PROVE  Step
<1>1. PICK a, p : HandshakeDone(w, a, p)
  BY HandshakeDoes
<1>2. CASE socket[w] = "open" /\ w # p
  BY <1>1, <1>2, SessionBegins
<1>3. CASE ~(socket[w] = "open" /\ w # p)
  <2>1. /\ p \in Ws \cup {None}
        /\ \A v \in Ws : /\ v # w => address'[v] = address[v]
                         /\ v # w => socket'[v] = IF v = p THEN "closed" ELSE socket[v]
        /\ socket'[w] # "open" /\ (socket[w] = "open" => w = p)
    BY <1>1, <1>3 DEF HandshakeDone
  <2>2. \A b \in Address, v \in Ws : IsLive(b, v)' <=> (IsLive(b, v) /\ v # p)
    BY <2>1 DEF IsLive
  <2>3. \A b \in Address : b \in heard' <=> (b \in heard /\ ~(Kicked(p) /\ address[p] = b))
    BY <1>1, <1>3 DEF HandshakeDone, heard
  <2> QED BY <2>1, <2>2, <2>3, OneEnds
<1> QED BY <1>2, <1>3

----------------------------------------------------------------------------

LEMMA NextMaps == ASSUME Inv, Inv', [Next]_vars PROVE Step
<1>1. CASE UNCHANGED vars BY <1>1, SameMaps DEF vars, socketVars
<1>2. CASE Client
  <2>1. ASSUME NEW w \in Ws, ClientCloses(w) \/ BadMessage(w) PROVE Step
    BY <2>1, EndMaps DEF ClientCloses, BadMessage
  <2>2. ASSUME NEW w \in Ws, NEW t \in Task, ChallengeRequest(w, t) \/ SignedChallenge(w, t)
        PROVE  Step
    BY <2>2, SameMaps DEF ChallengeRequest, SignedChallenge, HandshakeMessage
  <2> QED BY <1>2, <2>1, <2>2, OpenMaps, BeatMaps DEF Client
<1>3. CASE \E w \in Ws : TimerFires(w)
  BY <1>3, EndMaps DEF TimerFires
<1>4. ASSUME NEW w \in Ws, NEW t \in Task, Resume(w, t) PROVE Step
  <2>1. CASE RejectListed(w, t) \/ ChallengeFails(w, t) \/ RejectSignature(w, t) \/ RejectBanned(w, t)
    BY <2>1, EndMaps DEF RejectListed, ChallengeFails, RejectSignature, RejectBanned
  <2>2. CASE SendChallenge(w, t) \/ Authenticated(w, t) \/ NotListed(w, t)
    BY <2>2, SameMaps DEF SendChallenge, Authenticated, NotListed, socketVars
  <2>3. CASE Welcome(w, t) \/ WelcomeFails(w, t) BY <2>3, WelcomeMaps
  <2> QED BY <1>4, <2>1, <2>2, <2>3 DEF Resume
<1>5. ASSUME NEW a \in Address, Ban(a) \/ SweepChecked(a) PROVE Step
  <2>1. CASE Ban(a) \/ SweepSpares(a)
    BY <2>1, SameMaps DEF Ban, SweepSpares, socketVars
  <2>2. CASE SweepEnds(a)
    <3>1. connectedPeers[a] \in Ws BY <2>2 DEF SweepEnds, Inv, SessionInv, SessionTypes
    <3> QED BY <2>2, <3>1, EndMaps DEF SweepEnds
  <2> QED BY <1>5, <2>1, <2>2 DEF SweepChecked
<1>6. CASE Sweep BY <1>6, SameMaps DEF Sweep, socketVars
<1> QED BY <1>1, <1>2, <1>3, <1>4, <1>5, <1>6 DEF Next

\* The gateway keeps what Sessions promises to the services behind it, also when
\* several wallets sign on one socket.
THEOREM GatewayImplementsSessions == Spec => ImplementsSessions
<1>1. Init => Promise!Init
  <2> SUFFICES ASSUME Init PROVE Promise!Init
    OBVIOUS
  <2>1. \A a \in Address, v \in Ws : ~IsLive(a, v) BY DEF Init, IsLive
  <2>2. live = [a \in Address |-> None] BY <2>1 DEF live
  <2> QED BY <2>2 DEF Init, Promise!Init
<1>2. Inv /\ Inv' /\ [Next]_vars => [Promise!Next]_<<live, active \ abandoned>>
  BY NextMaps DEF Step, heard
<1> QED BY <1>1, <1>2, Invariance, PTL DEF Spec, ImplementsSessions, Promise!Spec

============================================================================
