---------------------------- MODULE WsImplements ----------------------------
(***************************************************************************)
(* The refinement mapping from WsConnector to Sessions.                    *)
(***************************************************************************)
EXTENDS WsConnector

\* The open socket that has completed its handshake for the address.
live ==
  [a \in Address |->
     IF \E w \in Ws : IsLive(a, w) THEN CHOOSE w \in Ws : IsLive(a, w) ELSE None]

Promise == INSTANCE Sessions WITH
  Session <- Ws,
  session <- live,
  active <- active \ abandoned

\* Through overlapping handshakes, kicks, sweeps, timers and closes, what the
\* other services get to hear of an address is what Sessions allows: they may
\* take the messages of all its sockets for those of one session at a time.  Only
\* a socket that passes to another wallet leaves a session that nobody ends.
ImplementsSessions == Promise!Spec

============================================================================
