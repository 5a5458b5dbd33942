------------------------------ MODULE Sessions ------------------------------
(***************************************************************************)
(* What the websocket gateway promises to the services behind it: an       *)
(* address has one session at a time; its heartbeats and its disconnects   *)
(* are published such that the last thing said of an address without a     *)
(* session is a disconnect, and that a session which replaces another      *)
(* comes after the disconnect of that one.                                 *)
(*                                                                         *)
(* A socket whose session passes to another wallet is the exception: of    *)
(* the address that had it, no disconnect is published.                    *)
(***************************************************************************)

CONSTANTS
  Address,          \* wallet addresses
  Session,          \* the sessions they may have
  None              \* no session

VARIABLES
  session,          \* the session of each address
  active            \* who was heard of since its last session was over

Init ==
  /\ session = [a \in Address |-> None]
  /\ active = {}

\* A new session takes over, with a disconnect of the one it ends.
Begin(a, s) ==
  /\ \A b \in Address : session[b] # s
  /\ session' = [session EXCEPT ![a] = s]
  /\ active' = active \ {a}

\* The session is over, or a session that could not begin is said to be.
End(a) ==
  /\ session' = [session EXCEPT ![a] = None]
  /\ active' = active \ {a}

\* The session is over without a disconnect.
Lose(a) == session[a] # None /\ End(a)

Beat(a) ==
  /\ session[a] # None
  /\ active' = active \cup {a}
  /\ UNCHANGED session

\* A handshake of a on the socket s is all this at once: the session of b ends,
\* which is that of a if it has one; whoever had s before loses it; and the
\* session of a begins, or ends if it cannot be welcomed.
Handshake(a, s, b) ==
  LET over == {a, b} \cup {c \in Address : session[c] = s}
  IN  /\ session[a] # s
      /\ \E new \in {s, None} :
           session' = [c \in Address |-> IF c = a THEN new
                                         ELSE IF c \in over THEN None ELSE session[c]]
      /\ active' = active \ over

Next ==
  \E a \in Address :
    \/ \E s \in Session, b \in Address : Handshake(a, s, b)
    \/ End(a)
    \/ Beat(a)

Spec == Init /\ [][Next]_<<session, active>>

============================================================================
