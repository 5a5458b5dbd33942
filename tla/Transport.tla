----------------------------- MODULE Transport -----------------------------
(***************************************************************************)
(* One call of getConnectionStrings (core/src/components.ts): a pool of    *)
(* workers shares a cursor over the user ids (mapWithConcurrency), and for *)
(* every id awaits the gatekeeper (isBanned), then the token (mintToken).  *)
(*                                                                         *)
(* Engine takes what is checked here as Answers, and as the fairness of    *)
(* Answer.  The ban sweep of the ws-connector runs the same pool.          *)
(***************************************************************************)
EXTENDS Integers

CONSTANTS
  N,                \* how many user ids the call is given
  Limit,            \* BAN_CHECK_CONCURRENCY
  Banned,           \* the positions of the banned users
  Unanswered,       \* those for which the gatekeeper is late, refuses or fails
  MintFails         \* may signing a token throw?

ASSUME CountAssumption == N \in Nat /\ Limit \in Nat \ {0}

Item == 1..N

ASSUME BannedAssumption == Banned \subseteq Item /\ Unanswered \subseteq Item

ASSUME FailureAssumption == MintFails \in BOOLEAN

VARIABLES
  cursor,           \* the next item nobody has taken
  at,               \* the item each worker is at, 0 once it has returned
  awaits,           \* what it awaits for that item
  results,
  outcome           \* of the promise

vars == <<cursor, at, awaits, results, outcome>>

WorkerCount == IF Limit < N THEN Limit ELSE N
Worker == 1..WorkerCount

\* Every worker has run up to its first await.
Init ==
  /\ cursor = WorkerCount + 1
  /\ at = [w \in Worker |-> w]
  /\ awaits = [w \in Worker |-> "isBanned"]
  /\ results = [i \in Item |-> "none"]
  /\ outcome = "pending"

\* Mutants: one item too many is taken; the cursor advances after the await.
TakeBeyondLast(w) ==
  /\ cursor' = cursor + 1
  /\ at' = [at EXCEPT ![w] = IF cursor <= N + 1 THEN cursor ELSE 0]
TakeAndAdvanceLater(w) ==
  /\ cursor' = IF at[w] = cursor THEN cursor + 1 ELSE cursor
  /\ at' = [at EXCEPT ![w] = IF cursor' <= N THEN cursor' ELSE 0]

\* const i = cursor++, and the worker returns if there is no such item.
Take(w) ==
  /\ cursor' = cursor + 1
  /\ at' = [at EXCEPT ![w] = IF cursor <= N THEN cursor ELSE 0]

Store(w, result) ==
  /\ results' = [results EXCEPT ![at[w]] = result]
  /\ Take(w)
  /\ awaits' = [awaits EXCEPT ![w] = "isBanned"]

\* Mutant: isBanned fails closed.
IsBannedFailsClosed(i) == i \in Banned \cup Unanswered

\* isBanned fails open: whatever goes wrong, the answer is no.
IsBanned(i) == i \in Banned \ Unanswered

SkipBanned(w) ==
  /\ at[w] # 0 /\ awaits[w] = "isBanned"
  /\ IsBanned(at[w])
  /\ Store(w, "null")
  /\ UNCHANGED outcome

NotBanned(w) ==
  /\ at[w] # 0 /\ awaits[w] = "isBanned"
  /\ ~ IsBanned(at[w])
  /\ awaits' = [awaits EXCEPT ![w] = "mintToken"]
  /\ UNCHANGED <<cursor, at, results, outcome>>

MintToken(w) ==
  /\ at[w] # 0 /\ awaits[w] = "mintToken"
  /\ Store(w, "token")
  /\ UNCHANGED outcome

\* The worker ends and the call rejects at once; the other workers go on.
MintThrows(w) ==
  /\ MintFails
  /\ at[w] # 0 /\ awaits[w] = "mintToken"
  /\ at' = [at EXCEPT ![w] = 0]
  /\ outcome' = "rejected"
  /\ UNCHANGED <<cursor, awaits, results>>

\* Mutants: the call resolves with the first worker that returns; it waits for
\* a connection string for everybody.
FirstReturned == \E w \in Worker : at[w] = 0
AllGranted == \A i \in Item : results[i] = "token"

\* Promise.all
AllReturned == \A w \in Worker : at[w] = 0

Resolve ==
  /\ outcome = "pending"
  /\ AllReturned
  /\ outcome' = "resolved"
  /\ UNCHANGED <<cursor, at, awaits, results>>

Work(w) == SkipBanned(w) \/ NotBanned(w) \/ MintToken(w) \/ MintThrows(w)

Next == (\E w \in Worker : Work(w)) \/ Resolve

Spec == Init /\ [][Next]_vars

\* A fetch is aborted after a second, and a token is signed in this process.
FairSpec == Spec /\ WF_vars(Resolve) /\ \A w \in Worker : WF_vars(Work(w))

----------------------------------------------------------------------------
(* Properties *)

\* The users that get a connection string.
Granted == {i \in Item : results[i] = "token"}

\* The state has its types.
TypeOK ==
  /\ cursor \in Nat
  /\ at \in [Worker -> Item \cup {0}]
  /\ awaits \in [Worker -> {"isBanned", "mintToken"}]
  /\ results \in [Item -> {"none", "null", "token"}]
  /\ outcome \in {"pending", "resolved", "rejected"}

\* The answer leaves out the users that the gatekeeper calls banned and nobody
\* else, which is what Engine assumes of the transport: an id that the workers
\* skip, or whose check fails, would be taken for a banned one and evicted.
AnswerIsComplete ==
  outcome = "resolved" => Granted = Item \ (Banned \ Unanswered)

\* No two workers work on one item, and none on an item that has its result.
ItemsShared ==
  \A w \in Worker : at[w] # 0 =>
    /\ results[at[w]] = "none"
    /\ \A v \in Worker \ {w} : at[v] # at[w]

\* Nothing is added to an answer that the engine has got (proved only, in
\* TransportProof).
AnswerIsFinal == [][outcome = "resolved" => UNCHANGED results]_vars

\* The call ends, so that the flush goes on.
CallEnds == outcome = "pending" ~> outcome # "pending"

============================================================================
