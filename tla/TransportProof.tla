-------------------------- MODULE TransportProof --------------------------
(***************************************************************************)
(* Proofs about Transport, for every number of users, limit and set of     *)
(* banned users.                                                           *)
(***************************************************************************)
EXTENDS Transport, TLAPS

\* An item without a result has not been taken, or is being worked on, or its
\* worker threw.
NothingLost ==
  outcome # "rejected" =>
    \A i \in Item : results[i] = "none" => cursor <= i \/ \E w \in Worker : at[w] = i

\* A worker returns only when every item has been taken.
ReturnsLast ==
  outcome # "rejected" => (\A w \in Worker : at[w] = 0 => cursor > N)

\* What is stored, or about to be, is what the gatekeeper says.
Verdicts ==
  /\ \A i \in Item : results[i] = "null" => IsBanned(i)
  /\ \A i \in Item : results[i] = "token" => ~ IsBanned(i)
  /\ \A w \in Worker : at[w] # 0 /\ awaits[w] = "mintToken" => ~ IsBanned(at[w])

\* What is taken is behind the cursor, and taken once.
Taken ==
  /\ \A w \in Worker : at[w] < cursor
  /\ \A i \in Item : i >= cursor => results[i] = "none"
  /\ ItemsShared

\* Promise.all waits for every worker.
ResolvedLast == outcome = "resolved" => AllReturned

Inv == TypeOK /\ NothingLost /\ ReturnsLast /\ Verdicts /\ Taken /\ ResolvedLast

LEMMA WorkersAreNumbers ==
  /\ WorkerCount \in Nat
  /\ WorkerCount <= N
  /\ WorkerCount = 0 <=> N = 0
  /\ Worker \subseteq Item
  BY CountAssumption DEF WorkerCount, Worker, Item

LEMMA InitInv == Init => Inv
  BY WorkersAreNumbers, CountAssumption
  DEF Init, Inv, TypeOK, NothingLost, ReturnsLast, Verdicts, Taken, ItemsShared, ResolvedLast, Worker, Item

\* Storing a result that the gatekeeper agrees with keeps the invariant.
LEMMA StoreInv ==
  ASSUME Inv, NEW w \in Worker, NEW result \in {"null", "token"},
         at[w] # 0, Store(w, result), UNCHANGED outcome,
         result = "null" <=> IsBanned(at[w])
  PROVE  Inv'
<1> USE CountAssumption
<1>0. at[w] \in Item /\ cursor \in Nat \ {0} /\ results[at[w]] = "none" /\ Worker' = Worker
  BY DEF Inv, TypeOK, Taken, ItemsShared, Worker, WorkerCount, Item
<1>1. TypeOK'
  BY <1>0 DEF Inv, TypeOK, Store, Take, Item
<1>2. NothingLost'
  BY <1>0 DEF Inv, TypeOK, NothingLost, Taken, Store, Take, Item
<1>3. ReturnsLast'
  BY <1>0 DEF Inv, TypeOK, ReturnsLast, Store, Take, Item
<1>4. Verdicts'
  BY <1>0 DEF Inv, TypeOK, Verdicts, Store, Take, IsBanned, Item
<1>5. Taken'
  BY <1>0 DEF Inv, TypeOK, Taken, ItemsShared, Store, Take, Item
<1>6. ResolvedLast'
  BY DEF Inv, ResolvedLast, AllReturned
<1> QED
  BY <1>1, <1>2, <1>3, <1>4, <1>5, <1>6 DEF Inv

LEMMA NextInv == Inv /\ [Next]_vars => Inv'
<1> SUFFICES ASSUME Inv, [Next]_vars PROVE Inv'
  OBVIOUS
<1>1. ASSUME NEW w \in Worker, SkipBanned(w) PROVE Inv'
  BY <1>1, StoreInv DEF SkipBanned
<1>2. ASSUME NEW w \in Worker, NotBanned(w) PROVE Inv'
  BY <1>2 DEF NotBanned, Inv, TypeOK, NothingLost, ReturnsLast, Verdicts, Taken, ItemsShared, ResolvedLast, AllReturned,
    Worker, WorkerCount, Item, IsBanned
<1>3. ASSUME NEW w \in Worker, MintToken(w) PROVE Inv'
  <2>1. ~ IsBanned(at[w])
    BY <1>3 DEF MintToken, Inv, Verdicts
  <2> QED
    BY <1>3, <2>1, StoreInv DEF MintToken
<1>4. ASSUME NEW w \in Worker, MintThrows(w) PROVE Inv'
  BY <1>4, CountAssumption DEF MintThrows, Inv, TypeOK, NothingLost, ReturnsLast, Verdicts, Taken, ItemsShared, ResolvedLast, AllReturned,
    Worker, WorkerCount, Item, IsBanned
<1>5. CASE Resolve
  BY <1>5 DEF Resolve, Inv, TypeOK, NothingLost, ReturnsLast, Verdicts, Taken, ItemsShared, ResolvedLast, AllReturned,
    Worker, WorkerCount, Item, IsBanned
<1>6. CASE UNCHANGED vars
  BY <1>6 DEF vars, Inv, TypeOK, NothingLost, ReturnsLast, Verdicts, Taken, ItemsShared, ResolvedLast, AllReturned,
    Worker, WorkerCount, Item, IsBanned
<1> QED
  BY <1>1, <1>2, <1>3, <1>4, <1>5, <1>6 DEF Next, Work

\* Every state of the pool has its types, whatever the numbers.
THEOREM TypeCorrect == Spec => []TypeOK
<1>1. Inv => TypeOK
  BY DEF Inv
<1> QED
  BY <1>1, InitInv, NextInv, PTL DEF Spec

\* No two workers ever work on one id, and no result is overwritten.
THEOREM EachItemOnce == Spec => []ItemsShared
<1>1. Inv => ItemsShared
  BY DEF Inv, Taken
<1> QED
  BY <1>1, InitInv, NextInv, PTL DEF Spec

\* The answer that the engine gets is exactly the users that the gatekeeper does
\* not call banned: no id is skipped, lost or left over, however the checks of
\* the workers interleave.
THEOREM AnswerKept == Spec => []AnswerIsComplete
<1>1. Inv => AnswerIsComplete
  <2> SUFFICES ASSUME Inv, outcome = "resolved" PROVE Granted = Item \ (Banned \ Unanswered)
    BY DEF AnswerIsComplete
  <2>1. AllReturned
    BY DEF Inv, ResolvedLast
  <2>2. ASSUME NEW i \in Item PROVE results[i] # "none"
    <3>1. 1 \in Worker /\ i \in 1..N
      BY WorkersAreNumbers, CountAssumption DEF Item, Worker, WorkerCount
    <3>2. cursor > N
      BY <2>1, <3>1 DEF Inv, ReturnsLast, AllReturned
    <3> QED
      BY <2>1, <3>1, <3>2, CountAssumption DEF Inv, TypeOK, NothingLost, AllReturned, Item
  <2>3. ASSUME NEW i \in Item PROVE results[i] = "token" <=> ~ IsBanned(i)
    BY <2>2 DEF Inv, TypeOK, Verdicts
  <2> QED
    BY <2>3 DEF Granted, IsBanned
<1> QED
  BY <1>1, InitInv, NextInv, PTL DEF Spec

\* A worker that is left behind never writes into an answer already in use.
THEOREM AnswerNotTouched == Spec => AnswerIsFinal
<1>1. Inv /\ [Next]_vars => [outcome = "resolved" => UNCHANGED results]_vars
  BY DEF Inv, ResolvedLast, AllReturned, Next, Work, SkipBanned, NotBanned, MintToken,
    MintThrows, Resolve, vars
<1> QED
  BY <1>1, InitInv, NextInv, PTL DEF Spec, AnswerIsFinal

============================================================================
