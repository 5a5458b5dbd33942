---------------------------- MODULE StatsAnswers ----------------------------
(***************************************************************************)
(* What the stats service counts: /parcels and /hot-scenes                 *)
(* (stats/src/controllers/handlers).  The handler of /hot-scenes counts    *)
(* the peers of each parcel, awaits the scenes of these parcels from the   *)
(* content server, and adds the counts up; heartbeats and disconnects go   *)
(* on meanwhile.                                                           *)
(*                                                                         *)
(* A parcel is a pair of numbers, which the code writes as a string.       *)
(***************************************************************************)
EXTENDS Stats, Integers, FiniteSets, SequencesExt

CONSTANTS
  Position,         \* where peers may be: records of x and z
  Scene,            \* the scenes of the content server
  ParcelsOf,        \* the parcels of each scene
  Incomplete,       \* the scenes without a base or parcels in their metadata
  HotScenesLimit    \* HOT_SCENES_LIMIT

ParcelSize == 16

ASSUME PositionAssumption == Position \subseteq [x : Int, z : Int] /\ NoPosition \notin Position

ASSUME SceneAssumption ==
  /\ IsFiniteSet(Scene)
  /\ ParcelsOf \in [Scene -> SUBSET (Int \X Int)]
  /\ Incomplete \subseteq Scene
  /\ HotScenesLimit \in Nat

VARIABLES
  request,      \* the await of a /hot-scenes request: "none" or "fetchScenes"
  countPerTile, \* its counts: the tiles with a peer and how many
  asked,        \* where the peers were when it came
  answer        \* the answer of the last request

requestVars == <<request, countPerTile, asked, answer>>
vars == <<peers, islands, requestVars>>

----------------------------------------------------------------------------

\* Mutant: division that truncates.
Truncated(x) == IF x < 0 THEN -((-x) \div ParcelSize) ELSE x \div ParcelSize
ToParcelTruncated(pos) == <<Truncated(pos.x), Truncated(pos.z)>>

\* toParcel, with Math.floor
ToParcel(pos) == <<pos.x \div ParcelSize, pos.z \div ParcelSize>>

\* The loop over peers of both handlers
CountPerTile(at) ==
  LET there == {p \in Peer : at[p] # NoPosition} IN
  [t \in {ToParcel(at[p]) : p \in there} |->
     Cardinality({p \in there : ToParcel(at[p]) = t})]

\* /parcels
ParcelsAnswer ==
  {[parcel |-> t, peersCount |-> CountPerTile(peers)[t]] : t \in DOMAIN CountPerTile(peers)}

----------------------------------------------------------------------------

\* What the content server has for the tiles
FetchScenes(tiles) == {s \in Scene : ParcelsOf[s] \cap tiles # {}}

UsersTotalCount(s, count) ==
  MapThenSumSet(LAMBDA t : count[t], ParcelsOf[s] \cap DOMAIN count)

\* Mutant: the peers are counted when the scenes are there.
CountedLate(scenes, count) ==
  {[scene |-> s, usersTotalCount |-> UsersTotalCount(s, CountPerTile(peers))] :
     s \in scenes \ Incomplete}

\* filter and map
HotScenes(scenes, count) ==
  {[scene |-> s, usersTotalCount |-> UsersTotalCount(s, count)] : s \in scenes \ Incomplete}

\* sort; the order of equals is that of the content server.
Sorted(hot) ==
  {value \in SetToSeqs(hot) :
     \A n, k \in DOMAIN value : n < k => value[n].usersTotalCount >= value[k].usersTotalCount}

\* Mutant: the limit is applied before the scenes are sorted.
SliceUnsorted(hot) ==
  UNION {Sorted(some) : some \in {S \in SUBSET hot :
           Cardinality(S) = IF Cardinality(hot) < HotScenesLimit THEN Cardinality(hot)
                            ELSE HotScenesLimit}}

\* slice
Slice(hot) ==
  {SubSeq(value, 1, IF Len(value) < HotScenesLimit THEN Len(value) ELSE HotScenesLimit) :
     value \in Sorted(hot)}

\* hotScenesHandler up to its await
AskHotScenes ==
  /\ request = "none"
  /\ request' = "fetchScenes"
  /\ countPerTile' = CountPerTile(peers)
  /\ asked' = peers
  /\ answer' = <<>>
  /\ UNCHANGED <<peers, islands>>

AnswerHotScenes ==
  /\ request = "fetchScenes"
  /\ request' = "none"
  /\ answer' \in Slice(HotScenes(FetchScenes(DOMAIN countPerTile), countPerTile))
  /\ UNCHANGED <<peers, islands, countPerTile, asked>>

\* The content server does not answer, and neither does the handler.
FetchFails ==
  /\ request = "fetchScenes"
  /\ request' = "none"
  /\ UNCHANGED <<peers, islands, countPerTile, asked, answer>>

AnswersInit ==
  /\ Init
  /\ request = "none"
  /\ countPerTile = CountPerTile(peers)
  /\ asked = peers
  /\ answer = <<>>

AnswersNext ==
  \/ \E p \in Peer :
       /\ \/ \E x \in Position : OnPeerUpdated(p, x)
          \/ OnPeerDisconnected(p)
       /\ UNCHANGED requestVars
  \/ AskHotScenes
  \/ AnswerHotScenes
  \/ FetchFails

AnswersSpec == AnswersInit /\ [][AnswersNext]_vars

----------------------------------------------------------------------------
(* Properties *)

\* Where a parcel lies, as its position says it: [16n, 16n + 16) on each axis.
Within(n, x) == ParcelSize * n <= x /\ x < ParcelSize * (n + 1)
In(pos, t) == pos # NoPosition /\ Within(t[1], pos.x) /\ Within(t[2], pos.z)

\* /parcels counts every peer once, on the parcel that it is on: also on those
\* with negative coordinates, where rounding and truncating differ.
ParcelsCountEverybody ==
  /\ \A r \in ParcelsAnswer : r.peersCount = Cardinality({p \in Peer : In(peers[p], r.parcel)})
  /\ MapThenSumSet(LAMBDA r : r.peersCount, ParcelsAnswer) = Cardinality(Known)

UsersOf(s) == {p \in Peer : \E t \in ParcelsOf[s] : In(asked[p], t)}

\* /hot-scenes counts the peers of all parcels of a scene as they were when the
\* request came, although stats go on changing while the scenes are fetched.
HotScenesCount ==
  \A n \in DOMAIN answer : answer[n].usersTotalCount = Cardinality(UsersOf(answer[n].scene))

ListedScenes == {answer[n].scene : n \in DOMAIN answer}

\* The answer is in descending order, and a complete scene with users is only
\* left out if the answer is full of scenes with as many.
HotScenesAreHottest ==
  answer # <<>> =>
    /\ \A n, k \in DOMAIN answer : n < k => answer[n].usersTotalCount >= answer[k].usersTotalCount
    /\ \A s \in Scene \ (Incomplete \cup ListedScenes) :
         UsersOf(s) # {} =>
           /\ Len(answer) = HotScenesLimit
           /\ \A l \in ListedScenes : Cardinality(UsersOf(l)) >= Cardinality(UsersOf(s))

============================================================================
