------------------------- MODULE StatsAnswersProof -------------------------
(***************************************************************************)
(* Theorems about StatsAnswers, for any peers, positions, scenes and       *)
(* limit, while the peers move and leave as they like.                     *)
(***************************************************************************)
EXTENDS StatsAnswers, FiniteSetTheorems, SequenceTheorems, WellFoundedInduction, TLAPS

----------------------------------------------------------------------------
(* Sums *)

\* The sum of the numbers w[t] over t \in S, as the community modules have it:
\* a recursive function on the subsets of S.
SumEquation(f, S, w) ==
  f = [s \in SUBSET S |->
         IF s = {} THEN 0
         ELSE w[CHOOSE x \in s : TRUE] + f[s \ {CHOOSE x \in s : TRUE}]]

\* Those of K that have their key in S.
Keyed(K, key, S) == {p \in K : key[p] \in S}

LEMMA KeyedByOneMore ==
  ASSUME NEW K, IsFiniteSet(K), NEW key, NEW S, NEW t \in S
  PROVE  Cardinality(Keyed(K, key, S)) =
           Cardinality(Keyed(K, key, {t})) + Cardinality(Keyed(K, key, S \ {t}))
<1> DEFINE A == Keyed(K, key, {t})
           B == Keyed(K, key, S \ {t})
<1>1. IsFiniteSet(A) /\ IsFiniteSet(B)
  BY FS_Subset DEF Keyed
<1>2. A \cap B = {} /\ A \cup B = Keyed(K, key, S)
  BY DEF Keyed
<1>3. Cardinality(A \cap B) = 0
  BY <1>2, FS_EmptySet
<1>4. Cardinality(A) \in Nat /\ Cardinality(B) \in Nat
  BY <1>1, FS_CardinalityType
<1>5. Cardinality(A \cup B) = Cardinality(A) + Cardinality(B) - Cardinality(A \cap B)
  BY <1>1, FS_Union
<1>6. Cardinality(A \cup B) = Cardinality(A) + Cardinality(B)
  <2> HIDE DEF A, B
  <2> QED
    BY <1>3, <1>4, <1>5
<1> QED
  BY <1>2, <1>6

\* w counts those of K with each key.
CountsKeys(w, S, K, key) ==
  /\ IsFiniteSet(K) /\ IsFiniteSet(S)
  /\ \A t \in S : w[t] = Cardinality(Keyed(K, key, {t}))

\* Its sum over S counts those with a key in S: this solves the equation, and
\* nothing else does.
LEMMA SumCounts ==
  ASSUME NEW K, NEW key, NEW S, NEW w, CountsKeys(w, S, K, key)
  PROVE  /\ \E f : SumEquation(f, S, w)
         /\ \A f : SumEquation(f, S, w) => f[S] = Cardinality(Keyed(K, key, S))
<1> USE DEF CountsKeys
<1> DEFINE g == [s \in SUBSET S |-> Cardinality(Keyed(K, key, s))]
           first(s) == CHOOSE x \in s : TRUE
<1>1. Cardinality(Keyed(K, key, {})) = 0
  BY FS_EmptySet DEF Keyed
<1>2. \A s \in SUBSET S : s # {} =>
        /\ first(s) \in s /\ s \ {first(s)} \in SUBSET S
        /\ g[s] = w[first(s)] + g[s \ {first(s)}]
  <2> SUFFICES ASSUME NEW s \in SUBSET S, s # {}
               PROVE  /\ first(s) \in s /\ s \ {first(s)} \in SUBSET S
                      /\ g[s] = w[first(s)] + g[s \ {first(s)}]
    OBVIOUS
  <2>1. first(s) \in s /\ first(s) \in S
    OBVIOUS
  <2> HIDE DEF first
  <2>2. /\ s \ {first(s)} \in SUBSET S /\ g[s] = Cardinality(Keyed(K, key, s))
        /\ g[s \ {first(s)}] = Cardinality(Keyed(K, key, s \ {first(s)}))
    BY <2>1
  <2>3. g[s] = Cardinality(Keyed(K, key, {first(s)})) + g[s \ {first(s)}]
    BY <2>1, <2>2, KeyedByOneMore
  <2> QED
    BY <2>1, <2>2, <2>3
<1>3. SumEquation(g, S, w)
  BY <1>1, <1>2 DEF SumEquation
<1>4. SUFFICES ASSUME NEW f, SumEquation(f, S, w) PROVE f[S] = g[S]
  BY <1>3
<1>5. \A s \in SUBSET S : f[s] = IF s = {} THEN 0 ELSE w[first(s)] + f[s \ {first(s)}]
  BY <1>4 DEF SumEquation
<1>6. f[S] = g[S]
  <2> DEFINE Wrong == {s \in SUBSET S : f[s] # g[s]}
  <2> SUFFICES ASSUME Wrong # {} PROVE FALSE
    OBVIOUS
  <2>1. Wrong \subseteq FiniteSubsetsOf(S)
    BY FS_Subset DEF FiniteSubsetsOf
  <2>2. PICK s \in Wrong : \A r \in Wrong : <<r, s>> \notin StrictSubsetOrdering(S)
    <3> HIDE DEF Wrong
    <3> QED
      BY <2>1, WFMin, FS_StrictSubsetOrderingWellFounded
  <2>3. s \in SUBSET S /\ f[s] # g[s]
    OBVIOUS
  <2>4. s # {}
    BY <1>1, <1>5, <2>3
  <2>5. /\ first(s) \in s /\ s \ {first(s)} \in SUBSET S
        /\ g[s] = w[first(s)] + g[s \ {first(s)}]
        /\ f[s] = w[first(s)] + f[s \ {first(s)}]
    BY <1>2, <1>5, <2>3, <2>4
  <2>6. s \ {first(s)} \in Wrong
    BY <2>3, <2>5
  <2>7. <<s \ {first(s)}, s>> \in StrictSubsetOrdering(S)
    BY <2>3, <2>5 DEF StrictSubsetOrdering
  <2> QED
    BY <2>2, <2>6, <2>7
<1> QED
  BY <1>6

----------------------------------------------------------------------------
(* Parcels *)

\* Who is anywhere.
Peopled(at) == {p \in Peer : at[p] # NoPosition}

Places == [Peer -> Position \cup {NoPosition}]

LEMMA FloorDivides ==
  ASSUME NEW x \in Int, NEW n \in Int
  PROVE  x \div ParcelSize = n <=> Within(n, x)
BY SMT DEF ParcelSize, Within

\* toParcel gives the one parcel that a position lies in, west and north of the
\* origin too.
LEMMA ParcelOfPosition ==
  ASSUME NEW x \in Position, NEW t \in Int \X Int
  PROVE  /\ ToParcel(x) \in Int \X Int
         /\ ToParcel(x) = t <=> In(x, t)
<1>1. x.x \in Int /\ x.z \in Int /\ x # NoPosition
  BY PositionAssumption
<1>2. /\ x.x \div ParcelSize = t[1] <=> Within(t[1], x.x)
      /\ x.z \div ParcelSize = t[2] <=> Within(t[2], x.z)
  BY <1>1, FloorDivides
<1>3. x.x \div ParcelSize \in Int /\ x.z \div ParcelSize \in Int
  BY <1>1 DEF ParcelSize
<1>4. ToParcel(x) = t <=> x.x \div ParcelSize = t[1] /\ x.z \div ParcelSize = t[2]
  BY DEF ToParcel
<1> QED
  BY <1>1, <1>2, <1>3, <1>4 DEF In, ToParcel

LEMMA Counts ==
  ASSUME NEW at \in Places, IsFiniteSet(Peopled(at))
  PROVE  /\ DOMAIN CountPerTile(at) = {ToParcel(at[p]) : p \in Peopled(at)}
         /\ \A t \in DOMAIN CountPerTile(at) :
              CountPerTile(at)[t] = Cardinality({p \in Peopled(at) : ToParcel(at[p]) = t})
         /\ IsFiniteSet(DOMAIN CountPerTile(at))
         /\ DOMAIN CountPerTile(at) \subseteq Int \X Int
<1>1. /\ DOMAIN CountPerTile(at) = {ToParcel(at[p]) : p \in Peopled(at)}
      /\ \A t \in DOMAIN CountPerTile(at) :
           CountPerTile(at)[t] = Cardinality({p \in Peopled(at) : ToParcel(at[p]) = t})
  BY DEF CountPerTile, Peopled
<1> DEFINE parcel == [p \in Peopled(at) |-> ToParcel(at[p])]
<1>2. parcel \in Surjection(Peopled(at), DOMAIN CountPerTile(at))
  BY <1>1 DEF Surjection
<1>3. IsFiniteSet(DOMAIN CountPerTile(at))
  BY <1>2, FS_Surjection
<1>4. \A p \in Peopled(at) : at[p] \in Position
  BY DEF Peopled, Places
<1>5. <<0, 0>> \in Int \X Int
  OBVIOUS
<1> QED
  BY <1>1, <1>3, <1>4, <1>5, ParcelOfPosition

\* Who is in one of some parcels, by position and by toParcel.
LEMMA InParcels ==
  ASSUME NEW at \in Places, NEW T \in SUBSET (Int \X Int)
  PROVE  {p \in Peer : \E t \in T : In(at[p], t)} = {p \in Peopled(at) : ToParcel(at[p]) \in T}
<1>1. \A p \in Peer : at[p] # NoPosition => at[p] \in Position
  BY DEF Places
<1>2. \A p \in Peopled(at), t \in T : ToParcel(at[p]) = t <=> In(at[p], t)
  BY <1>1, ParcelOfPosition DEF Peopled
<1>3. \A p \in Peer, t \in T : In(at[p], t) => p \in Peopled(at)
  BY DEF In, Peopled
<1> QED
  BY <1>2, <1>3 DEF Peopled

\* The loop over the parcels of a scene adds up to the peers on its parcels.
LEMMA UsersCounted ==
  ASSUME NEW at \in Places, IsFiniteSet(Peopled(at)), NEW s \in Scene
  PROVE  UsersTotalCount(s, CountPerTile(at)) =
           Cardinality({p \in Peer : \E t \in ParcelsOf[s] : In(at[p], t)})
<1> DEFINE who == Peopled(at)
           tile == [p \in who |-> ToParcel(at[p])]
           count == CountPerTile(at)
           tiles == ParcelsOf[s] \cap DOMAIN count
<1>1. IsFiniteSet(who)
  OBVIOUS
<1>2. IsFiniteSet(tiles)
  BY Counts, FS_Subset
<1>3. \A t \in tiles : count[t] = Cardinality(Keyed(who, tile, {t}))
  <2> SUFFICES ASSUME NEW t \in tiles PROVE count[t] = Cardinality(Keyed(who, tile, {t}))
    OBVIOUS
  <2>1. {p \in who : ToParcel(at[p]) = t} = Keyed(who, tile, {t})
    BY DEF Keyed
  <2> QED
    BY <2>1, Counts
<1>4. Keyed(who, tile, tiles) = {p \in who : ToParcel(at[p]) \in ParcelsOf[s]}
  BY Counts DEF Keyed
<1>5. Keyed(who, tile, tiles) = {p \in Peer : \E t \in ParcelsOf[s] : In(at[p], t)}
  BY <1>4, InParcels, SceneAssumption
<1> HIDE DEF who, tile, count, tiles
<1>6. UsersTotalCount(s, count) = (CHOOSE f : SumEquation(f, tiles, count))[tiles]
  BY Zenon DEF UsersTotalCount, MapThenSumSet, MapThenFoldSet, SumEquation, tiles
<1>7. /\ \E f : SumEquation(f, tiles, count)
      /\ \A f : SumEquation(f, tiles, count) => f[tiles] = Cardinality(Keyed(who, tile, tiles))
  <2>1. CountsKeys(count, tiles, who, tile)
    BY <1>1, <1>2, <1>3 DEF CountsKeys
  <2> QED
    BY <2>1, SumCounts
<1>8. SumEquation(CHOOSE f : SumEquation(f, tiles, count), tiles, count)
  BY <1>7
<1> QED
  BY <1>5, <1>6, <1>7, <1>8 DEF count

\* The numbers of /parcels add up to the peers that stats know.
LEMMA ParcelsAddUp ==
  ASSUME peers \in Places, IsFiniteSet(Known)
  PROVE  MapThenSumSet(LAMBDA r : r.peersCount, ParcelsAnswer) = Cardinality(Known)
<1> DEFINE line(t) == [parcel |-> t, peersCount |-> CountPerTile(peers)[t]]
           S == ParcelsAnswer
           key == [p \in Known |-> line(ToParcel(peers[p]))]
           w == [r \in S |-> r.peersCount]
           Equation(f) == f = [s \in SUBSET S |->
             IF s = {} THEN 0
             ELSE (CHOOSE x \in s : TRUE).peersCount + f[s \ {CHOOSE x \in s : TRUE}]]
<1>1. Known = Peopled(peers) /\ S = {line(t) : t \in DOMAIN CountPerTile(peers)}
  BY DEF Known, Peopled, ParcelsAnswer
<1>2. IsFiniteSet(S)
  <2> DEFINE lines == [t \in DOMAIN CountPerTile(peers) |-> line(t)]
  <2>1. lines \in Surjection(DOMAIN CountPerTile(peers), S)
    BY <1>1 DEF Surjection
  <2> QED
    BY <1>1, <2>1, Counts, FS_Surjection
<1>3. ASSUME NEW r \in S PROVE w[r] = Cardinality(Keyed(Known, key, {r}))
  <2>1. PICK t \in DOMAIN CountPerTile(peers) : r = line(t)
    BY <1>1
  <2>2. {p \in Known : ToParcel(peers[p]) = t} = Keyed(Known, key, {r})
    BY <2>1 DEF Keyed
  <2> QED
    BY <1>1, <2>1, <2>2, Counts
<1>4. Keyed(Known, key, S) = Known
  BY <1>1, Counts DEF Keyed
<1>5. \A f : Equation(f) <=> SumEquation(f, S, w)
  <2> SUFFICES ASSUME NEW s \in SUBSET S, s # {}
               PROVE  (CHOOSE x \in s : TRUE).peersCount = w[CHOOSE x \in s : TRUE]
    BY DEF SumEquation
  <2> QED
    OBVIOUS
<1>6. MapThenSumSet(LAMBDA r : r.peersCount, ParcelsAnswer) = (CHOOSE f : Equation(f))[S]
  BY Zenon DEF MapThenSumSet, MapThenFoldSet
<1> HIDE DEF S, key, w, Equation
<1>7. (CHOOSE f : Equation(f))[S] = Cardinality(Keyed(Known, key, S))
  <2>1. /\ \E f : SumEquation(f, S, w)
        /\ \A f : SumEquation(f, S, w) => f[S] = Cardinality(Keyed(Known, key, S))
    <3>1. CountsKeys(w, S, Known, key)
      BY <1>2, <1>3 DEF CountsKeys
    <3> QED
      BY <3>1, SumCounts
  <2>2. Equation(CHOOSE f : Equation(f))
    BY <1>5, <2>1
  <2> QED
    BY <1>5, <2>1, <2>2
<1> QED
  BY <1>4, <1>6, <1>7

----------------------------------------------------------------------------
(* The invariant *)

TypeInv ==
  /\ peers \in Places /\ IsFiniteSet(Known)
  /\ asked \in Places /\ IsFiniteSet(Peopled(asked))

\* A request goes by the counts of the peers that it found.
CountInv == countPerTile = CountPerTile(asked)

\* The scenes of the answer, as the handler has them before it sorts them.
Hot == HotScenes(FetchScenes(DOMAIN countPerTile), countPerTile)

AnswerInv == answer = <<>> \/ answer \in Slice(Hot)

AnswersInv == TypeInv /\ CountInv /\ AnswerInv

LEMMA InitAnswers == AnswersInit => AnswersInv
<1> SUFFICES ASSUME AnswersInit PROVE AnswersInv
  OBVIOUS
<1>1. peers = [p \in Peer |-> NoPosition] /\ asked = peers
  BY DEF AnswersInit, Init
<1>2. Known = {} /\ Peopled(asked) = {}
  BY <1>1 DEF Known, Peopled
<1>3. TypeInv
  BY <1>1, <1>2, FS_EmptySet DEF TypeInv, Places
<1> QED
  BY <1>3 DEF AnswersInit, AnswersInv, CountInv, AnswerInv

LEMMA NextAnswers == AnswersInv /\ [AnswersNext]_vars => AnswersInv'
<1> SUFFICES ASSUME AnswersInv, [AnswersNext]_vars PROVE AnswersInv'
  OBVIOUS
<1> USE DEF AnswersInv
<1>1. ASSUME NEW p \in Peer,
             (\E x \in Position : OnPeerUpdated(p, x)) \/ OnPeerDisconnected(p),
             UNCHANGED requestVars
      PROVE  AnswersInv'
  <2>1. peers' \in Places /\ Known' \subseteq Known \cup {p}
    BY <1>1 DEF OnPeerUpdated, OnPeerDisconnected, Known, Places, TypeInv
  <2>2. IsFiniteSet(Known \cup {p})
    BY FS_AddElement DEF TypeInv
  <2>3. IsFiniteSet(Known')
    BY <2>1, <2>2, FS_Subset
  <2> QED
    BY <1>1, <2>1, <2>3 DEF TypeInv, CountInv, AnswerInv, Hot, requestVars
<1>2. CASE AskHotScenes
  <2>1. Peopled(peers) = Known
    BY DEF Peopled, Known
  <2>2. TypeInv'
    BY <1>2, <2>1 DEF AskHotScenes, TypeInv, Known
  <2> QED
    BY <1>2, <2>2 DEF AskHotScenes, CountInv, AnswerInv
<1>3. CASE AnswerHotScenes
  BY <1>3 DEF AnswerHotScenes, TypeInv, Known, CountInv, AnswerInv, Hot
<1>4. CASE FetchFails \/ UNCHANGED vars
  BY <1>4 DEF FetchFails, vars, requestVars, TypeInv, Known, CountInv, AnswerInv, Hot
<1> QED
  BY <1>1, <1>2, <1>3, <1>4 DEF AnswersNext

\* Every number of /parcels is that of the peers between the borders of its
\* parcel, and together they are all the peers of stats.
THEOREM ParcelsRight == AnswersSpec => []ParcelsCountEverybody
<1>1. ASSUME AnswersInv PROVE ParcelsCountEverybody
  <2>1. peers \in Places /\ IsFiniteSet(Known) /\ Known = Peopled(peers)
    BY <1>1 DEF AnswersInv, TypeInv, Known, Peopled
  <2>2. ASSUME NEW r \in ParcelsAnswer
        PROVE  r.peersCount = Cardinality({p \in Peer : In(peers[p], r.parcel)})
    <3>1. PICK t \in DOMAIN CountPerTile(peers) :
            r = [parcel |-> t, peersCount |-> CountPerTile(peers)[t]]
      BY <2>2 DEF ParcelsAnswer
    <3>2. {t} \in SUBSET (Int \X Int)
      BY <2>1, Counts
    <3>3. {p \in Peer : \E u \in {t} : In(peers[p], u)} = {p \in Peopled(peers) : ToParcel(peers[p]) \in {t}}
      BY <2>1, <3>2, InParcels
    <3>4. {p \in Peer : In(peers[p], t)} = {p \in Peopled(peers) : ToParcel(peers[p]) = t}
      BY <3>3
    <3> QED
      BY <2>1, <3>1, <3>4, Counts
  <2> QED
    BY <2>1, <2>2, ParcelsAddUp DEF ParcelsCountEverybody
<1> QED
  BY <1>1, InitAnswers, NextAnswers, PTL DEF AnswersSpec

----------------------------------------------------------------------------
(* Hot scenes *)

LEMMA HotIsFinite == IsFiniteSet(Hot)
<1> DEFINE complete == FetchScenes(DOMAIN countPerTile) \ Incomplete
           line == [s \in complete |->
                      [scene |-> s, usersTotalCount |-> UsersTotalCount(s, countPerTile)]]
<1>1. IsFiniteSet(complete)
  BY SceneAssumption, FS_Subset DEF FetchScenes
<1>2. line \in Surjection(complete, Hot)
  BY DEF Surjection, Hot, HotScenes
<1> QED
  BY <1>1, <1>2, FS_Surjection

\* What is sorted is a sequence of all scenes, the hottest ones first.
LEMMA SortedHot ==
  ASSUME NEW value \in Sorted(Hot)
  PROVE  /\ value \in Seq(Hot)
         /\ \A h \in Hot : \E n \in 1..Len(value) : value[n] = h
         /\ \A n, k \in 1..Len(value) : n < k => value[n].usersTotalCount >= value[k].usersTotalCount
<1> DEFINE N == Cardinality(Hot)
<1>1. N \in Nat
  BY HotIsFinite, FS_CardinalityType
<1>2. value \in [1..N -> Hot] /\ \A n, k \in 1..N : n # k => value[n] # value[k]
  BY DEF Sorted, SetToSeqs
<1>3. value \in Injection(1..N, Hot)
  BY <1>2 DEF Injection, IsInjective
<1>4. Cardinality(1..N) = N
  BY <1>1, FS_Interval
<1>5. value \in Surjection(1..N, Hot)
  BY <1>3, <1>4, HotIsFinite, FS_Injection
<1> HIDE DEF N
<1>6. value \in Seq(Hot) /\ Len(value) = N
  BY <1>1, <1>2
<1> QED
  BY <1>2, <1>5, <1>6 DEF Surjection, Sorted

\* The answer is the beginning of what is sorted, up to the limit.
LEMMA BeginningOfSorted ==
  ASSUME answer \in Slice(Hot)
  PROVE  \E value \in Sorted(Hot) :
           /\ Len(answer) = IF Len(value) < HotScenesLimit THEN Len(value) ELSE HotScenesLimit
           /\ DOMAIN answer = 1..Len(answer)
           /\ \A n \in DOMAIN answer : n \in 1..Len(value) /\ answer[n] = value[n]
<1>1. PICK value \in Sorted(Hot) :
        answer = SubSeq(value, 1, IF Len(value) < HotScenesLimit THEN Len(value) ELSE HotScenesLimit)
  BY DEF Slice
<1> DEFINE m == IF Len(value) < HotScenesLimit THEN Len(value) ELSE HotScenesLimit
<1>2. value \in Seq(Hot)
  BY SortedHot
<1>3. Len(value) \in Nat /\ DOMAIN value = 1..Len(value) /\ \A n \in 1..Len(value) : value[n] \in Hot
  BY <1>2, LenProperties
<1>4. m \in Nat /\ m <= Len(value)
  BY <1>3, SceneAssumption
<1> HIDE DEF m
<1>5. \A n \in 1..m : value[n] \in Hot
  BY <1>3, <1>4
<1>6. /\ SubSeq(value, 1, m) \in Seq(Hot)
      /\ Len(SubSeq(value, 1, m)) = IF 1 <= m THEN m - 1 + 1 ELSE 0
      /\ \A n \in 1..(m - 1 + 1) : SubSeq(value, 1, m)[n] = value[1 + n - 1]
  BY <1>4, <1>5, SubSeqProperties
<1>7. answer = SubSeq(value, 1, m)
  BY <1>1 DEF m
<1>8. answer \in Seq(Hot) /\ Len(answer) = m
  BY <1>4, <1>6, <1>7
<1>9. DOMAIN answer = 1..m
  BY <1>8, LenProperties
<1>10. \A n \in 1..m : n \in 1..Len(value) /\ answer[n] = value[n]
  BY <1>3, <1>4, <1>6, <1>7
<1> QED
  BY <1>8, <1>9, <1>10 DEF m

LEMMA CountOfHot ==
  ASSUME AnswersInv, NEW h \in Hot
  PROVE  h.scene \in Scene /\ h.usersTotalCount = Cardinality(UsersOf(h.scene))
<1>1. PICK s \in Scene : h = [scene |-> s, usersTotalCount |-> UsersTotalCount(s, countPerTile)]
  BY DEF Hot, HotScenes, FetchScenes
<1>2. UsersTotalCount(s, CountPerTile(asked)) = Cardinality(UsersOf(s))
  BY UsersCounted DEF AnswersInv, TypeInv, UsersOf
<1> QED
  BY <1>1, <1>2 DEF AnswersInv, CountInv

\* A scene is said to have as many users as were on its parcels when the request
\* came, wherever they have gone since.
THEOREM CountsRight == AnswersSpec => []HotScenesCount
<1>1. ASSUME AnswersInv PROVE HotScenesCount
  <2> SUFFICES ASSUME NEW n \in DOMAIN answer
               PROVE  answer[n].usersTotalCount = Cardinality(UsersOf(answer[n].scene))
    BY DEF HotScenesCount
  <2>1. answer \in Slice(Hot)
    BY <1>1 DEF AnswersInv, AnswerInv
  <2>2. PICK value \in Sorted(Hot) :
          \A k \in DOMAIN answer : k \in 1..Len(value) /\ answer[k] = value[k]
    BY <2>1, BeginningOfSorted
  <2>3. answer[n] \in Hot
    BY <2>2, SortedHot, LenProperties
  <2> QED
    BY <1>1, <2>3, CountOfHot
<1> QED
  BY <1>1, InitAnswers, NextAnswers, PTL DEF AnswersSpec

\* A scene with users is among those that the handler sorts, if it is complete.
LEMMA UsersMakeHot ==
  ASSUME AnswersInv, NEW s \in Scene \ Incomplete, UsersOf(s) # {}
  PROVE  \E h \in Hot : h.scene = s
<1>1. PICK p \in Peer, t \in ParcelsOf[s] : In(asked[p], t)
  BY DEF UsersOf
<1>2. asked \in Places /\ IsFiniteSet(Peopled(asked)) /\ t \in Int \X Int
  BY <1>1, SceneAssumption DEF AnswersInv, TypeInv
<1>3. p \in Peopled(asked) /\ asked[p] \in Position
  BY <1>1, <1>2 DEF In, Peopled, Places
<1>4. ToParcel(asked[p]) = t
  BY <1>1, <1>2, <1>3, ParcelOfPosition
<1>5. t \in DOMAIN countPerTile
  <2>1. DOMAIN CountPerTile(asked) = {ToParcel(asked[q]) : q \in Peopled(asked)}
    BY <1>2, Counts
  <2> QED
    BY <1>3, <1>4, <2>1 DEF AnswersInv, CountInv
<1>6. s \in FetchScenes(DOMAIN countPerTile)
  BY <1>1, <1>5 DEF FetchScenes
<1> DEFINE h == [scene |-> s, usersTotalCount |-> UsersTotalCount(s, countPerTile)]
<1>7. h \in Hot
  BY <1>6, Zenon DEF Hot, HotScenes
<1>8. h.scene = s
  OBVIOUS
<1> QED
  BY <1>7, <1>8

\* The answer is in order, and the limit only cuts off scenes that are no hotter
\* than those listed.
THEOREM HottestListed == AnswersSpec => []HotScenesAreHottest
<1>1. ASSUME AnswersInv PROVE HotScenesAreHottest
  <2> SUFFICES ASSUME answer # <<>> PROVE HotScenesAreHottest
    BY DEF HotScenesAreHottest
  <2>1. answer \in Slice(Hot)
    BY <1>1 DEF AnswersInv, AnswerInv
  <2>2. PICK value \in Sorted(Hot) :
          /\ Len(answer) = IF Len(value) < HotScenesLimit THEN Len(value) ELSE HotScenesLimit
          /\ DOMAIN answer = 1..Len(answer)
          /\ \A n \in DOMAIN answer : n \in 1..Len(value) /\ answer[n] = value[n]
    BY <2>1, BeginningOfSorted
  <2>3. /\ Len(value) \in Nat /\ Len(answer) \in Nat
        /\ \A n \in 1..Len(value) : value[n] \in Hot
        /\ \A h \in Hot : \E n \in 1..Len(value) : value[n] = h
        /\ \A n, k \in 1..Len(value) :
             n < k => value[n].usersTotalCount >= value[k].usersTotalCount
    BY <2>2, SortedHot, LenProperties, SceneAssumption
  <2>4. \A n, k \in DOMAIN answer : n < k => answer[n].usersTotalCount >= answer[k].usersTotalCount
    BY <2>2, <2>3
  <2>5. ASSUME NEW s \in Scene \ (Incomplete \cup ListedScenes), UsersOf(s) # {}
        PROVE  /\ Len(answer) = HotScenesLimit
               /\ \A l \in ListedScenes : Cardinality(UsersOf(l)) >= Cardinality(UsersOf(s))
    <3>1. PICK h \in Hot : h.scene = s
      BY <1>1, <2>5, UsersMakeHot
    <3>2. PICK k \in 1..Len(value) : value[k] = h
      BY <2>3
    <3>3. k \notin DOMAIN answer
      BY <2>2, <2>5, <3>1, <3>2 DEF ListedScenes
    <3>4. Len(answer) < k
      BY <2>2, <2>3, <3>3
    <3>5. Len(answer) = HotScenesLimit
      BY <2>2, <2>3, <3>4, SceneAssumption
    <3>6. ASSUME NEW l \in ListedScenes PROVE Cardinality(UsersOf(l)) >= Cardinality(UsersOf(s))
      <4>1. PICK n \in DOMAIN answer : answer[n].scene = l
        BY DEF ListedScenes
      <4>2. n \in 1..Len(value) /\ answer[n] = value[n] /\ n < k
        BY <2>2, <2>3, <3>4, <4>1
      <4>3. value[n].usersTotalCount >= value[k].usersTotalCount
        BY <2>3, <3>2, <4>2
      <4>4. value[n] \in Hot /\ value[n].scene = l /\ value[k].scene = s
        BY <2>3, <3>1, <3>2, <4>1, <4>2
      <4>5. /\ value[n].usersTotalCount = Cardinality(UsersOf(l))
            /\ value[k].usersTotalCount = Cardinality(UsersOf(s))
        BY <1>1, <3>2, <4>4, CountOfHot
      <4> QED
        BY <4>3, <4>5
    <3> QED
      BY <3>5, <3>6
  <2> QED
    BY <2>4, <2>5 DEF HotScenesAreHottest
<1> QED
  BY <1>1, InitAnswers, NextAnswers, PTL DEF AnswersSpec

============================================================================
