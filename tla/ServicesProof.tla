---------------------------- MODULE ServicesProof ----------------------------
(***************************************************************************)
(* Types, and the two safety properties of Services, for any number of     *)
(* addresses, sessions, messages on their way and faults.                  *)
(*                                                                         *)
(* Both properties are about empty channels.  What is inductive says what  *)
(* each channel still holds in store: whoever is over, and not forgotten   *)
(* yet, has the end of its session on its way, and no heartbeat after it;  *)
(* and of the island changes on their way to an address, the last one is   *)
(* the one that core has it told.                                          *)
(***************************************************************************)
EXTENDS Services, FiniteSetTheorems, TLAPS

----------------------------------------------------------------------------
(* Messages on their way *)

Kind == {"heartbeat", "disconnect", "unheard"}
Note == [address : Address, kind : Kind]
Change == [address : Address, island : IslandId]
IslandReport == SUBSET [id : IslandId, peers : SUBSET Address]

IsEnd(m, a) == m.address = a /\ m.kind # "heartbeat"
IsBeat(m, a) == m.address = a /\ m.kind = "heartbeat"

\* The end of a session of a is on its way in q.
EndIn(q, a) == \E n \in DOMAIN q : IsEnd(q[n], a)

\* No heartbeat of a comes after the last end.
EndsLast(q, a) ==
  \A n \in DOMAIN q : IsBeat(q[n], a) => \E k \in DOMAIN q : k > n /\ IsEnd(q[k], a)

\* What is said last of a is that its session is over.
LEMMA AppendEnd ==
  ASSUME NEW q \in Seq(Note), NEW a, NEW m \in Note, IsEnd(m, a)
  PROVE  EndIn(Append(q, m), a) /\ EndsLast(Append(q, m), a)
<1> DEFINE r == Append(q, m)
<1>1. /\ Len(r) = Len(q) + 1 /\ Len(q) \in Nat /\ DOMAIN r = 1..Len(r)
      /\ r[Len(r)] = m
  OBVIOUS
<1>2. Len(r) \in DOMAIN r /\ IsEnd(r[Len(r)], a)
  BY <1>1
<1>3. ASSUME NEW n \in DOMAIN r, IsBeat(r[n], a) PROVE Len(r) > n
  BY <1>1, <1>2, <1>3 DEF IsBeat, IsEnd
<1> HIDE DEF r
<1>4. EndIn(r, a) /\ EndsLast(r, a)
  BY <1>2, <1>3 DEF EndIn, EndsLast
<1> QED
  BY <1>4 DEF r

\* A message that is no heartbeat of a leaves a as it is.
LEMMA AppendOther ==
  ASSUME NEW q \in Seq(Note), NEW a, NEW m \in Note, ~IsBeat(m, a)
  PROVE  /\ EndIn(q, a) => EndIn(Append(q, m), a)
         /\ EndsLast(q, a) => EndsLast(Append(q, m), a)
<1> DEFINE r == Append(q, m)
<1>1. /\ Len(q) \in Nat /\ DOMAIN q = 1..Len(q) /\ DOMAIN r = 1..(Len(q) + 1)
      /\ \A n \in DOMAIN q : n \in DOMAIN r /\ r[n] = q[n]
      /\ r[Len(q) + 1] = m
  OBVIOUS
<1> HIDE DEF r
<1>2. \A n \in DOMAIN r : IsBeat(r[n], a) => n \in DOMAIN q
  BY <1>1
<1>3. EndIn(q, a) => EndIn(r, a)
  BY <1>1 DEF EndIn
<1>4. EndsLast(q, a) => EndsLast(r, a)
  <2> SUFFICES ASSUME EndsLast(q, a), NEW n \in DOMAIN r, IsBeat(r[n], a)
               PROVE  \E k \in DOMAIN r : k > n /\ IsEnd(r[k], a)
    BY DEF EndsLast
  <2>1. PICK k \in DOMAIN q : k > n /\ IsEnd(q[k], a)
    BY <1>1, <1>2 DEF EndsLast
  <2> QED
    BY <1>1, <2>1
<1> QED
  BY <1>3, <1>4 DEF r

LEMMA TailIs ==
  ASSUME NEW S, NEW q \in Seq(S), q # <<>>
  PROVE  /\ Tail(q) \in Seq(S) /\ Head(q) \in S /\ Head(q) = q[1]
         /\ Len(q) \in Nat \ {0} /\ DOMAIN q = 1..Len(q)
         /\ DOMAIN Tail(q) = 1..(Len(q) - 1)
         /\ \A n \in DOMAIN Tail(q) : Tail(q)[n] = q[n + 1]
         /\ 1 \in DOMAIN q
OBVIOUS

\* The first message has been taken.  An end of a is still to come if there was
\* one and it was not the first, and also after a heartbeat of a.
LEMMA TailEnds ==
  ASSUME NEW q \in Seq(Note), q # <<>>, NEW a
  PROVE  /\ EndsLast(q, a) => EndsLast(Tail(q), a)
         /\ EndIn(q, a) /\ ~IsEnd(Head(q), a) => EndIn(Tail(q), a)
         /\ EndsLast(q, a) /\ IsBeat(Head(q), a) => EndIn(Tail(q), a)
<1> DEFINE r == Tail(q)
<1>1. /\ Head(q) = q[1] /\ Len(q) \in Nat \ {0} /\ DOMAIN q = 1..Len(q)
      /\ DOMAIN r = 1..(Len(q) - 1) /\ \A n \in DOMAIN r : r[n] = q[n + 1]
  BY TailIs
<1> HIDE DEF r
<1>2. ASSUME NEW k \in DOMAIN q, k # 1 PROVE k - 1 \in DOMAIN r /\ r[k - 1] = q[k]
  <2>1. k - 1 \in DOMAIN r /\ (k - 1) + 1 = k
    BY <1>1, <1>2
  <2> QED
    BY <1>1, <2>1
<1>3. ASSUME EndsLast(q, a) PROVE EndsLast(r, a)
  <2> SUFFICES ASSUME NEW n \in DOMAIN r, IsBeat(r[n], a)
               PROVE  \E k \in DOMAIN r : k > n /\ IsEnd(r[k], a)
    BY DEF EndsLast
  <2>1. n + 1 \in DOMAIN q /\ IsBeat(q[n + 1], a)
    BY <1>1
  <2>2. PICK k \in DOMAIN q : k > n + 1 /\ IsEnd(q[k], a)
    BY <1>3, <2>1 DEF EndsLast
  <2>3. n \in Nat /\ k \in Nat /\ k # 1 /\ k - 1 > n
    BY <1>1, <2>2
  <2> QED
    BY <1>2, <2>2, <2>3
<1>4. ASSUME EndIn(q, a), ~IsEnd(q[1], a) PROVE EndIn(r, a)
  <2>1. PICK k \in DOMAIN q : IsEnd(q[k], a)
    BY <1>4 DEF EndIn
  <2> QED
    BY <1>2, <1>4, <2>1 DEF EndIn
<1>5. ASSUME EndsLast(q, a), IsBeat(q[1], a) PROVE EndIn(r, a)
  <2>1. PICK k \in DOMAIN q : k > 1 /\ IsEnd(q[k], a)
    BY <1>1, <1>5 DEF EndsLast
  <2> QED
    BY <1>1, <1>2, <2>1 DEF EndIn
<1> QED
  BY <1>1, <1>3, <1>4, <1>5 DEF r

LEMMA ConcatIs ==
  ASSUME NEW S, NEW q \in Seq(S), NEW u \in Seq(S)
  PROVE  /\ q \o u \in Seq(S)
         /\ Len(q) \in Nat /\ DOMAIN q = 1..Len(q) /\ Len(u) \in Nat /\ DOMAIN u = 1..Len(u)
         /\ DOMAIN (q \o u) = 1..(Len(q) + Len(u))
         /\ \A n \in DOMAIN q : (q \o u)[n] = q[n]
         /\ \A n \in DOMAIN u : (q \o u)[Len(q) + n] = u[n]
OBVIOUS

\* Ends are appended, for some addresses or for none.
LEMMA ConcatEnds ==
  ASSUME NEW q \in Seq(Note), NEW u \in Seq(Note), NEW a,
         \A n \in DOMAIN u : u[n].kind # "heartbeat"
  PROVE  /\ EndIn(q, a) => EndIn(q \o u, a)
         /\ EndsLast(q, a) => EndsLast(q \o u, a)
         /\ (\E n \in DOMAIN u : u[n].address = a) => EndIn(q \o u, a) /\ EndsLast(q \o u, a)
<1> DEFINE r == q \o u
<1>1. /\ Len(q) \in Nat /\ DOMAIN q = 1..Len(q) /\ Len(u) \in Nat /\ DOMAIN u = 1..Len(u)
      /\ DOMAIN r = 1..(Len(q) + Len(u))
      /\ \A n \in DOMAIN q : r[n] = q[n]
      /\ \A n \in DOMAIN u : r[Len(q) + n] = u[n]
  BY ConcatIs
<1> HIDE DEF r
<1>2. ASSUME NEW n \in DOMAIN r, IsBeat(r[n], a) PROVE n \in DOMAIN q /\ r[n] = q[n]
  <2> SUFFICES ASSUME n \notin DOMAIN q PROVE FALSE
    BY <1>1
  <2>1. n - Len(q) \in DOMAIN u /\ Len(q) + (n - Len(q)) = n
    BY <1>1
  <2> QED
    BY <1>1, <1>2, <2>1 DEF IsBeat
<1>3. \A n \in DOMAIN q : n \in DOMAIN r
  BY <1>1
<1>4. EndIn(q, a) => EndIn(r, a)
  BY <1>1, <1>3 DEF EndIn
<1>5. ASSUME EndsLast(q, a) PROVE EndsLast(r, a)
  BY <1>1, <1>2, <1>3, <1>5 DEF EndsLast
<1>6. ASSUME NEW n \in DOMAIN u, u[n].address = a PROVE EndIn(r, a) /\ EndsLast(r, a)
  <2>1. Len(q) + n \in DOMAIN r /\ IsEnd(r[Len(q) + n], a)
    BY <1>1, <1>6 DEF IsEnd
  <2>2. \A k \in DOMAIN q : Len(q) + n > k
    BY <1>1
  <2> QED
    BY <1>2, <2>1, <2>2 DEF EndIn, EndsLast
<1> QED
  BY <1>4, <1>5, <1>6 DEF r

----------------------------------------------------------------------------
(* Types *)

ChannelTypes ==
  /\ toCore \in Seq(Note) /\ toStats \in Seq(Note)
  /\ toClients \in Seq(Change)
  /\ reports \in Seq(IslandReport)

TypeInv == TypeOK /\ ChannelTypes

LEMMA InitTypes == Init => TypeInv
BY DEF Init, Gate!Init, Feed!Init, Feed!Assignment!Init, St!Init, TypeInv, TypeOK, ChannelTypes,
       InSession, St!Known

LEMMA MessageType == ASSUME NEW a \in Address, NEW k \in Kind PROVE Message(a, k) \in Note
BY DEF Message, Note

\* The channels of the gateway after a publish, and the rest.
LEMMA PublishTypes ==
  ASSUME TypeInv, NEW a \in Address, NEW k \in Kind, Publish(a, k)
  PROVE  ChannelTypes'
BY MessageType DEF TypeInv, ChannelTypes, Publish

LEMMA GatewayTypes ==
  ASSUME TypeInv, Client
  PROVE  TypeInv'
<1> USE DEF coreVars, statsVars, channels
<1>1. PICK a \in Address : (\E s \in Session : Begin(a, s)) \/ End(a) \/ Beat(a) \/ GoQuiet(a)
  BY DEF Client
<1>2. ASSUME NEW s \in Session, Begin(a, s) PROVE TypeInv'
  <2>1. ChannelTypes'
    BY <1>2, PublishTypes DEF Begin, Kind, TypeInv, ChannelTypes
  <2>2. TypeOK'
    BY <1>2 DEF Begin, Gate!Begin, TypeInv, TypeOK, InSession, St!Known
  <2> QED
    BY <2>1, <2>2 DEF TypeInv
<1>3. CASE End(a)
  <2>1. ChannelTypes'
    BY <1>3, PublishTypes DEF End, Kind
  <2>2. TypeOK'
    BY <1>3 DEF End, Gate!End, TypeInv, TypeOK, InSession, St!Known
  <2> QED
    BY <2>1, <2>2 DEF TypeInv
<1>4. CASE Beat(a)
  <2>1. ChannelTypes'
    BY <1>4, PublishTypes DEF Beat, Kind
  <2>2. TypeOK'
    BY <1>4 DEF Beat, Gate!Beat, TypeInv, TypeOK, InSession, St!Known
  <2> QED
    BY <2>1, <2>2 DEF TypeInv
<1>5. CASE GoQuiet(a)
  BY <1>5 DEF GoQuiet, TypeInv, TypeOK, ChannelTypes, InSession, St!Known
<1> QED
  BY <1>1, <1>2, <1>3, <1>4, <1>5

LEMMA HeadsTyped ==
  ASSUME TypeInv
  PROVE  /\ toCore # <<>> => Head(toCore) \in Note /\ Tail(toCore) \in Seq(Note)
         /\ toStats # <<>> => Head(toStats) \in Note /\ Tail(toStats) \in Seq(Note)
         /\ toClients # <<>> => Head(toClients) \in Change /\ Tail(toClients) \in Seq(Change)
         /\ reports # <<>> => Head(reports) \in IslandReport /\ Tail(reports) \in Seq(IslandReport)
BY TailIs DEF TypeInv, ChannelTypes

\* What is enumerated in an order is a sequence.
LEMMA OrderIsSeq ==
  ASSUME NEW S, NEW T \in SUBSET S, NEW n \in Nat, NEW q \in [1..n -> T]
  PROVE  q \in Seq(S)
<1>1. q \in [1..n -> S]
  OBVIOUS
<1> QED
  BY <1>1

\* The messages of a round, in some order, are a sequence of changes for the
\* receivers, and those of sent get the islands they are on.
ARound(q, sent, refused) ==
  /\ q \in Seq(Change)
  /\ \A n \in DOMAIN q : /\ q[n].address \in sent \cup refused
                         /\ q[n].address \in sent => q[n].island = assign[q[n].address]
  /\ \A a \in sent \cup refused : \E n \in DOMAIN q : q[n].address = a

LEMMA ChangesAre ==
  ASSUME TypeInv, NEW sent \in SUBSET Address, NEW refused \in SUBSET Address,
         NEW q \in Changes(sent, refused)
  PROVE  ARound(q, sent, refused)
<1> DEFINE R == sent \cup refused
<1>1. Cardinality(R) \in Nat
  BY FaultAssumption, FS_Subset, FS_CardinalityType
<1>2. q \in [1..Cardinality(R) -> [address : R, island : used]]
  BY DEF Changes
<1>3. \A n \in DOMAIN q : q[n] \in [address : R, island : used]
  BY <1>2
<1>4. [address : R, island : used] \subseteq Change
  BY DEF Change, TypeInv, TypeOK
<1>5. q \in Seq(Change)
  BY <1>1, <1>2, <1>4, OrderIsSeq
<1> QED
  BY <1>3, <1>5 DEF Changes, ARound

\* What stands for the disconnects that a gateway which crashes does not publish
LEMMA UnheardIs ==
  ASSUME NEW q \in Unheard
  PROVE  /\ q \in Seq(Note)
         /\ \A n \in DOMAIN q : q[n].kind # "heartbeat"
         /\ \A a \in InSession : \E n \in DOMAIN q : q[n].address = a
<1>1. Cardinality(InSession) \in Nat
  BY FaultAssumption, FS_Subset, FS_CardinalityType DEF InSession
<1>2. q \in [1..Cardinality(InSession) -> [address : InSession, kind : {"unheard"}]]
  BY DEF Unheard
<1>3. \A n \in DOMAIN q : q[n].kind # "heartbeat"
  BY <1>2
<1>4. [address : InSession, kind : {"unheard"}] \subseteq Note
  BY DEF Note, Kind, InSession
<1>5. q \in Seq(Note)
  BY <1>1, <1>2, <1>4, OrderIsSeq
<1> QED
  BY <1>3, <1>5 DEF Unheard

LEMMA CoreTypes ==
  ASSUME TypeInv, Core
  PROVE  TypeInv'
<1> USE DEF gateVars, coreVars, statsVars, channels
<1>1. CASE CoreHears
  <2>1. Head(toCore) \in Note /\ ChannelTypes'
    BY <1>1, HeadsTyped DEF CoreHears, TypeInv, ChannelTypes
  <2>2. TypeOK'
    BY <1>1, <2>1 DEF CoreHears, CoreHandles, CoreMisses, Feed!Hear, Feed!Forget, Note, TypeInv,
       TypeOK, InSession, St!Known
  <2> QED
    BY <2>1, <2>2 DEF TypeInv
<1>2. ASSUME NEW a \in Address, Expire(a) PROVE TypeInv'
  BY <1>2 DEF Expire, Feed!Forget, TypeInv, TypeOK, ChannelTypes, InSession, St!Known
<1>3. CASE Regroup
  <2>1. used' \subseteq IslandId
    BY <1>3 DEF Regroup, Feed!Regroup, Feed!Assignment!Next, Feed!Assignment!NewIsland,
       Feed!Assignment!SameIslands, Feed!Assignment!GiveOut, TypeInv, TypeOK
  <2> QED
    BY <1>3, <2>1 DEF Regroup, Feed!Regroup, TypeInv, TypeOK, ChannelTypes, InSession, St!Known
<1>4. ASSUME NEW sent \in SUBSET Address, NEW refused \in SUBSET Address, Tell(sent, refused)
      PROVE  TypeInv'
  <2>1. PICK q \in Changes(sent, refused) : toClients' = toClients \o q
    BY <1>4 DEF Tell
  <2>2. toClients' \in Seq(Change)
    BY <2>1, ChangesAre, ConcatIs DEF ARound, TypeInv, ChannelTypes
  <2>3. Report \in IslandReport
    BY DEF Report, IslandReport, TypeInv, TypeOK
  <2>4. ChannelTypes'
    BY <1>4, <2>2, <2>3 DEF Tell, TypeInv, ChannelTypes
  <2>5. TypeOK'
    BY <1>4 DEF Tell, Feed!Tell, TypeInv, TypeOK, InSession, St!Known
  <2> QED
    BY <2>4, <2>5 DEF TypeInv
<1> QED
  BY <1>1, <1>2, <1>3, <1>4 DEF Core

LEMMA StatsTypes ==
  ASSUME TypeInv, StatsHears \/ StatsGetsReport \/ Deliver
  PROVE  TypeInv'
<1> USE DEF gateVars, coreVars, statsVars
<1>1. CASE StatsHears
  <2>1. Head(toStats) \in Note /\ ChannelTypes'
    BY <1>1, HeadsTyped DEF StatsHears, TypeInv, ChannelTypes
  <2>2. TypeOK'
    BY <1>1, <2>1 DEF StatsHears, StatsHandles, St!OnPeerUpdated, St!OnPeerDisconnected, Note,
       TypeInv, TypeOK, InSession, St!Known
  <2> QED
    BY <2>1, <2>2 DEF TypeInv
<1>2. CASE StatsGetsReport
  BY <1>2, HeadsTyped DEF StatsGetsReport, St!OnIslandsDataReceived, IslandReport, TypeInv,
     TypeOK, ChannelTypes, InSession, St!Known
<1>3. CASE Deliver
  <2>1. Head(toClients) \in Change /\ ChannelTypes'
    BY <1>3, HeadsTyped DEF Deliver, TypeInv, ChannelTypes
  <2>2. TypeOK'
    BY <1>3, <2>1 DEF Deliver, Send, Change, TypeInv, TypeOK, InSession, St!Known
  <2> QED
    BY <2>1, <2>2 DEF TypeInv
<1> QED
  BY <1>1, <1>2, <1>3

LEMMA FaultTypes ==
  ASSUME TypeInv, Fault
  PROVE  TypeInv'
<1> USE DEF gateVars, coreVars, statsVars
<1>1. CASE LoseToCore
  BY <1>1, HeadsTyped DEF LoseToCore, CoreMisses, TypeInv, TypeOK, ChannelTypes, InSession, St!Known
<1>2. CASE LoseToStats
  BY <1>2, HeadsTyped DEF LoseToStats, TypeInv, TypeOK, ChannelTypes, InSession, St!Known
<1>3. CASE LoseToClients
  BY <1>3, HeadsTyped DEF LoseToClients, CoreMisses, TypeInv, TypeOK, ChannelTypes, InSession,
     St!Known
<1>4. CASE RestartConnector
  <2>1. toCore' \in Seq(Note) /\ toStats' \in Seq(Note)
    BY <1>4, UnheardIs, ConcatIs DEF RestartConnector, TypeInv, ChannelTypes
  <2>2. ChannelTypes'
    BY <1>4, <2>1 DEF RestartConnector, TypeInv, ChannelTypes
  <2>3. TypeOK'
    BY <1>4 DEF RestartConnector, TypeInv, TypeOK, InSession, St!Known
  <2> QED
    BY <2>2, <2>3 DEF TypeInv
<1>5. CASE RestartCore
  BY <1>5 DEF RestartCore, TypeInv, TypeOK, ChannelTypes, InSession, St!Known
<1>6. CASE RestartStats
  BY <1>6 DEF RestartStats, TypeInv, TypeOK, ChannelTypes, InSession, St!Known
<1>7. ASSUME NEW a \in Address, TakeOver(a) PROVE TypeInv'
  <2>1. ChannelTypes'
    BY <1>7, PublishTypes DEF TakeOver, Kind
  <2>2. TypeOK'
    BY <1>7 DEF TakeOver, Gate!Lose, Gate!End, TypeInv, TypeOK, InSession, St!Known
  <2> QED
    BY <2>1, <2>2 DEF TypeInv
<1>8. ASSUME NEW a \in Address, Misdirect(a) PROVE TypeInv'
  BY <1>8 DEF Misdirect, CoreMisses, channels, TypeInv, TypeOK, ChannelTypes, InSession, St!Known
<1> QED
  BY <1>1, <1>2, <1>3, <1>4, <1>5, <1>6, <1>7, <1>8 DEF Fault

LEMMA NextTypes == TypeInv /\ [Next]_vars => TypeInv'
<1> SUFFICES ASSUME TypeInv, [Next]_vars PROVE TypeInv'
  OBVIOUS
<1>1. CASE UNCHANGED vars
  BY <1>1 DEF vars, gateVars, coreVars, statsVars, channels, TypeInv, TypeOK, ChannelTypes,
     InSession, St!Known
<1> QED
  BY <1>1, GatewayTypes, CoreTypes, StatsTypes, FaultTypes DEF Next

\* The state of the three services and of what is between them keeps its types;
\* only a session can be quiet or know an island, and whose end a service missed
\* it still knows.
THEOREM TypeCorrect == Spec => []TypeOK
<1>1. TypeInv => TypeOK
  BY DEF TypeInv
<1> QED
  BY <1>1, InitTypes, NextTypes, PTL DEF Spec

----------------------------------------------------------------------------
(* Sessions that are over *)

\* Of a, whose session is over, no heartbeat is left in q without an end behind
\* it, and the end is still to come if a is one of those known.
Over(q, a, known) == EndsLast(q, a) /\ (a \in known => EndIn(q, a))

StatsInv == \A a \in Address \ active : Over(toStats, a, St!Known \ statsMissed)

\* What a publish of the gateway does to either of its channels.
LEMMA PublishOver ==
  ASSUME NEW q \in Seq(Note), NEW a \in Address, NEW k \in Kind, NEW b \in Address,
         NEW known, NEW r, r = Append(q, Message(a, k)),
         \/ a # b /\ Over(q, b, known)
         \/ a = b /\ k # "heartbeat"
  PROVE  Over(r, b, known)
<1> DEFINE m == Message(a, k)
<1>1. m \in Note
  BY MessageType
<1>2. CASE a # b /\ Over(q, b, known)
  <2>1. ~IsBeat(m, b)
    BY <1>2 DEF Message, IsBeat
  <2> QED
    BY <1>1, <1>2, <2>1, AppendOther DEF Over
<1>3. CASE a = b /\ k # "heartbeat"
  <2>1. IsEnd(m, b)
    BY <1>3 DEF Message, IsEnd
  <2> QED
    BY <1>1, <2>1, AppendEnd DEF Over
<1> QED
  BY <1>2, <1>3

LEMMA GatewayStats ==
  ASSUME TypeInv, StatsInv, Client \/ \E a \in Address : TakeOver(a)
  PROVE  StatsInv'
<1> SUFFICES ASSUME NEW b \in Address \ active' PROVE Over(toStats, b, St!Known \ statsMissed)'
  BY DEF StatsInv
<1> USE DEF coreVars, statsVars, channels
<1>1. UNCHANGED <<St!Known, statsMissed>>
  BY DEF Client, Begin, End, Beat, GoQuiet, TakeOver, St!Known
<1>2. b \notin active => Over(toStats, b, St!Known \ statsMissed)
  BY DEF StatsInv
<1>3. PICK a \in Address : (\E s \in Session : Begin(a, s)) \/ End(a) \/ Beat(a) \/ GoQuiet(a)
                            \/ TakeOver(a)
  BY DEF Client
<1>4. CASE UNCHANGED toStats /\ b \notin active
  BY <1>1, <1>2, <1>4 DEF Over
<1>5. ASSUME NEW k \in Kind, Publish(a, k), a # b => b \notin active, a = b => k # "heartbeat"
      PROVE  Over(toStats, b, St!Known \ statsMissed)'
  <2>1. toStats' = Append(toStats, Message(a, k)) /\ toStats \in Seq(Note)
    BY <1>5 DEF Publish, TypeInv, ChannelTypes
  <2>2. Over(toStats', b, St!Known \ statsMissed)
    BY <1>2, <1>5, <2>1, PublishOver
  <2> QED
    BY <1>1, <2>2 DEF Over
<1>6. ASSUME NEW s \in Session, Begin(a, s) PROVE Over(toStats, b, St!Known \ statsMissed)'
  <2>1. a = b \/ b \notin active
    BY <1>6 DEF Begin, Gate!Begin
  <2>2. session[a] = None => a \notin active
    BY DEF TypeInv, TypeOK, InSession
  <2> QED
    BY <1>4, <1>5, <1>6, <2>1, <2>2 DEF Begin, Kind
<1>7. CASE End(a)
  BY <1>5, <1>7 DEF End, Gate!End, Kind
<1>8. CASE Beat(a)
  <2>1. a # b /\ b \notin active /\ Publish(a, "heartbeat")
    BY <1>8 DEF Beat, Gate!Beat
  <2> QED
    BY <1>5, <2>1 DEF Kind
<1>9. CASE GoQuiet(a)
  BY <1>4, <1>9 DEF GoQuiet
<1>10. CASE TakeOver(a)
  BY <1>5, <1>10 DEF TakeOver, Gate!Lose, Gate!End, Kind
<1> QED
  BY <1>3, <1>6, <1>7, <1>8, <1>9, <1>10

\* Stats take a message, or lose it, or say that they missed the end it stands
\* for: whoever of the others is known and over has its end behind that message.
LEMMA TailOver ==
  ASSUME NEW q \in Seq(Note), q # <<>>, NEW a \in Address, NEW known, NEW now,
         Over(q, a, known),
         IsEnd(Head(q), a) => a \notin now,
         a \in now => a \in known \/ IsBeat(Head(q), a)
  PROVE  Over(Tail(q), a, now)
<1>1. EndsLast(Tail(q), a)
  BY TailEnds DEF Over
<1>2. ASSUME a \in now PROVE EndIn(Tail(q), a)
  BY <1>2, TailEnds DEF Over
<1> QED
  BY <1>1, <1>2 DEF Over

LEMMA StatsHearStats ==
  ASSUME TypeInv, StatsInv, StatsHears \/ LoseToStats
  PROVE  StatsInv'
<1> SUFFICES ASSUME NEW b \in Address \ active' PROVE Over(toStats, b, St!Known \ statsMissed)'
  BY DEF StatsInv
<1> USE DEF gateVars, statsVars
<1> DEFINE m == Head(toStats)
<1>1. toStats # <<>> /\ toStats \in Seq(Note) /\ m \in Note /\ toStats' = Tail(toStats)
  BY HeadsTyped DEF StatsHears, LoseToStats, TypeInv, ChannelTypes
<1>2. Over(toStats, b, St!Known \ statsMissed)
  BY DEF StatsHears, LoseToStats, StatsInv
<1>3. /\ IsEnd(m, b) => b \notin (St!Known \ statsMissed)'
      /\ b \in (St!Known \ statsMissed)' => b \in St!Known \ statsMissed \/ IsBeat(m, b)
  <2>1. CASE StatsHears
    <3>1. CASE m.kind = "heartbeat" /\ St!OnPeerUpdated(m.address, "somewhere") /\ UNCHANGED statsMissed
      BY <1>1, <3>1 DEF St!OnPeerUpdated, St!Known, IsEnd, IsBeat, Note, TypeInv, TypeOK
    <3>2. CASE /\ m.kind = "disconnect" /\ St!OnPeerDisconnected(m.address)
               /\ statsMissed' = statsMissed \ {m.address}
      BY <1>1, <3>2 DEF St!OnPeerDisconnected, St!Known, IsEnd, IsBeat, Note, TypeInv, TypeOK
    <3>3. CASE /\ m.kind = "unheard" /\ UNCHANGED statsVars
               /\ statsMissed' = statsMissed \cup ({m.address} \cap St!Known)
      BY <1>1, <3>3 DEF St!Known, IsEnd, IsBeat, Note
    <3> QED
      BY <2>1, <3>1, <3>2, <3>3 DEF StatsHears, StatsHandles
  <2>2. CASE LoseToStats
    BY <1>1, <2>2 DEF LoseToStats, St!Known, IsEnd, IsBeat, Note, Kind
  <2> QED
    BY <2>1, <2>2
<1>4. Over(Tail(toStats), b, (St!Known \ statsMissed)')
  BY <1>1, <1>2, <1>3, TailOver
<1> QED
  BY <1>1, <1>4 DEF Over

\* A gateway that crashes leaves an "unheard" behind for each session.
LEMMA UnheardOver ==
  ASSUME NEW q \in Seq(Note), NEW u \in Unheard, NEW a \in Address, NEW known,
         a \in InSession \/ Over(q, a, known)
  PROVE  Over(q \o u, a, known)
BY UnheardIs, ConcatEnds DEF Over

LEMMA RestStats ==
  ASSUME TypeInv, StatsInv,
         \/ Core \/ StatsGetsReport \/ Deliver \/ LoseToCore \/ LoseToClients
         \/ \E a \in Address : Misdirect(a)
         \/ RestartConnector \/ RestartCore \/ RestartStats \/ UNCHANGED vars
  PROVE  StatsInv'
<1> USE DEF gateVars, coreVars, statsVars
<1>1. CASE UNCHANGED <<active, peers, toStats, statsMissed>>
  BY <1>1 DEF StatsInv, Over, St!Known
<1>2. CASE RestartConnector
  <2>1. PICK u \in Unheard : toStats' = toStats \o u
    BY <1>2 DEF RestartConnector
  <2>2. UNCHANGED <<St!Known, statsMissed>>
    BY <1>2 DEF RestartConnector, St!Known
  <2> SUFFICES ASSUME NEW a \in Address PROVE Over(toStats', a, St!Known \ statsMissed)
    BY <2>2 DEF StatsInv, Over
  <2>3. a \in InSession \/ Over(toStats, a, St!Known \ statsMissed)
    BY DEF StatsInv, TypeInv, TypeOK
  <2> QED
    BY <2>1, <2>3, UnheardOver DEF TypeInv, ChannelTypes
<1>3. CASE RestartStats
  <2>1. toStats' = <<>> /\ (St!Known)' = {}
    BY <1>3 DEF RestartStats, St!Known
  <2> QED
    BY <2>1 DEF StatsInv, Over, EndsLast
<1>4. CASE Core
  BY <1>1, <1>4 DEF Core, CoreHears, Expire, Regroup, Tell, channels
<1>5. CASE StatsGetsReport \/ Deliver \/ LoseToCore \/ LoseToClients \/ RestartCore \/ UNCHANGED vars
  BY <1>1, <1>5 DEF StatsGetsReport, St!OnIslandsDataReceived, Deliver, LoseToCore, LoseToClients,
     RestartCore, vars, channels
<1>6. ASSUME NEW a \in Address, Misdirect(a) PROVE StatsInv'
  BY <1>1, <1>6 DEF Misdirect, channels
<1> QED
  BY <1>2, <1>3, <1>4, <1>5, <1>6

LEMMA InitStats == Init => StatsInv
BY DEF Init, St!Init, St!Known, StatsInv, Over, EndsLast

LEMMA NextStats == TypeInv /\ StatsInv /\ [Next]_vars => StatsInv'
BY GatewayStats, StatsHearStats, RestStats DEF Next, Fault

\* Stats lists nobody whose sessions are over, but for those whose disconnect was
\* lost or never published, once what is on its way to it has arrived.
THEOREM StatsForgets == Spec => []NobodyLingers
<1>1. TypeInv /\ StatsInv => NobodyLingers
  <2> SUFFICES ASSUME TypeInv, StatsInv, toStats = <<>>, NEW a \in St!Known \ statsMissed
               PROVE  a \in active
    BY DEF NobodyLingers, St!PeersAnswer
  <2>1. ~EndIn(toStats, a) /\ a \in Address
    BY DEF EndIn, St!Known
  <2> QED
    BY <2>1 DEF StatsInv, Over
<1>2. Init => TypeInv /\ StatsInv
  BY InitTypes, InitStats
<1>3. TypeInv /\ StatsInv /\ [Next]_vars => TypeInv' /\ StatsInv'
  BY NextTypes, NextStats
<1> QED
  BY <1>1, <1>2, <1>3, PTL DEF Spec

----------------------------------------------------------------------------
(* What core knows of sessions that are over *)

CoreInv == \A a \in Address \ InSession : Over(toCore, a, heard \ coreMissed)

\* Who is on an island, or was told one, is heard.
PlacedInv == \A a \in Address : assign[a] # NoIsland \/ told[a] # NoIsland => a \in heard

LEMMA GatewayCore ==
  ASSUME TypeInv, CoreInv, Client \/ \E a \in Address : TakeOver(a)
  PROVE  CoreInv'
<1> SUFFICES ASSUME NEW b \in Address, session'[b] = None
             PROVE  Over(toCore, b, heard \ coreMissed)'
  BY DEF CoreInv, InSession
<1> USE DEF coreVars, statsVars, channels
<1>1. UNCHANGED <<heard, coreMissed>>
  BY DEF Client, Begin, End, Beat, GoQuiet, TakeOver
<1>2. session[b] = None => Over(toCore, b, heard \ coreMissed)
  BY DEF CoreInv, InSession
<1>3. PICK a \in Address : (\E s \in Session : Begin(a, s)) \/ End(a) \/ Beat(a) \/ GoQuiet(a)
                            \/ TakeOver(a)
  BY DEF Client
<1>4. CASE UNCHANGED toCore /\ session[b] = None
  BY <1>1, <1>2, <1>4 DEF Over
<1>5. ASSUME NEW k \in Kind, Publish(a, k), a # b => session[b] = None, a = b => k # "heartbeat"
      PROVE  Over(toCore, b, heard \ coreMissed)'
  <2>1. toCore' = Append(toCore, Message(a, k)) /\ toCore \in Seq(Note)
    BY <1>5 DEF Publish, TypeInv, ChannelTypes
  <2>2. Over(toCore', b, heard \ coreMissed)
    BY <1>2, <1>5, <2>1, PublishOver
  <2> QED
    BY <1>1, <2>2 DEF Over
<1>6. ASSUME NEW s \in Session, Begin(a, s) PROVE Over(toCore, b, heard \ coreMissed)'
  <2>1. a # b => session[b] = None
    BY <1>6 DEF Begin, Gate!Begin, TypeInv, TypeOK
  <2> QED
    BY <1>4, <1>5, <1>6, <2>1 DEF Begin, Kind
<1>7. CASE End(a)
  <2>1. a # b => session[b] = None
    BY <1>7 DEF End, Gate!End, TypeInv, TypeOK
  <2> QED
    BY <1>5, <1>7, <2>1 DEF End, Kind
<1>8. CASE Beat(a)
  <2>1. a # b /\ session[b] = None /\ Publish(a, "heartbeat")
    BY <1>8 DEF Beat, Gate!Beat
  <2> QED
    BY <1>5, <2>1 DEF Kind
<1>9. CASE GoQuiet(a)
  BY <1>4, <1>9 DEF GoQuiet
<1>10. CASE TakeOver(a)
  <2>1. a # b => session[b] = None
    BY <1>10 DEF TakeOver, Gate!Lose, Gate!End, TypeInv, TypeOK
  <2> QED
    BY <1>5, <1>10, <2>1 DEF TakeOver, Kind
<1> QED
  BY <1>3, <1>6, <1>7, <1>8, <1>9, <1>10

\* What core does with the first message, and what it makes of one that is lost
LEMMA CoreTakes ==
  ASSUME TypeInv, CoreHears \/ LoseToCore, NEW b \in Address
  PROVE  /\ toCore # <<>> /\ toCore \in Seq(Note) /\ toCore' = Tail(toCore)
         /\ IsEnd(Head(toCore), b) => b \notin (heard \ coreMissed)'
         /\ b \in (heard \ coreMissed)' => b \in heard \ coreMissed \/ IsBeat(Head(toCore), b)
         /\ UNCHANGED <<session, client, toClients>>
<1> USE DEF gateVars, coreVars
<1> DEFINE m == Head(toCore)
<1>1. /\ toCore # <<>> /\ toCore \in Seq(Note) /\ m \in Note /\ toCore' = Tail(toCore)
      /\ UNCHANGED <<session, client, toClients>>
  BY HeadsTyped DEF CoreHears, LoseToCore, TypeInv, ChannelTypes
<1>2. CASE CoreHears
  <2>1. CASE m.kind = "heartbeat" /\ Feed!Hear(m.address) /\ UNCHANGED coreMissed
    BY <1>1, <2>1 DEF Feed!Hear, IsEnd, IsBeat, Note
  <2>2. CASE /\ m.kind = "disconnect" /\ Feed!Forget(m.address)
             /\ coreMissed' = coreMissed \ {m.address}
    BY <1>1, <2>2 DEF Feed!Forget, IsEnd, IsBeat, Note
  <2>3. CASE m.kind = "unheard" /\ CoreMisses(m.address) /\ UNCHANGED coreVars
    BY <1>1, <2>3 DEF CoreMisses, IsEnd, IsBeat, Note
  <2> QED
    BY <1>1, <1>2, <2>1, <2>2, <2>3 DEF CoreHears, CoreHandles
<1>3. CASE LoseToCore
  BY <1>1, <1>3 DEF LoseToCore, CoreMisses, IsEnd, IsBeat, Note, Kind
<1> QED
  BY <1>2, <1>3

LEMMA CoreHearsCore ==
  ASSUME TypeInv, CoreInv, CoreHears \/ LoseToCore
  PROVE  CoreInv'
<1> SUFFICES ASSUME NEW b \in Address \ InSession' PROVE Over(toCore, b, heard \ coreMissed)'
  BY DEF CoreInv
<1>1. Over(toCore, b, heard \ coreMissed)
  BY CoreTakes DEF CoreInv, InSession
<1>2. Over(Tail(toCore), b, (heard \ coreMissed)')
  BY <1>1, CoreTakes, TailOver
<1> QED
  BY <1>2, CoreTakes DEF Over

LEMMA RestCore ==
  ASSUME TypeInv, CoreInv,
         \/ \E a \in Address : Expire(a)
         \/ Regroup
         \/ \E sent, refused \in SUBSET Address : Tell(sent, refused)
         \/ StatsHears \/ StatsGetsReport \/ Deliver \/ LoseToStats \/ LoseToClients
         \/ \E a \in Address : Misdirect(a)
         \/ RestartConnector \/ RestartCore \/ RestartStats \/ UNCHANGED vars
  PROVE  CoreInv'
<1> USE DEF gateVars, coreVars
<1>1. CASE /\ UNCHANGED <<session, toCore>>
           /\ \A b \in Address \ InSession : b \in (heard \ coreMissed)' => b \in heard \ coreMissed
  BY <1>1 DEF CoreInv, Over, InSession
<1>2. ASSUME NEW a \in Address, Expire(a) PROVE CoreInv'
  BY <1>1, <1>2 DEF Expire, Feed!Forget, channels
<1>3. CASE Regroup
  BY <1>1, <1>3 DEF Regroup, Feed!Regroup, channels
<1>4. ASSUME NEW sent \in SUBSET Address, NEW refused \in SUBSET Address, Tell(sent, refused)
      PROVE  CoreInv'
  BY <1>1, <1>4 DEF Tell, Feed!Tell
<1>5. CASE Deliver
  BY <1>1, <1>5 DEF Deliver, InSession
<1>6. CASE StatsHears \/ StatsGetsReport \/ LoseToStats \/ RestartStats \/ UNCHANGED vars
  BY <1>1, <1>6 DEF StatsHears, StatsGetsReport, LoseToStats, RestartStats, vars, channels
<1>7. CASE LoseToClients
  BY <1>1, <1>7 DEF LoseToClients, CoreMisses
<1>8. CASE RestartConnector
  <2>1. PICK u \in Unheard : toCore' = toCore \o u
    BY <1>8 DEF RestartConnector
  <2>2. UNCHANGED <<heard, coreMissed>>
    BY <1>8 DEF RestartConnector
  <2> SUFFICES ASSUME NEW a \in Address PROVE Over(toCore', a, heard \ coreMissed)
    BY <2>2 DEF CoreInv, Over
  <2>3. a \in InSession \/ Over(toCore, a, heard \ coreMissed)
    BY DEF CoreInv
  <2> QED
    BY <2>1, <2>3, UnheardOver DEF TypeInv, ChannelTypes
<1>9. CASE RestartCore
  BY <1>9 DEF RestartCore, CoreInv, Over, EndsLast
<1>10. ASSUME NEW a \in Address, Misdirect(a) PROVE CoreInv'
  BY <1>1, <1>10 DEF Misdirect, CoreMisses, channels
<1> QED
  BY <1>2, <1>3, <1>4, <1>5, <1>6, <1>7, <1>8, <1>9, <1>10

LEMMA NextPlaced ==
  ASSUME TypeInv, PlacedInv, [Next]_vars
  PROVE  PlacedInv'
<1> USE DEF PlacedInv, coreVars
<1>1. CASE UNCHANGED coreVars
  BY <1>1
<1>2. CASE CoreHears
  <2>1. Head(toCore).address \in Address
    BY <1>2, HeadsTyped DEF CoreHears, Note
  <2> QED
    BY <1>2, <2>1 DEF CoreHears, CoreHandles, Feed!Hear, Feed!Forget, TypeInv, TypeOK
<1>3. ASSUME NEW a \in Address, Expire(a) PROVE PlacedInv'
  BY <1>3 DEF Expire, Feed!Forget, TypeInv, TypeOK
<1>4. CASE Regroup
  BY <1>4 DEF Regroup, Feed!Regroup
<1>5. ASSUME NEW sent \in SUBSET Address, NEW refused \in SUBSET Address, Tell(sent, refused)
      PROVE  PlacedInv'
  BY <1>5 DEF Tell, Feed!Tell, Feed!OnIsland
<1>6. CASE RestartCore
  BY <1>6 DEF RestartCore
<1>7. CASE Client \/ StatsHears \/ StatsGetsReport \/ Deliver
  BY <1>1, <1>7 DEF Client, Begin, End, Beat, GoQuiet, StatsHears, StatsGetsReport, Deliver
<1>8. CASE LoseToCore \/ LoseToStats \/ LoseToClients \/ RestartConnector \/ RestartStats
  BY <1>1, <1>8 DEF LoseToCore, LoseToStats, LoseToClients, RestartConnector, RestartStats
<1>9. ASSUME NEW a \in Address, TakeOver(a) \/ Misdirect(a) PROVE PlacedInv'
  BY <1>1, <1>9 DEF TakeOver, Misdirect
<1> QED
  BY <1>1, <1>2, <1>3, <1>4, <1>5, <1>6, <1>7, <1>8, <1>9 DEF Next, Core, Fault, vars

----------------------------------------------------------------------------
(* Island changes on their way *)

\* The last of the changes in q that are for a is to island i.
LastOf(q, a, i) ==
  \E n \in DOMAIN q :
    /\ q[n].address = a
    /\ \A k \in DOMAIN q : k >= n /\ q[k].address = a => q[k].island = i

NoneFor(q, a) == \A n \in DOMAIN q : q[n].address # a

LEMMA TailChanges ==
  ASSUME NEW q \in Seq(Change), q # <<>>, NEW a, NEW i
  PROVE  /\ LastOf(q, a, i) =>
              \/ LastOf(Tail(q), a, i)
              \/ NoneFor(Tail(q), a) /\ Head(q).address = a /\ Head(q).island = i
         /\ NoneFor(q, a) => NoneFor(Tail(q), a) /\ Head(q).address # a
<1> DEFINE r == Tail(q)
<1>1. /\ Head(q) = q[1] /\ Len(q) \in Nat \ {0} /\ DOMAIN q = 1..Len(q)
      /\ DOMAIN r = 1..(Len(q) - 1) /\ \A n \in DOMAIN r : r[n] = q[n + 1]
  BY TailIs
<1> HIDE DEF r
<1>2. \A n \in DOMAIN r : n \in Nat /\ n + 1 \in DOMAIN q
  BY <1>1
<1>3. ASSUME NoneFor(q, a) PROVE NoneFor(r, a) /\ q[1].address # a
  BY <1>1, <1>2, <1>3 DEF NoneFor
<1>4. ASSUME NEW n \in DOMAIN q, q[n].address = a, n # 1,
             \A k \in DOMAIN q : k >= n /\ q[k].address = a => q[k].island = i
      PROVE  LastOf(r, a, i)
  <2>1. n \in Nat /\ n - 1 \in DOMAIN r /\ (n - 1) + 1 = n
    BY <1>1, <1>4
  <2>2. r[n - 1].address = a
    BY <1>1, <1>4, <2>1
  <2>3. ASSUME NEW k \in DOMAIN r, k >= n - 1, r[k].address = a PROVE r[k].island = i
    <3>1. k + 1 \in DOMAIN q /\ k + 1 >= n /\ r[k] = q[k + 1]
      BY <1>1, <1>2, <2>1, <2>3
    <3> QED
      BY <1>4, <2>3, <3>1
  <2> QED
    BY <2>1, <2>2, <2>3 DEF LastOf
<1>5. ASSUME q[1].address = a, ~NoneFor(r, a),
             \A k \in DOMAIN q : k >= 1 /\ q[k].address = a => q[k].island = i
      PROVE  LastOf(r, a, i)
  <2>1. PICK n \in DOMAIN r : r[n].address = a
    BY <1>5 DEF NoneFor
  <2>2. \A k \in DOMAIN r : r[k].address = a => r[k].island = i
    BY <1>1, <1>2, <1>5
  <2> QED
    BY <2>1, <2>2 DEF LastOf
<1>6. ASSUME LastOf(q, a, i)
      PROVE  LastOf(r, a, i) \/ (NoneFor(r, a) /\ q[1].address = a /\ q[1].island = i)
  <2>1. PICK n \in DOMAIN q :
          /\ q[n].address = a
          /\ \A k \in DOMAIN q : k >= n /\ q[k].address = a => q[k].island = i
    BY <1>6 DEF LastOf
  <2>2. n >= n
    BY <1>1
  <2> QED
    BY <1>4, <1>5, <2>1, <2>2
<1> QED
  BY <1>1, <1>3, <1>6 DEF r

LEMMA ConcatChanges ==
  ASSUME NEW q \in Seq(Change), NEW u \in Seq(Change), NEW a, NEW i
  PROVE  /\ /\ \E n \in DOMAIN u : u[n].address = a
            /\ \A n \in DOMAIN u : u[n].address = a => u[n].island = i
            => LastOf(q \o u, a, i)
         /\ NoneFor(u, a) /\ LastOf(q, a, i) => LastOf(q \o u, a, i)
         /\ NoneFor(u, a) /\ NoneFor(q, a) => NoneFor(q \o u, a)
<1> DEFINE r == q \o u
<1>1. /\ Len(q) \in Nat /\ DOMAIN q = 1..Len(q) /\ Len(u) \in Nat /\ DOMAIN u = 1..Len(u)
      /\ DOMAIN r = 1..(Len(q) + Len(u))
      /\ \A n \in DOMAIN q : r[n] = q[n]
      /\ \A n \in DOMAIN u : r[Len(q) + n] = u[n]
  BY ConcatIs
<1> HIDE DEF r
<1>2. ASSUME NEW n \in DOMAIN r, n \notin DOMAIN q
      PROVE  n - Len(q) \in DOMAIN u /\ r[n] = u[n - Len(q)]
  <2>1. n - Len(q) \in DOMAIN u /\ Len(q) + (n - Len(q)) = n
    BY <1>1, <1>2
  <2> QED
    BY <1>1, <2>1
<1>3. ASSUME NEW n \in DOMAIN u, u[n].address = a,
             \A k \in DOMAIN u : u[k].address = a => u[k].island = i
      PROVE  LastOf(r, a, i)
  <2>1. Len(q) + n \in DOMAIN r /\ r[Len(q) + n].address = a
    BY <1>1, <1>3
  <2>2. ASSUME NEW k \in DOMAIN r, k >= Len(q) + n, r[k].address = a PROVE r[k].island = i
    <3>1. k \notin DOMAIN q
      BY <1>1, <2>2
    <3> QED
      BY <1>2, <1>3, <2>2, <3>1
  <2> QED
    BY <2>1, <2>2 DEF LastOf
<1>4. ASSUME NoneFor(u, a) PROVE \A n \in DOMAIN r : r[n].address = a => n \in DOMAIN q
  BY <1>2, <1>4 DEF NoneFor
<1>5. ASSUME NoneFor(u, a), LastOf(q, a, i) PROVE LastOf(r, a, i)
  <2>1. PICK n \in DOMAIN q :
          /\ q[n].address = a
          /\ \A k \in DOMAIN q : k >= n /\ q[k].address = a => q[k].island = i
    BY <1>5 DEF LastOf
  <2>2. n \in DOMAIN r /\ r[n].address = a
    BY <1>1, <2>1
  <2>3. \A k \in DOMAIN r : k >= n /\ r[k].address = a => r[k].island = i
    BY <1>1, <1>4, <1>5, <2>1
  <2> QED
    BY <2>2, <2>3 DEF LastOf
<1>6. NoneFor(u, a) /\ NoneFor(q, a) => NoneFor(r, a)
  BY <1>1, <1>4 DEF NoneFor
<1> QED
  BY <1>3, <1>5, <1>6 DEF r

----------------------------------------------------------------------------
(* What clients know *)

\* Nothing keeps the session of a from being the one that core takes it for.
Current(a) == session[a] # None /\ a \notin coreMissed /\ ~EndIn(toCore, a)

\* Of whoever was told an island, the last change on its way is that island, or
\* there is none on its way and the session that core told it knows the island.
ToldInv ==
  \A a \in Address : told[a] # NoIsland =>
    \/ LastOf(toClients, a, told[a])
    \/ NoneFor(toClients, a) /\ (Current(a) => client[a] = told[a])

SyncInv == TypeInv /\ CoreInv /\ PlacedInv /\ ToldInv

LEMMA AppendKeeps ==
  ASSUME NEW q \in Seq(Note), NEW m \in Note, NEW a, EndIn(q, a)
  PROVE  EndIn(Append(q, m), a)
<1>1. PICK n \in DOMAIN q : IsEnd(q[n], a)
  BY DEF EndIn
<1>2. n \in DOMAIN Append(q, m) /\ Append(q, m)[n] = q[n]
  OBVIOUS
<1> QED
  BY <1>1, <1>2 DEF EndIn

\* A new session that does not end one is no current one yet.
LEMMA FreshIsNotCurrent ==
  ASSUME SyncInv, NEW a \in Address, session[a] = None, told[a] # NoIsland
  PROVE  a \in coreMissed \/ EndIn(toCore, a)
BY DEF SyncInv, CoreInv, PlacedInv, InSession, Over

LEMMA GatewayTold ==
  ASSUME SyncInv, Client \/ \E a \in Address : TakeOver(a)
  PROVE  ToldInv'
<1> USE DEF coreVars, statsVars, channels
<1>1. UNCHANGED <<told, coreMissed>>
  BY DEF Client, Begin, End, Beat, GoQuiet, TakeOver
<1>2. PICK a \in Address : (\E s \in Session : Begin(a, s)) \/ End(a) \/ Beat(a) \/ GoQuiet(a)
                            \/ TakeOver(a)
  BY DEF Client
<1>3. \/ UNCHANGED <<toClients, toCore>>
      \/ \E k \in Kind : Publish(a, k)
  BY <1>2 DEF Begin, End, Beat, GoQuiet, TakeOver, Kind
<1>4. UNCHANGED toClients
  BY <1>3 DEF Publish
<1>5. ASSUME NEW b \in Address, EndIn(toCore, b) PROVE EndIn(toCore', b)
  <2>1. ASSUME NEW k \in Kind, Publish(a, k) PROVE EndIn(toCore', b)
    BY <1>5, <2>1, AppendKeeps, MessageType DEF Publish, SyncInv, TypeInv, ChannelTypes
  <2> QED
    BY <1>3, <1>5, <2>1
<1> SUFFICES ASSUME NEW b \in Address, told[b] # NoIsland, Current(b)',
                    NoneFor(toClients, b)
             PROVE  client'[b] = told[b]
  BY <1>1, <1>4 DEF ToldInv, SyncInv, NoneFor
<1>6. session'[b] # None /\ b \notin coreMissed /\ ~EndIn(toCore', b) /\ ~EndIn(toCore, b)
  BY <1>1, <1>5 DEF Current
<1>7. session[b] # None
  BY <1>6, FreshIsNotCurrent
<1>8. Current(b) /\ client[b] = told[b]
  <2>1. ~LastOf(toClients, b, told[b])
    BY DEF LastOf, NoneFor
  <2> QED
    BY <1>6, <1>7, <2>1 DEF SyncInv, ToldInv, Current
<1>9. ASSUME NEW k \in {"disconnect", "unheard"}, Publish(b, k) PROVE FALSE
  <2>1. IsEnd(Message(b, k), b)
    BY DEF IsEnd, Message
  <2> QED
    BY <1>6, <1>9, <2>1, AppendEnd, MessageType DEF Publish, Kind, SyncInv, TypeInv, ChannelTypes
<1>10. ~End(b) /\ ~TakeOver(b) /\ \A s \in Session : ~Begin(b, s)
  BY <1>7, <1>9 DEF Begin, End, TakeOver
<1>11. client'[b] = client[b]
  BY <1>2, <1>10 DEF Begin, End, Beat, GoQuiet, TakeOver, SyncInv, TypeInv, TypeOK
<1> QED
  BY <1>8, <1>11

LEMMA CoreHearsTold ==
  ASSUME SyncInv, CoreHears \/ LoseToCore
  PROVE  ToldInv'
<1>1. ASSUME NEW b \in Address
      PROVE  told'[b] = told[b] \/ told'[b] = NoIsland
  BY HeadsTyped DEF CoreHears, CoreHandles, LoseToCore, Feed!Hear, Feed!Forget, coreVars, Note,
     SyncInv, TypeInv, TypeOK
<1> SUFFICES ASSUME NEW b \in Address, told'[b] # NoIsland, told'[b] = told[b], Current(b)',
                    NoneFor(toClients, b)
             PROVE  client[b] = told[b]
  BY <1>1, CoreTakes DEF ToldInv, SyncInv, NoneFor, LastOf
<1>2. b \in heard'
  BY NextPlaced DEF SyncInv, PlacedInv, Next, Core, Fault
<1>3. b \notin coreMissed' /\ session[b] # None /\ ~EndIn(Tail(toCore), b)
  BY CoreTakes DEF Current, SyncInv
<1>4. ~IsEnd(Head(toCore), b)
  BY <1>2, <1>3, CoreTakes DEF SyncInv
<1>5. ~EndIn(toCore, b)
  BY <1>3, <1>4, CoreTakes, TailEnds DEF SyncInv
<1>6. b \notin coreMissed
  BY <1>3, <1>4 DEF CoreHears, CoreHandles, LoseToCore, CoreMisses, IsEnd
<1>7. ~LastOf(toClients, b, told[b])
  BY DEF LastOf, NoneFor
<1> QED
  BY <1>3, <1>5, <1>6, <1>7 DEF SyncInv, ToldInv, Current

LEMMA TellTold ==
  ASSUME SyncInv, NEW sent \in SUBSET Address, NEW refused \in SUBSET Address, Tell(sent, refused)
  PROVE  ToldInv'
<1>1. PICK q \in Changes(sent, refused) : toClients' = toClients \o q
  BY DEF Tell
<1>2. /\ UNCHANGED <<session, coreMissed, toCore, client>>
      /\ told' = [a \in Address |-> IF a \in sent THEN assign[a]
                                    ELSE IF a \in refused THEN NoIsland ELSE told[a]]
  BY DEF Tell, Feed!Tell, gateVars
<1>3. ARound(q, sent, refused)
  BY <1>1, ChangesAre DEF SyncInv
<1>4. q \in Seq(Change) /\ toClients \in Seq(Change)
  BY <1>3 DEF ARound, SyncInv, TypeInv, ChannelTypes
<1> SUFFICES ASSUME NEW a \in Address, told'[a] # NoIsland
             PROVE  \/ LastOf(toClients', a, told'[a])
                    \/ NoneFor(toClients', a) /\ (Current(a) => client[a] = told'[a])
  BY <1>2 DEF ToldInv, Current
<1>5. CASE a \in sent
  <2>1. told'[a] = assign[a]
    BY <1>2, <1>5
  <2>2. /\ \E n \in DOMAIN q : q[n].address = a
        /\ \A n \in DOMAIN q : q[n].address = a => q[n].island = assign[a]
    BY <1>5, <1>3 DEF ARound
  <2> QED
    BY <1>1, <1>4, <2>1, <2>2, ConcatChanges
<1>6. CASE a \notin sent
  <2>1. a \notin refused /\ told'[a] = told[a]
    BY <1>2, <1>6
  <2>2. NoneFor(q, a)
    BY <1>6, <1>3, <2>1 DEF NoneFor, ARound
  <2>3. \/ LastOf(toClients, a, told[a])
        \/ NoneFor(toClients, a) /\ (Current(a) => client[a] = told[a])
    BY <2>1 DEF SyncInv, ToldInv
  <2> QED
    BY <1>1, <1>4, <2>1, <2>2, <2>3, ConcatChanges
<1> QED
  BY <1>5, <1>6

LEMMA DeliverTold ==
  ASSUME SyncInv, Deliver \/ LoseToClients
  PROVE  ToldInv'
<1> USE DEF coreVars, gateVars
<1> DEFINE m == Head(toClients)
<1>1. /\ toClients # <<>> /\ toClients \in Seq(Change) /\ toClients' = Tail(toClients)
      /\ m \in Change /\ UNCHANGED <<session, toCore, told, heard>>
  BY HeadsTyped DEF Deliver, LoseToClients, SyncInv, TypeInv, ChannelTypes
<1> SUFFICES ASSUME NEW a \in Address, told[a] # NoIsland, ~LastOf(Tail(toClients), a, told[a])
             PROVE  NoneFor(Tail(toClients), a) /\ (Current(a)' => client'[a] = told[a])
  BY <1>1 DEF ToldInv
<1>2. CASE LastOf(toClients, a, told[a])
  <2>1. NoneFor(Tail(toClients), a) /\ m.address = a /\ m.island = told[a]
    BY <1>1, <1>2, TailChanges
  <2>2. ASSUME Current(a)' PROVE client'[a] = told[a]
    <3>1. session[a] # None /\ a \notin coreMissed'
      BY <1>1, <2>2 DEF Current
    <3>2. ~LoseToClients
      BY <2>1, <3>1 DEF LoseToClients, CoreMisses, SyncInv, PlacedInv
    <3> QED
      BY <2>1, <3>1, <3>2 DEF Deliver, Send, SyncInv, TypeInv, TypeOK
  <2> QED
    BY <2>1, <2>2
<1>3. CASE NoneFor(toClients, a) /\ (Current(a) => client[a] = told[a])
  <2>1. NoneFor(Tail(toClients), a) /\ m.address # a
    BY <1>1, <1>3, TailChanges
  <2>2. client'[a] = client[a] /\ (a \notin coreMissed' => a \notin coreMissed)
    BY <1>1, <2>1 DEF Deliver, LoseToClients, CoreMisses, Send, SyncInv, TypeInv, TypeOK
  <2> QED
    BY <1>1, <1>3, <2>1, <2>2 DEF Current
<1> QED
  BY <1>2, <1>3 DEF SyncInv, ToldInv

LEMMA RestTold ==
  ASSUME SyncInv,
         \/ \E a \in Address : Expire(a)
         \/ Regroup \/ StatsHears \/ StatsGetsReport \/ LoseToStats
         \/ \E a \in Address : Misdirect(a)
         \/ RestartConnector \/ RestartCore \/ RestartStats \/ UNCHANGED vars
  PROVE  ToldInv'
<1> USE DEF gateVars, coreVars
<1>1. CASE UNCHANGED <<session, client, told, toCore, toClients, coreMissed>>
  BY <1>1 DEF SyncInv, ToldInv, Current, LastOf, NoneFor, EndIn
<1>2. ASSUME NEW a \in Address, Expire(a) PROVE ToldInv'
  <2>1. /\ UNCHANGED <<session, client, toCore, toClients>>
        /\ told' = [told EXCEPT ![a] = NoIsland] /\ coreMissed' = coreMissed \ {a}
    BY <1>2 DEF Expire, Feed!Forget, channels
  <2> QED
    BY <2>1 DEF SyncInv, TypeInv, TypeOK, ToldInv, Current, LastOf, NoneFor, EndIn
<1>3. CASE Regroup
  BY <1>1, <1>3 DEF Regroup, Feed!Regroup, channels
<1>4. CASE StatsHears \/ StatsGetsReport \/ LoseToStats \/ RestartStats \/ UNCHANGED vars
  BY <1>1, <1>4 DEF StatsHears, StatsGetsReport, LoseToStats, RestartStats, vars, channels
<1>5. CASE RestartConnector
  <2>1. toClients' = <<>> /\ \A a \in Address : session'[a] = None
    BY <1>5 DEF RestartConnector
  <2> QED
    BY <2>1 DEF ToldInv, NoneFor, Current
<1>6. CASE RestartCore
  BY <1>6 DEF RestartCore, ToldInv
<1>7. ASSUME NEW a \in Address, Misdirect(a) PROVE ToldInv'
  <2>1. /\ UNCHANGED <<session, told, toCore, toClients>>
        /\ coreMissed' = coreMissed \cup ({a} \cap heard)
        /\ \A b \in Address : b # a => client'[b] = client[b]
    BY <1>7 DEF Misdirect, CoreMisses, channels, SyncInv, TypeInv, TypeOK
  <2>2. told[a] # NoIsland => ~Current(a)'
    BY <1>7, <2>1 DEF SyncInv, PlacedInv, Current
  <2>3. \A b \in Address : Current(b)' => Current(b)
    BY <2>1 DEF Current
  <2> QED
    BY <2>1, <2>2, <2>3 DEF SyncInv, ToldInv
<1> QED
  BY <1>2, <1>3, <1>4, <1>5, <1>6, <1>7

LEMMA InitSync == Init => SyncInv
<1> SUFFICES ASSUME Init PROVE CoreInv /\ PlacedInv /\ ToldInv
  BY InitTypes DEF SyncInv
<1> QED
  BY DEF Init, Feed!Init, Feed!Assignment!Init, CoreInv, PlacedInv, ToldInv, Over, EndsLast

LEMMA NextSync == SyncInv /\ [Next]_vars => SyncInv'
<1> SUFFICES ASSUME SyncInv, [Next]_vars PROVE SyncInv'
  OBVIOUS
<1>1. TypeInv' /\ PlacedInv'
  BY NextTypes, NextPlaced DEF SyncInv
<1>2. CoreInv'
  BY GatewayCore, CoreHearsCore, RestCore DEF SyncInv, Next, Core, Fault
<1>3. ToldInv'
  BY GatewayTold, CoreHearsTold, TellTold, DeliverTold, RestTold DEF Next, Core, Fault
<1> QED
  BY <1>1, <1>2, <1>3 DEF SyncInv

\* Once what was under way has arrived, a session knows the island that core has
\* its address on, although island changes are addressed to wallets: through
\* sessions that replace one another, losses and restarts, unless core missed the
\* end of the session before it or the island change itself.
THEOREM SessionsInSync == Spec => []InSync
<1>1. SyncInv => InSync
  <2> SUFFICES ASSUME SyncInv, Settled, NEW a \in Address \ coreMissed, session[a] # None,
                      assign[a] # NoIsland
               PROVE  client[a] = assign[a]
    BY DEF InSync
  <2>1. told[a] = assign[a]
    BY DEF Settled
  <2>2. ~LastOf(toClients, a, told[a]) /\ ~EndIn(toCore, a)
    BY DEF Settled, LastOf, EndIn
  <2> QED
    BY <2>1, <2>2 DEF SyncInv, ToldInv, Current
<1> QED
  BY <1>1, InitSync, NextSync, PTL DEF Spec

==============================================================================
