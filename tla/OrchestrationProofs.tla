------------------------ MODULE OrchestrationProofs ------------------------
(***************************************************************************)
(* Proofs about module Orchestration, for every list of tracks, every      *)
(* choice of aliases and every number of connections: datagrams reach the  *)
(* right track, go out under an alias the server was told, in the order of *)
(* their object ids and with no audio of an earlier connection, and every  *)
(* connection asks for each track once.                                    *)
(*                                                                         *)
(* None of the five is inductive.  OrchInv adds what one party knows of    *)
(* another: what is pending in the control stream, what send_data() holds  *)
(* between its steps, and that nothing of a connection is left when the    *)
(* next one starts.                                                        *)
(***************************************************************************)
EXTENDS Orchestration, FiniteSetTheorems, WellFoundedInduction, TLAPS

\* A set of naturals that is not empty has a least element.
LEMMA LeastNatural ==
    ASSUME NEW T, T \subseteq Nat, T # {}
    PROVE  \E n \in T : \A m \in T : n <= m
<1> DEFINE R == OpToRel(<, Nat)
<1>1. IsWellFoundedOn(R, Nat)
  BY NatLessThanWellFounded, Zenon
<1>2. \A x, y \in Nat : y < x => <<y, x>> \in R
  BY Zenon DEF OpToRel
<1> HIDE DEF R
<1>3. \E x \in T : \A y \in T : ~ (<<y, x>> \in R)
  BY <1>1, WFMin
<1>4. PICK x \in T : \A y \in T : ~ (<<y, x>> \in R)
  BY <1>3
<1>5. ASSUME NEW y \in T PROVE x <= y
  <2>1. ~ (y < x)
    BY <1>2, <1>4
  <2> QED
    BY <2>1
<1> QED
  BY <1>5

----------------------------------------------------------------------------
(* The inductive invariant *)

Request == [type : {"SUBSCRIBE", "ANNOUNCE"}, id : Nat, track : Tracks, jwt : BOOLEAN]

Message ==
    [type : {"SERVER_SETUP", "OTHER"}]
        \cup [type : {"SUBSCRIBE_OK"}, id : Nat, alias : Aliases]
        \cup [type : {"SUBSCRIBE_ERROR"}, id : Nat]
        \cup [type : {"SUBSCRIBE"}, id : Nat, ns : STRING]

Object == [alias : Nat, id : Nat, era : Nat, torn : BOOLEAN]

Building == [at : {"build"}, track : Outbound \cap Data, torn : BOOLEAN]
Built    == [at : {"send"}, track : Outbound \cap Data, torn : BOOLEAN, alias : Nat, id : Nat]

\* A write_audio() that has found its ring full finds a block to make room with.
FoundFull == \A t \in Tracks : writing[t] = "full" /\ ~slipped[t] => ring[t] # <<>>

Types ==
    /\ next_request_id \in Nat /\ next_track_alias \in Nat \ {0}
    /\ moq_track_alias \in [Tracks -> Nat] /\ next_object_id \in [Tracks -> Nat]
    /\ \A i \in DOMAIN request_id_map : request_id_map[i] \in Tracks
    /\ ring \in [Tracks -> Seq(Nat)]
    /\ sending \in {NotSending} \cup Building \cup Built
    /\ era \in Nat /\ asks \in Nat
    /\ control \in Seq(Message) /\ requests \in Seq(Request)
    /\ granted \subseteq Aliases \X Inbound
    /\ sent \in [Tracks -> Seq(Object)]
    /\ slipped \in [Tracks -> BOOLEAN] /\ writing \in [Tracks -> {"no", "full", "room"}]
    /\ FoundFull

\* A connection that is closed has no server, ...
Closed ==
    ~open => /\ requests = <<>> /\ granted = {} /\ asked = {} /\ replies = {} /\ routed = {}
             /\ sent = [t \in Tracks |-> <<>>]

\* ... without a transport nothing is left of one, and a send_data() that is still
\* under way knows it, ...
Fresh ==
    phase \in {"idle", "down"} =>
        /\ ~open /\ control = <<>>
        /\ inbound_alias_map = <<>> /\ moq_track_alias = [t \in Tracks |-> 0]
        /\ ~orchestration_started
        /\ sending # NotSending => sending.torn

\* ... and nothing is asked for, or granted, before start_orchestration().
NotYet == ~orchestration_started => requests = <<>> /\ granted = {} /\ ~first_subscribe_sent

Life == Closed /\ Fresh /\ NotYet

\* request_id_map_ has the requests, a SUBSCRIBE_OK that is on its way tells of a
\* grant, and inbound_alias_map_ has grants only, which differ in their aliases.
RequestsKnown ==
    \A i \in DOMAIN requests :
        /\ requests[i].id \in DOMAIN request_id_map
        /\ request_id_map[requests[i].id] = requests[i].track
        /\ requests[i].type = "SUBSCRIBE" => requests[i].track \in Inbound

GrantsTold ==
    open => \A i \in DOMAIN control : control[i].type = "SUBSCRIBE_OK" =>
        /\ control[i].id \in DOMAIN request_id_map
        /\ <<control[i].alias, request_id_map[control[i].id]>> \in granted

AliasesGranted ==
    open => \A a \in DOMAIN inbound_alias_map : <<a, inbound_alias_map[a]>> \in granted

GrantsDiffer == \A g, h \in granted : g[1] = h[1] => g[2] = h[2]

Routing == RequestsKnown /\ GrantsTold /\ AliasesGranted /\ GrantsDiffer /\ RoutedRight

\* The server was told that alias stands for t, or the session thread is telling it.
Told(t, alias) == \E p \in replies \cup replying : p[2] = alias /\ <<p[1], t>> \in asked

\* A SUBSCRIBE that is on its way is for a track of ours, and the server was told
\* every alias an outbound track has, or that send_data() has picked up.
AsksKnown ==
    open => \A i \in DOMAIN control : control[i].type = "SUBSCRIBE" =>
        \E t \in Outbound : tracks[t].ns = control[i].ns /\ <<control[i].id, t>> \in asked

AliasesTold ==
    open => \A t \in Outbound : moq_track_alias[t] # 0 => Told(t, moq_track_alias[t])

SendingTold ==
    /\ sending \in Building /\ ~sending.torn => moq_track_alias[sending.track] # 0
    /\ sending \in Built /\ ~sending.torn /\ open => Told(sending.track, sending.alias)

Telling == AsksKnown /\ AliasesTold /\ SendingTold /\ SentAsTold

\* What was sent has an id below the next one, and below the one that send_data()
\* has taken and not sent yet.
Ids ==
    /\ \A t \in Tracks : \A i \in DOMAIN sent[t] :
          ~sent[t][i].torn => sent[t][i].id < next_object_id[t]
    /\ sending \in Built /\ ~sending.torn =>
          /\ sending.id < next_object_id[sending.track]
          /\ \A i \in DOMAIN sent[sending.track] :
                ~sent[sending.track][i].torn => sent[sending.track][i].id < sending.id
    /\ ObjectsInOrder

\* The rings that no flush() and no overflow has met in the middle of a write hold
\* audio of this connection.
Eras ==
    /\ \A t \in Tracks : ~slipped[t] => \A i \in DOMAIN ring[t] : ring[t][i] = era
    /\ FreshAudio

OrchInv == Types /\ Life /\ Routing /\ Telling /\ Ids /\ Eras /\ RequestedOnce

----------------------------------------------------------------------------
(* Lemmas about the operators *)

\* Increasing sequences of all the numbers in S.
Increasing(S, k) ==
    {s \in [1 .. k -> S] : /\ \A i, j \in 1 .. k : i < j => s[i] < s[j]
                           /\ \A x \in S : \E i \in 1 .. k : s[i] = x}

\* Every set of numbers up to n has one, by induction on n.
LEMMA IncreasingExists ==
    ASSUME NEW n \in Nat, NEW S \in SUBSET (1 .. n)
    PROVE  \E k \in Nat : Increasing(S, k) # {}
<1> DEFINE Bad == {m \in Nat : \E U \in SUBSET (1 .. m) : \A k \in Nat : Increasing(U, k) = {}}
<1> SUFFICES Bad = {}
  OBVIOUS
<1> SUFFICES ASSUME Bad # {} PROVE FALSE
  OBVIOUS
<1>1. PICK m \in Bad : \A l \in Bad : m <= l
  BY LeastNatural
<1>2. PICK U \in SUBSET (1 .. m) : \A k \in Nat : Increasing(U, k) = {}
  BY <1>1
<1>3. m # 0
  <2> SUFFICES ASSUME m = 0 PROVE FALSE
    OBVIOUS
  <2>1. U = {}
    BY <1>2
  <2>2. <<>> \in Increasing(U, 0)
    BY <2>1 DEF Increasing
  <2> QED
    BY <1>2, <2>2
<1>4. m - 1 \in Nat /\ m - 1 \notin Bad
  <2>1. m \in Nat /\ m - 1 \in Nat /\ ~(m <= m - 1)
    BY <1>3
  <2> QED
    BY <1>1, <2>1, Zenon
<1> DEFINE V == U \ {m}
<1>5. m \in Nat /\ V \in SUBSET (1 .. (m - 1))
  BY <1>2, <1>4
<1>6. PICK k \in Nat : Increasing(V, k) # {}
  BY <1>4, <1>5, Zenon
<1>7. PICK s : s \in Increasing(V, k)
  BY <1>6
<1>8. CASE m \in U
  <2> DEFINE z == [i \in 1 .. (k + 1) |-> IF i = k + 1 THEN m ELSE s[i]]
  <2>1. \A i \in 1 .. k : z[i] = s[i] /\ s[i] \in V
    BY <1>7 DEF Increasing
  <2>2. z[k + 1] = m
    OBVIOUS
  <2>3. z \in [1 .. (k + 1) -> U]
    <3> SUFFICES ASSUME NEW i \in 1 .. (k + 1) PROVE z[i] \in U
      OBVIOUS
    <3>1. i = k + 1 \/ i \in 1 .. k
      OBVIOUS
    <3> QED
      BY <1>8, <2>1, <2>2, <3>1
  <2>4. ASSUME NEW i \in 1 .. (k + 1), NEW j \in 1 .. (k + 1), i < j PROVE z[i] < z[j]
    <3>1. i \in 1 .. k
      BY <2>4
    <3>2. CASE j = k + 1
      <4>1. s[i] \in 1 .. (m - 1)
        BY <2>1, <3>1, <1>5
      <4> QED
        BY <4>1, <3>2, <2>1, <3>1, <2>2, <1>5
    <3>3. CASE j # k + 1
      <4>1. j \in 1 .. k
        BY <3>3
      <4>2. s[i] < s[j]
        BY <4>1, <3>1, <2>4, <1>7 DEF Increasing
      <4> QED
        BY <4>1, <4>2, <2>1, <3>1
    <3> QED
      BY <3>2, <3>3
  <2>5. ASSUME NEW x \in U PROVE \E i \in 1 .. (k + 1) : z[i] = x
    <3>1. CASE x = m
      BY <3>1, <2>2
    <3>2. CASE x # m
      <4>1. PICK i \in 1 .. k : s[i] = x
        BY <3>2, <1>7 DEF Increasing
      <4> QED
        BY <4>1, <2>1
    <3> QED
      BY <3>1, <3>2
  <2> HIDE DEF z
  <2>6. z \in Increasing(U, k + 1)
    BY <2>3, <2>4, <2>5 DEF Increasing
  <2> QED
    BY <2>6, <1>2
<1>9. CASE m \notin U
  BY <1>9, <1>6, <1>2
<1> QED
  BY <1>8, <1>9

\* Ascending(S) is in increasing order and has as many numbers as S.
LEMMA AscendingIs ==
    ASSUME NEW n \in Nat, NEW S \in SUBSET (1 .. n)
    PROVE  /\ Cardinality(S) \in Nat
           /\ Ascending(S) \in [1 .. Cardinality(S) -> S]
           /\ \A i, j \in 1 .. Cardinality(S) : i < j => Ascending(S)[i] < Ascending(S)[j]
<1>1. PICK k \in Nat : Increasing(S, k) # {}
  BY IncreasingExists
<1>2. PICK s : s \in Increasing(S, k)
  BY <1>1
<1>3. s \in Bijection(1 .. k, S)
  <2>1. s \in [1 .. k -> S]
    BY <1>2 DEF Increasing
  <2>2. \A i, j \in 1 .. k : s[i] = s[j] => i = j
    <3> SUFFICES ASSUME NEW i \in 1 .. k, NEW j \in 1 .. k, s[i] = s[j], i # j PROVE FALSE
      OBVIOUS
    <3>1. i < j \/ j < i
      OBVIOUS
    <3>2. s[i] < s[j] \/ s[j] < s[i]
      BY <3>1, <1>2 DEF Increasing
    <3>3. s[i] \in 1 .. n /\ s[j] \in 1 .. n
      BY <2>1
    <3> QED
      BY <3>2, <3>3
  <2>3. \A x \in S : \E i \in 1 .. k : s[i] = x
    BY <1>2 DEF Increasing
  <2> QED
    BY <2>1, <2>2, <2>3 DEF Bijection, Injection, IsInjective, Surjection
<1>4. IsFiniteSet(1 .. k) /\ Cardinality(1 .. k) = k
  BY FS_Interval
<1>5. Cardinality(S) = k
  BY <1>3, <1>4, FS_Bijection DEF ExistsBijection
<1>6. s \in [1 .. Cardinality(S) -> S] /\ \A i, j \in DOMAIN s : i < j => s[i] < s[j]
  BY <1>2, <1>5 DEF Increasing
<1>7. /\ Ascending(S) \in [1 .. Cardinality(S) -> S]
      /\ \A i, j \in DOMAIN Ascending(S) : i < j => Ascending(S)[i] < Ascending(S)[j]
  BY <1>6, Zenon DEF Ascending
<1> QED
  BY <1>5, <1>7

\* Every track has one direction.
LEMMA TrackSets ==
    /\ Len(tracks) \in Nat /\ Tracks = 1 .. Len(tracks)
    /\ Inbound \in SUBSET (1 .. Len(tracks)) /\ Outbound \in SUBSET (1 .. Len(tracks))
    /\ Inbound \cap Outbound = {}
BY TracksAssumption DEF Tracks, Inbound, Outbound

\* The order in which start_orchestration() asks.
Order == Ascending(Inbound) \o Ascending(Outbound)

\* start_orchestration() goes through the tracks in an order, none of them twice.
LEMMA OrderIs ==
    /\ Order \in Seq(Tracks)
    /\ \A i, j \in DOMAIN Order : i # j => Order[i] # Order[j]
<1> DEFINE I == Ascending(Inbound)
           O == Ascending(Outbound)
<1>1. /\ Cardinality(Inbound) \in Nat
      /\ I \in [1 .. Cardinality(Inbound) -> Inbound]
      /\ \A i, j \in 1 .. Cardinality(Inbound) : i < j => I[i] < I[j]
  BY TrackSets, AscendingIs, Zenon
<1>2. /\ Cardinality(Outbound) \in Nat
      /\ O \in [1 .. Cardinality(Outbound) -> Outbound]
      /\ \A i, j \in 1 .. Cardinality(Outbound) : i < j => O[i] < O[j]
  BY TrackSets, AscendingIs, Zenon
<1>3. Order = I \o O
  BY DEF Order
<1> HIDE DEF I, O
<1>4. PICK a \in Nat : a = Cardinality(Inbound)
  BY <1>1
<1>5. PICK b \in Nat : b = Cardinality(Outbound)
  BY <1>2
<1>6. I \in [1 .. a -> Tracks] /\ O \in [1 .. b -> Tracks]
  BY <1>1, <1>2, <1>4, <1>5, TrackSets
<1>7. I \in Seq(Tracks) /\ O \in Seq(Tracks) /\ Len(I) = a /\ Len(O) = b
  BY <1>6
<1>8. /\ Order \in Seq(Tracks) /\ DOMAIN Order = 1 .. (a + b)
      /\ \A i \in 1 .. a : Order[i] = I[i]
      /\ \A i \in (a + 1) .. (a + b) : Order[i] = O[i - a]
  <2>1. Order \in Seq(Tracks)
    BY <1>3, <1>7
  <2>2. Len(Order) = a + b
    <3>1. \A s, z \in Seq(Tracks) : Len(s \o z) = Len(s) + Len(z)
      OBVIOUS
    <3> QED
      BY <1>3, <1>7, <3>1
  <2>3. DOMAIN Order = 1 .. (a + b)
    BY <2>1, <2>2
  <2>4. \A i \in 1 .. a : Order[i] = I[i]
    BY <1>3, <1>7
  <2>5. \A i \in (a + 1) .. (a + b) : Order[i] = O[i - a]
    BY <1>3, <1>7
  <2> QED
    BY <2>1, <2>3, <2>4, <2>5
<1>9. \A i \in 1 .. a : I[i] \in Inbound
  BY <1>1, <1>4
<1>10. \A i \in 1 .. b : O[i] \in Outbound
  BY <1>2, <1>5
<1>11. ASSUME NEW i \in DOMAIN Order, NEW j \in DOMAIN Order, i < j PROVE Order[i] # Order[j]
  <2>1. CASE j <= a
    <3>1. i \in 1 .. a /\ j \in 1 .. a
      BY <2>1, <1>8, <1>11
    <3>2. I[i] < I[j]
      BY <3>1, <1>1, <1>4, <1>11
    <3> QED
      BY <3>1, <3>2, <1>8, <1>9, TrackSets
  <2>2. CASE i <= a /\ j > a
    <3>1. i \in 1 .. a /\ j \in (a + 1) .. (a + b) /\ j - a \in 1 .. b
      BY <2>2, <1>8
    <3>2. Order[i] \in Inbound /\ Order[j] \in Outbound
      BY <3>1, <1>8, <1>9, <1>10
    <3> QED
      BY <3>2, TrackSets
  <2>3. CASE i > a
    <3>1. /\ i \in (a + 1) .. (a + b) /\ j \in (a + 1) .. (a + b)
          /\ i - a \in 1 .. b /\ j - a \in 1 .. b /\ i - a < j - a
      BY <2>3, <1>8, <1>11
    <3>2. O[i - a] < O[j - a]
      BY <3>1, <1>2, <1>5
    <3>3. O[i - a] \in 1 .. Len(tracks) /\ O[j - a] \in 1 .. Len(tracks)
      BY <3>1, <1>10, TrackSets
    <3> QED
      BY <3>1, <3>2, <3>3, <1>8
  <2> QED
    BY <2>1, <2>2, <2>3, <1>8
<1> QED
  <2>1. \A i, j \in DOMAIN Order : i # j => i < j \/ j < i
    BY <1>8
  <2> QED
    BY <1>8, <1>11, <2>1

\* What start_orchestration() asks for: every request has its own id and track.
LEMMA NewRequestsAre ==
    ASSUME next_request_id \in Nat, ~first_subscribe_sent
    PROVE  /\ NewRequests \in Seq(Request)
           /\ \A i \in DOMAIN NewRequests :
                 /\ NewRequests[i].type = "SUBSCRIBE" => NewRequests[i].track \in Inbound
                 /\ NewRequests[i].jwt <=> (i = 1 /\ NewRequests[i].type = "SUBSCRIBE")
           /\ \A i, j \in DOMAIN NewRequests : i # j =>
                 /\ NewRequests[i].id # NewRequests[j].id
                 /\ NewRequests[i].track # NewRequests[j].track
<1>1. PICK k \in Nat : DOMAIN Order = 1 .. k /\ \A i \in 1 .. k : Order[i] \in Tracks
  BY OrderIs
<1>2. PICK id \in Nat : id = next_request_id
  OBVIOUS
<1>3. NewRequests = [i \in 1 .. k |->
          [type  |-> IF Order[i] \in Inbound THEN "SUBSCRIBE" ELSE "ANNOUNCE",
           id    |-> id + 2 * (i - 1),
           track |-> Order[i],
           jwt   |-> Order[i] \in Inbound /\ i = 1]]
  BY <1>1, <1>2, Zenon DEF NewRequests, Order
<1>4. \A i \in 1 .. k : id + 2 * (i - 1) \in Nat
  OBVIOUS
<1>5. \A i \in 1 .. k : NewRequests[i] \in Request
  BY <1>1, <1>3, <1>4 DEF Request
<1>6. DOMAIN NewRequests = 1 .. k /\ NewRequests \in [1 .. k -> Request]
  BY <1>3, <1>5
<1>7. NewRequests \in Seq(Request)
  BY <1>6
<1>8. \A i \in 1 .. k :
        /\ NewRequests[i].type = "SUBSCRIBE" => NewRequests[i].track \in Inbound
        /\ NewRequests[i].jwt <=> (i = 1 /\ NewRequests[i].type = "SUBSCRIBE")
  BY <1>3
<1>9. ASSUME NEW i \in 1 .. k, NEW j \in 1 .. k, i # j
      PROVE  /\ NewRequests[i].id # NewRequests[j].id
             /\ NewRequests[i].track # NewRequests[j].track
  <2>1. NewRequests[i].id = id + 2 * (i - 1) /\ NewRequests[j].id = id + 2 * (j - 1)
    BY <1>3
  <2>2. NewRequests[i].track = Order[i] /\ NewRequests[j].track = Order[j]
    BY <1>3
  <2>3. Order[i] # Order[j]
    BY <1>1, <1>9, OrderIs
  <2> QED
    BY <2>1, <2>2, <2>3, <1>9
<1> QED
  BY <1>6, <1>7, <1>8, <1>9

\* request_id_map_ gets them.
LEMMA NewIdsAre ==
    ASSUME next_request_id \in Nat, ~first_subscribe_sent
    PROVE  /\ \A i \in DOMAIN NewRequests :
                 /\ NewRequests[i].id \in DOMAIN NewIds
                 /\ NewIds[NewRequests[i].id] = NewRequests[i].track
           /\ \A x \in DOMAIN NewIds : NewIds[x] \in Tracks
<1> DEFINE R == Range(NewRequests)
<1>1. ASSUME NEW r \in R PROVE r.track \in Tracks
  <2>1. PICK i \in DOMAIN NewRequests : r = NewRequests[i]
    BY DEF Range
  <2>2. r \in Request
    BY <2>1, NewRequestsAre
  <2> QED
    BY <2>2 DEF Request
<1>2. \A r, q \in R : r.id = q.id => r.track = q.track
  BY NewRequestsAre DEF Range
<1>3. \A i \in DOMAIN NewRequests : NewRequests[i] \in R
  BY DEF Range
<1>4. NewIds = [i \in {r.id : r \in R} |-> (CHOOSE r \in R : r.id = i).track]
  BY DEF NewIds
<1> HIDE DEF R
<1>5. ASSUME NEW q \in R
      PROVE  /\ q.id \in DOMAIN NewIds
             /\ NewIds[q.id] = q.track
  <2>1. q.id \in {r.id : r \in R}
    OBVIOUS
  <2>2. \E r \in R : r.id = q.id
    OBVIOUS
  <2>3. PICK r : r = CHOOSE s \in R : s.id = q.id
    OBVIOUS
  <2>4. r \in R /\ r.id = q.id
    BY <2>2, <2>3
  <2>5. NewIds[q.id] = r.track
    BY <1>4, <2>1, <2>3, Zenon
  <2> QED
    BY <1>2, <1>4, <2>1, <2>4, <2>5
<1>6. ASSUME NEW x \in DOMAIN NewIds PROVE NewIds[x] \in Tracks
  <2>1. PICK q \in R : q.id = x
    BY <1>4
  <2> QED
    BY <2>1, <1>1, <1>5
<1> QED
  BY <1>3, <1>5, <1>6

----------------------------------------------------------------------------
(* The steps *)

\* What send_data() holds is told by where it is.
LEMMA SendingKinds ==
    ASSUME NEW s \in {NotSending} \cup Building \cup Built
    PROVE  /\ s # NotSending => s.track \in Outbound \cap Data /\ s.torn \in BOOLEAN
           /\ s.at = "build" => s \in Building
           /\ s.at = "send" => s \in Built
           /\ s \in Built => s \notin Building /\ s.alias \in Nat /\ s.id \in Nat /\ s # NotSending
           /\ s \in Building => s # NotSending
BY DEF NotSending, Building, Built

\* A send_data() that the teardown meets keeps the step it is at.
LEMMA TornSending ==
    ASSUME NEW s \in Building \cup Built
    PROVE  /\ [s EXCEPT !.torn = TRUE] \in Building \cup Built
           /\ [s EXCEPT !.torn = TRUE].torn
<1>1. CASE s \in Building
  BY <1>1 DEF Building
<1>2. CASE s \in Built
  BY <1>2 DEF Built
<1> QED
  BY <1>1, <1>2

\* What a message is told by its type.
LEMMA MessageKinds ==
    /\ \A m \in Message : m.type = "SUBSCRIBE_OK" => m.id \in Nat /\ m.alias \in Aliases
    /\ [type |-> "SERVER_SETUP"] \in Message /\ [type |-> "OTHER"] \in Message
    /\ \A i \in Nat : \A a \in Aliases : [type |-> "SUBSCRIBE_OK", id |-> i, alias |-> a] \in Message
    /\ \A i \in Nat : [type |-> "SUBSCRIBE_ERROR", id |-> i] \in Message
    /\ \A i \in Nat : \A n \in STRING : [type |-> "SUBSCRIBE", id |-> i, ns |-> n] \in Message
BY DEF Message

\* A SUBSCRIBE the server has not answered is for an inbound track.
LEMMA PendingIs ==
    ASSUME Types, RequestsKnown, NEW r \in Pending
    PROVE  /\ r.id \in Nat /\ r.track \in Inbound
           /\ r.id \in DOMAIN request_id_map /\ request_id_map[r.id] = r.track
<1>1. PICK i \in DOMAIN requests : r = requests[i]
  BY DEF Pending, Range
<1>2. r \in Request
  BY <1>1 DEF Types
<1>3. r.type = "SUBSCRIBE"
  BY DEF Pending
<1> QED
  BY <1>1, <1>2, <1>3 DEF RequestsKnown, Request

\* The frames of a poll have consecutive ids, and their audio was in the ring.
LEMMA FramesAre ==
    ASSUME Types, NEW t \in Tracks, NEW encoded \in SUBSET (1 .. Len(ring[t]))
    PROVE  /\ Cardinality(encoded) \in Nat
           /\ Frames(t, encoded) \in Seq(Object)
           /\ Len(Frames(t, encoded)) = Cardinality(encoded)
           /\ \A i \in 1 .. Cardinality(encoded) :
                 /\ Frames(t, encoded)[i].alias = moq_track_alias[t]
                 /\ Frames(t, encoded)[i].id = next_object_id[t] + (i - 1)
                 /\ ~Frames(t, encoded)[i].torn
                 /\ \E j \in DOMAIN ring[t] : Frames(t, encoded)[i].era = ring[t][j]
<1>1. ring[t] \in Seq(Nat) /\ Len(ring[t]) \in Nat /\ DOMAIN ring[t] = 1 .. Len(ring[t])
  BY DEF Types
<1>2. PICK k : k = Cardinality(encoded)
  OBVIOUS
<1>3. PICK order : order = Ascending(encoded)
  OBVIOUS
<1>4. k \in Nat /\ order \in [1 .. k -> encoded]
  BY <1>1, <1>2, <1>3, AscendingIs, Zenon
<1>5. PICK a \in Nat : a = moq_track_alias[t]
  BY DEF Types
<1>6. PICK n \in Nat : n = next_object_id[t]
  BY DEF Types
<1>7. Frames(t, encoded) =
        [i \in 1 .. k |-> [alias |-> a, id |-> n + i - 1, era |-> ring[t][order[i]], torn |-> FALSE]]
  <2>1. DOMAIN order = 1 .. k
    BY <1>4
  <2> QED
    BY <2>1, <1>3, <1>5, <1>6, Zenon DEF Frames
<1>8. ASSUME NEW i \in 1 .. k
      PROVE  /\ Frames(t, encoded)[i] \in Object
             /\ Frames(t, encoded)[i].alias = a
             /\ Frames(t, encoded)[i].id = n + (i - 1)
             /\ ~Frames(t, encoded)[i].torn
             /\ \E j \in DOMAIN ring[t] : Frames(t, encoded)[i].era = ring[t][j]
  <2>1. order[i] \in DOMAIN ring[t]
    BY <1>1, <1>4
  <2>2. PICK e \in Nat : e = ring[t][order[i]]
    BY <1>1, <2>1
  <2>3. n + i - 1 \in Nat /\ n + i - 1 = n + (i - 1)
    OBVIOUS
  <2>4. Frames(t, encoded)[i] = [alias |-> a, id |-> n + i - 1, era |-> e, torn |-> FALSE]
    BY <1>7, <2>2
  <2> QED
    BY <2>1, <2>2, <2>3, <2>4 DEF Object
<1>9. Frames(t, encoded) \in [1 .. k -> Object]
  BY <1>7, <1>8
<1>10. Frames(t, encoded) \in Seq(Object) /\ Len(Frames(t, encoded)) = k
  BY <1>4, <1>9
<1> QED
  BY <1>2, <1>4, <1>5, <1>6, <1>8, <1>10

\* Whatever a slipped ring seems to hold are blocks of connections.
LEMMA MixedIs ==
    ASSUME era \in Nat, NEW z \in Mixed
    PROVE  z \in Seq(Nat)
<1>1. PICK n \in 0 .. RingBlocks : z \in [1 .. n -> 0 .. era]
  BY DEF Mixed
<1>2. n \in Nat /\ 0 .. era \subseteq Nat
  BY TracksAssumption
<1> QED
  BY <1>1, <1>2

\* A step of write_audio() leaves a ring that is typed, and one that is not slipped
\* holds the new block and older ones.
LEMMA RingSteps ==
    ASSUME Types, NEW t \in Tracks, WriteAudio(t)
    PROVE  /\ ring' \in [Tracks -> Seq(Nat)] /\ UNCHANGED slipped
           /\ \A u \in Tracks : u # t => ring'[u] = ring[u] /\ writing'[u] = writing[u]
           /\ writing' \in [Tracks -> {"no", "full", "room"}] /\ FoundFull'
           /\ ~slipped[t] => \A i \in DOMAIN ring'[t] :
                 ring'[t][i] = era \/ \E j \in DOMAIN ring[t] : ring'[t][i] = ring[t][j]
<1>1. PICK s \in Seq(Nat) : s = ring[t]
  BY DEF Types
<1>2. PICK e \in Nat : e = era
  BY DEF Types
<1>3. ring \in [Tracks -> Seq(Nat)] /\ writing \in [Tracks -> {"no", "full", "room"}]
  BY DEF Types
<1>4. CASE WriteAudioLoad(t)
  <2>1. UNCHANGED <<ring, slipped>>
    BY <1>4 DEF WriteAudioLoad
  <2>2. PICK found \in {"full", "room"} :
           /\ ~slipped[t] => (found = "full" <=> Len(ring[t]) = RingBlocks)
           /\ writing' = [writing EXCEPT ![t] = found]
    BY <1>4 DEF WriteAudioLoad
  <2>3. ~slipped[t] /\ found = "full" => ring[t] # <<>>
    BY <1>1, <2>2, TracksAssumption
  <2>4. FoundFull'
    BY <1>3, <2>1, <2>2, <2>3 DEF FoundFull, Types
  <2> QED
    BY <1>3, <2>1, <2>2, <2>4
<1>5. CASE WriteAudioMakeRoom(t)
  <2>1. UNCHANGED slipped /\ writing' = [writing EXCEPT ![t] = "room"] /\ writing[t] = "full"
    BY <1>5 DEF WriteAudioMakeRoom
  <2>2. PICK z : /\ ring' = [ring EXCEPT ![t] = z]
                 /\ IF slipped[t] THEN z \in Mixed ELSE z = Tail(ring[t])
    BY <1>5 DEF WriteAudioMakeRoom, RingBecomes
  <2>3. ~slipped[t] => z \in Seq(Nat) /\ \A i \in DOMAIN z : \E j \in DOMAIN s : z[i] = s[j]
    <3> SUFFICES ASSUME ~slipped[t]
                 PROVE  z \in Seq(Nat) /\ \A i \in DOMAIN z : \E j \in DOMAIN s : z[i] = s[j]
      OBVIOUS
    <3>1. s # <<>> /\ z = Tail(s)
      BY <1>1, <2>1, <2>2 DEF Types, FoundFull
    <3>2. Tail(s) \in Seq(Nat) /\ \A i \in DOMAIN Tail(s) : i + 1 \in DOMAIN s /\ Tail(s)[i] = s[i + 1]
      BY <3>1
    <3> QED
      BY <3>1, <3>2
  <2>4. slipped[t] => z \in Seq(Nat)
    BY <1>2, <2>2, MixedIs
  <2>5. FoundFull'
    BY <1>3, <2>1, <2>2 DEF FoundFull, Types
  <2> QED
    BY <1>1, <1>3, <2>1, <2>2, <2>3, <2>4, <2>5
<1>6. CASE WriteAudioPut(t)
  <2>1. UNCHANGED slipped /\ writing' = [writing EXCEPT ![t] = "no"]
    BY <1>6 DEF WriteAudioPut
  <2>2. PICK z : /\ ring' = [ring EXCEPT ![t] = z]
                 /\ IF slipped[t] THEN z \in Mixed ELSE z = Append(ring[t], era)
    BY <1>6 DEF WriteAudioPut, RingBecomes
  <2>3. ~slipped[t] => /\ z \in Seq(Nat)
                       /\ \A i \in DOMAIN z : z[i] = e \/ \E j \in DOMAIN s : z[i] = s[j]
    <3>1. /\ Append(s, e) \in Seq(Nat)
          /\ \A i \in DOMAIN Append(s, e) :
                Append(s, e)[i] = e \/ (i \in DOMAIN s /\ Append(s, e)[i] = s[i])
      OBVIOUS
    <3> QED
      BY <1>1, <1>2, <2>2, <3>1
  <2>4. slipped[t] => z \in Seq(Nat)
    BY <1>2, <2>2, MixedIs
  <2>5. FoundFull'
    BY <1>3, <2>1, <2>2 DEF FoundFull, Types
  <2> QED
    BY <1>1, <1>2, <1>3, <2>1, <2>2, <2>3, <2>4, <2>5
<1> QED
  BY <1>4, <1>5, <1>6 DEF WriteAudio

\* The server's SUBSCRIBE to an outbound track is a message of the control stream.
LEMMA AskIs ==
    ASSUME Types, NEW t \in Outbound
    PROVE  [type |-> "SUBSCRIBE", id |-> 2 * asks + 1, ns |-> tracks[t].ns] \in Message
<1> DEFINE TC == [direction : {"Inbound", "Outbound"}, type : {"Audio", "Data"},
                  codec : {"Opus", "PCM"}, ns : STRING]
<1>1. tracks \in Seq(TC)
  BY TracksAssumption
<1>2. t \in 1 .. Len(tracks)
  BY TrackSets
<1>3. \A c \in TC : c.ns \in STRING
  OBVIOUS
<1> HIDE DEF TC
<1>4. tracks[t] \in TC
  BY <1>1, <1>2
<1>5. 2 * asks + 1 \in Nat
  BY DEF Types
<1> QED
  BY <1>3, <1>4, <1>5, MessageKinds

\* On a new connection nothing has been sent on any track.
LEMMA EmptySent == [t \in Tracks |-> <<>>] \in [Tracks -> Seq(Object)]
OBVIOUS

\* Handling a message takes the first one off and leaves the order of the rest.
LEMMA Receiving ==
    ASSUME control \in Seq(Message), NEW type, Receive(type)
    PROVE  /\ Head(control) \in Message /\ 1 \in DOMAIN control /\ Head(control) = control[1]
           /\ control' \in Seq(Message) 
           /\ \A i \in DOMAIN control' : i + 1 \in DOMAIN control /\ control'[i] = control[i + 1]
<1>1. control # <<>> /\ control' = Tail(control)
  BY DEF Receive
<1> QED
  BY <1>1

\* A message of the server comes behind those that wait.
LEMMA Answering ==
    ASSUME control \in Seq(Message), NEW m \in Message, ServerSends(m)
    PROVE  /\ control' \in Seq(Message)
           /\ \A i \in DOMAIN control' :
                 control'[i] = m \/ (i \in DOMAIN control /\ control'[i] = control[i])
<1>1. control' = Append(control, m)
  BY DEF ServerSends
<1> QED
  BY <1>1

\* configure() leaves state of the right types.
LEMMA TypesInit == Init => Types
BY TrackSets, EmptySent DEF Init, Types, FoundFull

\* Every step of host, session thread, server and network keeps the types.
LEMMA TypesStep ==
    ASSUME Types, Life, Routing, Next
    PROVE  Types'
<1> USE DEF moq, rings, server, bounds, FoundFull
<1>1. ASSUME NEW next, StartTransport(next) PROVE Types'
  <2>1. control' \in Seq(Message)
    BY <1>1, MessageKinds DEF StartTransport
  <2> QED
    BY <1>1, <2>1 DEF StartTransport, Types
<1>2. ASSUME NEW next, CloseTransport(next), sending' \in {NotSending} \cup Building \cup Built
      PROVE  Types'
  <2>1. slipped' \in [Tracks -> BOOLEAN] /\ FoundFull'
    BY <1>2 DEF CloseTransport, FlushRings, Types
  <2>2. UNCHANGED writing /\ ring' \in [Tracks -> Seq(Nat)]
    BY <1>2 DEF CloseTransport, FlushRings
  <2> QED
    BY <1>2, <2>1, <2>2, EmptySent DEF CloseTransport, reset_moq_state, NewServer, Types
<1>3. CASE Connect \/ Reconnect
  BY <1>1, <1>3 DEF Connect, Reconnect
<1>4. CASE Teardown
  <2>1. sending' \in {NotSending} \cup Building \cup Built
    BY <1>4, TornSending DEF Teardown, Types
  <2> QED
    BY <1>2, <1>4, <2>1 DEF Teardown
<1>5. CASE Disconnect
  BY <1>2, <1>5 DEF Disconnect, Types
<1>6. CASE ConnectionDies
  BY <1>6, EmptySent DEF ConnectionDies, NewServer, Types
<1>7. CASE NoticeLoss
  BY <1>7 DEF NoticeLoss, Types
<1>8. CASE StartOrchestration
  <2>1. next_request_id \in Nat /\ ~first_subscribe_sent
    BY <1>8 DEF StartOrchestration, Types, Life, NotYet
  <2>2. NewRequests \in Seq(Request)
    BY <2>1, NewRequestsAre
  <2>3. next_request_id' \in Nat
    BY <1>8, <2>1, <2>2 DEF StartOrchestration
  <2>4. requests' \in Seq(Request)
    BY <1>8, <2>2 DEF StartOrchestration, OnWire, Types
  <2>5. \A i \in DOMAIN request_id_map' : request_id_map'[i] \in Tracks
    BY <1>8, <2>1, NewIdsAre DEF StartOrchestration, Assign, Types
  <2> QED
    BY <1>8, <2>3, <2>4, <2>5 DEF StartOrchestration, Types
<1>9. CASE HandleServerSetup \/ HandleSubscribeError \/ HandleOther
  <2>1. control' \in Seq(Message)
    BY <1>9, Receiving DEF HandleServerSetup, HandleSubscribeError, HandleOther, Types
  <2> QED
    BY <1>9, <2>1 DEF HandleServerSetup, HandleSubscribeError, HandleOther, Receive, Types
<1>10. CASE HandleSubscribeOk
  <2>1. control' \in Seq(Message) /\ Head(control) \in Message
    BY <1>10, Receiving DEF HandleSubscribeOk, Types
  <2>2. Head(control).alias \in Nat
    BY <1>10, <2>1, MessageKinds, TracksAssumption DEF HandleSubscribeOk, Receive
  <2>3. moq_track_alias' \in [Tracks -> Nat]
    BY <1>10, <2>2 DEF HandleSubscribeOk, Types
  <2> QED
    BY <1>10, <2>1, <2>3 DEF HandleSubscribeOk, Receive, Types
<1>11. CASE HandleSubscribe
  <2>1. control' \in Seq(Message)
    BY <1>11, Receiving DEF HandleSubscribe, Types
  <2>2. next_track_alias' \in Nat \ {0}
    BY <1>11 DEF HandleSubscribe, Types
  <2>3. moq_track_alias' \in [Tracks -> Nat]
    BY <1>11 DEF HandleSubscribe, Types
  <2> QED
    BY <1>11, <2>1, <2>2, <2>3 DEF HandleSubscribe, Receive, Types
<1>12. ASSUME NEW t \in Outbound \cap Audio, PollTrack(t) PROVE Types'
  <2>1. t \in Tracks
    BY DEF Outbound
  <2>2. PICK encoded \in SUBSET (1 .. Len(ring[t])) :
           /\ next_object_id' = [next_object_id EXCEPT ![t] = @ + Cardinality(encoded)]
           /\ sent' = OnWire(sent, [sent EXCEPT ![t] = @ \o Frames(t, encoded)])
    BY <1>12 DEF PollTrack
  <2>3. Cardinality(encoded) \in Nat /\ Frames(t, encoded) \in Seq(Object)
    BY <2>1, FramesAre DEF Types
  <2>4. next_object_id' \in [Tracks -> Nat]
    BY <2>1, <2>2, <2>3 DEF Types
  <2>5. sent' \in [Tracks -> Seq(Object)]
    BY <2>1, <2>2, <2>3 DEF OnWire, Types
  <2>6. ring' \in [Tracks -> Seq(Nat)]
    BY <1>12, <2>1 DEF PollTrack, Types
  <2>7. slipped' \in [Tracks -> BOOLEAN] /\ FoundFull'
    BY <1>12, <2>1 DEF PollTrack, Types
  <2> QED
    BY <1>12, <2>4, <2>5, <2>6, <2>7 DEF PollTrack, Types
<1>13. ASSUME NEW t \in Outbound \cap Audio, WriteAudio(t) PROVE Types'
  <2>1. t \in Tracks
    BY DEF Outbound
  <2>2. /\ ring' \in [Tracks -> Seq(Nat)] /\ UNCHANGED slipped
        /\ writing' \in [Tracks -> {"no", "full", "room"}] /\ FoundFull'
    BY <1>13, <2>1, RingSteps
  <2> QED
    BY <1>13, <2>2 DEF WriteAudio, WriteAudioLoad, WriteAudioMakeRoom, WriteAudioPut, Types
<1>14. ASSUME NEW t \in Outbound \cap Data, SendDataCheck(t) PROVE Types'
  <2>1. sending' \in Building
    BY <1>14 DEF SendDataCheck, Building
  <2> QED
    BY <1>14, <2>1 DEF SendDataCheck, Types
<1>15. CASE SendDataBuild
  <2>1. sending.track \in Outbound \cap Data /\ sending.track \in Tracks /\ sending.torn \in BOOLEAN
    BY <1>15, SendingKinds DEF SendDataBuild, Types, NotSending, Outbound
  <2>2. sending' \in Built
    BY <1>15, <2>1 DEF SendDataBuild, Types, Built
  <2>3. next_object_id' \in [Tracks -> Nat]
    BY <1>15, <2>1 DEF SendDataBuild, Types
  <2> QED
    BY <1>15, <2>2, <2>3 DEF SendDataBuild, Types
<1>16. CASE SendDataSend
  <2>1. /\ sending.track \in Tracks /\ sending.torn \in BOOLEAN
        /\ sending.alias \in Nat /\ sending.id \in Nat
    BY <1>16, SendingKinds DEF SendDataSend, Types, NotSending, Outbound
  <2>2. Datagram \in Object
    BY <2>1 DEF Datagram, Object, Types
  <2>3. PICK d \in Object : d = Datagram
    BY <2>2
  <2>4. sent' = sent \/ sent' = [sent EXCEPT ![sending.track] = Append(@, d)]
    BY <1>16, <2>3 DEF SendDataSend, OnWire
  <2>5. sent' \in [Tracks -> Seq(Object)]
    <3>1. \A s \in Seq(Object) : Append(s, d) \in Seq(Object)
      OBVIOUS
    <3>2. sent \in [Tracks -> Seq(Object)]
      BY DEF Types
    <3> QED
      BY <2>1, <2>4, <3>1, <3>2
  <2> QED
    BY <1>16, <2>5 DEF SendDataSend, Types
<1>17. ASSUME NEW r \in Pending, ServerRefuses(r) PROVE Types'
  <2>1. control' \in Seq(Message)
    <3>1. [type |-> "SUBSCRIBE_ERROR", id |-> r.id] \in Message
      BY MessageKinds, PendingIs DEF Routing
    <3> QED
      BY <1>17, <3>1, Answering DEF ServerRefuses, Types
  <2> QED
    BY <1>17, <2>1 DEF ServerRefuses, ServerSends, Types
<1>18. ASSUME NEW r \in Pending, NEW a \in Aliases, ServerGrants(r, a) PROVE Types'
  <2>1. control' \in Seq(Message)
    <3>1. [type |-> "SUBSCRIBE_OK", id |-> r.id, alias |-> a] \in Message
      BY MessageKinds, PendingIs DEF Routing
    <3> QED
      BY <1>18, <3>1, Answering DEF ServerGrants, Types
  <2>2. granted' \subseteq Aliases \X Inbound
    <3>1. r.track \in Inbound
      BY PendingIs DEF Routing
    <3> QED
      BY <1>18, <3>1 DEF ServerGrants, Types
  <2> QED
    BY <1>18, <2>1, <2>2 DEF ServerGrants, ServerSends, Types
<1>19. ASSUME NEW t \in Outbound, ServerSubscribes(t) PROVE Types'
  <2>1. asks' \in Nat
    BY <1>19 DEF ServerSubscribes, Types
  <2>2. control' \in Seq(Message)
    BY <1>19, AskIs, Answering DEF ServerSubscribes, Types
  <2> QED
    BY <1>19, <2>1, <2>2 DEF ServerSubscribes, ServerSends, Types
<1>20. CASE ServerSaysMore
  <2>1. control' \in Seq(Message)
    BY <1>20, MessageKinds, Answering DEF ServerSaysMore, Types
  <2> QED
    BY <1>20, <2>1 DEF ServerSaysMore, ServerSends, Types
<1>21. ASSUME NEW g \in granted, OnDatagram(g[1], g[2]) PROVE Types'
  BY <1>21 DEF OnDatagram, Types
<1>22. CASE SendSubscribeOk
  BY <1>22 DEF SendSubscribeOk, Types
<1> QED
  BY <1>3, <1>4, <1>5, <1>6, <1>7, <1>8, <1>9, <1>10, <1>11, <1>12, <1>13, <1>14, <1>15, <1>16,
     <1>17, <1>18, <1>19, <1>20, <1>21, <1>22
  DEF Next, SessionThread, Host, Server, HandleControl

\* What a sequence holds that was joined or appended to.
LEMMA Joined ==
    ASSUME NEW s \in Seq(Object), NEW z \in Seq(Object)
    PROVE  /\ DOMAIN s = 1 .. Len(s) /\ DOMAIN (s \o z) = 1 .. (Len(s) + Len(z))
           /\ \A i \in DOMAIN (s \o z) :
                 \/ i \in DOMAIN s /\ (s \o z)[i] = s[i]
                 \/ i \notin DOMAIN s /\ i - Len(s) \in DOMAIN z /\ (s \o z)[i] = z[i - Len(s)]
           /\ \A d \in Range(s \o z) : d \in Range(s) \/ \E i \in DOMAIN z : d = z[i]
<1>1. s \o z \in Seq(Object) /\ Len(s \o z) = Len(s) + Len(z)
  OBVIOUS
<1>2. DOMAIN s = 1 .. Len(s) /\ DOMAIN (s \o z) = 1 .. (Len(s) + Len(z))
  BY <1>1
<1>3. ASSUME NEW i \in DOMAIN (s \o z)
      PROVE  \/ i \in DOMAIN s /\ (s \o z)[i] = s[i]
             \/ i \notin DOMAIN s /\ i - Len(s) \in DOMAIN z /\ (s \o z)[i] = z[i - Len(s)]
  BY <1>1, <1>2
<1>4. ASSUME NEW d \in Range(s \o z) PROVE d \in Range(s) \/ \E i \in DOMAIN z : d = z[i]
  <2>1. PICK i \in DOMAIN (s \o z) : d = (s \o z)[i]
    BY DEF Range
  <2> QED
    BY <2>1, <1>3 DEF Range
<1> QED
  BY <1>2, <1>3, <1>4

\* What a track has sent after one more datagram.
LEMMA Appended ==
    ASSUME NEW s \in Seq(Object), NEW d
    PROVE  /\ \A i \in DOMAIN Append(s, d) :
                 (i \in DOMAIN s /\ Append(s, d)[i] = s[i]) \/ (i = Len(s) + 1 /\ Append(s, d)[i] = d)
           /\ \A e \in Range(Append(s, d)) : e \in Range(s) \/ e = d
<1>1. ASSUME NEW i \in DOMAIN Append(s, d)
      PROVE  (i \in DOMAIN s /\ Append(s, d)[i] = s[i]) \/ (i = Len(s) + 1 /\ Append(s, d)[i] = d)
  OBVIOUS
<1>2. ASSUME NEW e \in Range(Append(s, d)) PROVE e \in Range(s) \/ e = d
  <2>1. PICK i \in DOMAIN Append(s, d) : e = Append(s, d)[i]
    BY DEF Range
  <2> QED
    BY <2>1, <1>1 DEF Range
<1> QED
  BY <1>1, <1>2

\* After configure() nothing of a connection exists.
LEMMA LifeInit == Init => Life
BY DEF Init, Life, Closed, Fresh, NotYet

\* Every step keeps the state of a connection to the time that it lasts.
LEMMA LifeStep ==
    ASSUME Types, Life, Next
    PROVE  Life'
<1> USE DEF moq, rings, server, bounds, Life, Closed, Fresh, NotYet
<1>1. CASE Connect \/ Reconnect
  BY <1>1 DEF Connect, Reconnect, StartTransport
<1>2. CASE Teardown
  <2>1. sending' # NotSending => sending'.torn
    BY <1>2, TornSending DEF Teardown, Types
  <2> QED
    BY <1>2, <2>1 DEF Teardown, CloseTransport, reset_moq_state, NewServer
<1>3. CASE Disconnect
  BY <1>3 DEF Disconnect, CloseTransport, reset_moq_state, NewServer
<1>4. CASE ConnectionDies
  BY <1>4 DEF ConnectionDies, NewServer
<1>5. CASE NoticeLoss
  BY <1>5 DEF NoticeLoss
<1>6. CASE StartOrchestration \/ SendSubscribeOk
  BY <1>6 DEF StartOrchestration, SendSubscribeOk, OnWire
<1>7. CASE HandleControl
  BY <1>7 DEF HandleControl, HandleServerSetup, HandleSubscribeOk, HandleSubscribeError,
              HandleSubscribe, HandleOther, Receive, HasTransport
<1>8. ASSUME NEW t \in Outbound \cap Audio, PollTrack(t) \/ WriteAudio(t) PROVE Life'
  BY <1>8 DEF PollTrack, WriteAudio, WriteAudioLoad, WriteAudioMakeRoom, WriteAudioPut, OnWire
<1>9. ASSUME NEW t \in Outbound \cap Data, SendDataCheck(t) PROVE Life'
  BY <1>9 DEF SendDataCheck
<1>10. CASE SendDataBuild
  <2>1. sending' # NotSending => sending'.torn = sending.torn
    BY <1>10 DEF SendDataBuild
  <2>2. sending # NotSending
    BY <1>10 DEF SendDataBuild, NotSending
  <2> QED
    BY <1>10, <2>1, <2>2 DEF SendDataBuild
<1>11. CASE SendDataSend
  BY <1>11 DEF SendDataSend, OnWire
<1>12. CASE Server
  <2>1. orchestration_started \/ granted' = granted
    <3>1. requests = <<>> => Pending = {}
      BY DEF Pending, Range
    <3> QED
      BY <1>12, <3>1 DEF Server, ServerRefuses, ServerSubscribes, ServerSaysMore
  <2>2. /\ open /\ UNCHANGED <<phase, moq, sending, open, requests>>
    BY <1>12 DEF Server, ServerRefuses, ServerGrants, ServerSubscribes, ServerSaysMore, ServerSends
  <2> QED
    BY <2>1, <2>2
<1>13. ASSUME NEW g \in granted, OnDatagram(g[1], g[2]) PROVE Life'
  BY <1>13 DEF OnDatagram
<1> QED
  BY <1>1, <1>2, <1>3, <1>4, <1>5, <1>6, <1>7, <1>8, <1>9, <1>10, <1>11, <1>12, <1>13
  DEF Next, SessionThread, Host

----------------------------------------------------------------------------
(* Routing and requests *)

\* After configure() no alias is granted.
LEMMA RoutingInit == Init => Routing
BY DEF Init, Routing, RequestsKnown, GrantsTold, AliasesGranted, GrantsDiffer, RoutedRight

\* Every step keeps requests, grants, SUBSCRIBE_OKs under way and the alias map in agreement.
LEMMA RoutingStep ==
    ASSUME Types, Life, Routing, Next
    PROVE  Routing'
<1> USE DEF moq, rings, server, bounds, Routing, RequestsKnown, GrantsTold, AliasesGranted, GrantsDiffer,
            RoutedRight
<1>1. CASE Connect \/ Reconnect
  <2>1. /\ ~open /\ inbound_alias_map = <<>>
        /\ requests = <<>> /\ granted = {} /\ routed = {}
    BY <1>1 DEF Connect, Reconnect, Life, Fresh, Closed
  <2>2. UNCHANGED <<inbound_alias_map, requests, granted, routed>>
    BY <1>1 DEF Connect, Reconnect, StartTransport
  <2>3. \A i \in DOMAIN control' : control'[i].type # "SUBSCRIBE_OK"
    BY <1>1 DEF Connect, Reconnect, StartTransport
  <2> QED
    BY <2>1, <2>2, <2>3
<1>2. CASE Teardown \/ Disconnect \/ ConnectionDies
  <2>1. ~open' /\ requests' = <<>> /\ granted' = {} /\ routed' = {}
    BY <1>2 DEF Teardown, Disconnect, ConnectionDies, CloseTransport, NewServer
  <2> QED
    BY <2>1
<1>3. CASE StartOrchestration
  <2>1. requests = <<>> /\ ~first_subscribe_sent /\ next_request_id \in Nat
    BY <1>3 DEF StartOrchestration, Life, NotYet, Types
  <2>2. requests' = <<>> \/ requests' = NewRequests
    BY <1>3, <2>1, NewRequestsAre DEF StartOrchestration, OnWire
  <2>3. /\ \A x \in DOMAIN NewIds : x \in DOMAIN request_id_map' /\ request_id_map'[x] = NewIds[x]
        /\ DOMAIN request_id_map \subseteq DOMAIN request_id_map'
    BY <1>3 DEF StartOrchestration, Assign
  <2>4. RequestsKnown'
    BY <2>1, <2>2, <2>3, NewRequestsAre, NewIdsAre
  <2>5. granted = {}
    BY <1>3 DEF StartOrchestration, Life, NotYet
  <2>6. GrantsTold'
    BY <1>3, <2>5 DEF StartOrchestration
  <2> QED
    BY <1>3, <2>4, <2>6 DEF StartOrchestration
<1>4. CASE HandleServerSetup \/ HandleSubscribeError \/ HandleSubscribe \/ HandleOther
  <2>1. \A i \in DOMAIN control' : i + 1 \in DOMAIN control /\ control'[i] = control[i + 1]
    BY <1>4, Receiving
    DEF HandleServerSetup, HandleSubscribeError, HandleSubscribe, HandleOther, Types
  <2>2. UNCHANGED <<request_id_map, inbound_alias_map, open, requests, granted, routed>>
    BY <1>4 DEF HandleServerSetup, HandleSubscribeError, HandleSubscribe, HandleOther, Receive
  <2> QED
    BY <2>1, <2>2
<1>5. CASE HandleSubscribeOk
  <2>1. /\ 1 \in DOMAIN control /\ Head(control) = control[1]
        /\ \A i \in DOMAIN control' : i + 1 \in DOMAIN control /\ control'[i] = control[i + 1]
    BY <1>5, Receiving DEF HandleSubscribeOk, Types
  <2>2. UNCHANGED <<request_id_map, open, requests, granted, routed>>
    BY <1>5 DEF HandleSubscribeOk, Receive
  <2>3. AliasesGranted'
    <3> SUFFICES ASSUME open, NEW a \in DOMAIN inbound_alias_map'
                 PROVE  <<a, inbound_alias_map'[a]>> \in granted
      BY <2>2
    <3>1. /\ control[1].id \in DOMAIN request_id_map
          /\ <<control[1].alias, request_id_map[control[1].id]>> \in granted
      BY <1>5, <2>1 DEF HandleSubscribeOk, Receive
    <3>2. \/ a = control[1].alias /\ inbound_alias_map'[a] = request_id_map[control[1].id]
          \/ a \in DOMAIN inbound_alias_map /\ inbound_alias_map'[a] = inbound_alias_map[a]
      BY <1>5, <2>1, <3>1 DEF HandleSubscribeOk, Assign
    <3> QED
      BY <3>1, <3>2
  <2> QED
    BY <2>1, <2>2, <2>3
<1>6. ASSUME NEW r \in Pending, NEW a \in Aliases, ServerGrants(r, a) PROVE Routing'
  <2>1. /\ r.id \in Nat /\ r.track \in Inbound
        /\ r.id \in DOMAIN request_id_map /\ request_id_map[r.id] = r.track
    BY PendingIs
  <2>2. [type |-> "SUBSCRIBE_OK", id |-> r.id, alias |-> a] \in Message
    BY <2>1, MessageKinds
  <2>3. PICK m : m = [type |-> "SUBSCRIBE_OK", id |-> r.id, alias |-> a]
    OBVIOUS
  <2>4. \A i \in DOMAIN control' :
            control'[i] = m \/ (i \in DOMAIN control /\ control'[i] = control[i])
    BY <1>6, <2>2, <2>3, Answering DEF ServerGrants, Types
  <2>5. UNCHANGED <<request_id_map, inbound_alias_map, open, requests, routed>>
    BY <1>6 DEF ServerGrants, ServerSends
  <2>6. granted' = granted \cup {<<a, r.track>>} /\ \A g \in granted : g[1] # a
    BY <1>6 DEF ServerGrants
  <2>7. GrantsTold'
    BY <2>1, <2>3, <2>4, <2>5, <2>6
  <2> QED
    BY <2>5, <2>6, <2>7
<1>7. ASSUME NEW m \in Message, m.type # "SUBSCRIBE_OK", ServerSends(m),
             UNCHANGED granted
      PROVE  Routing'
  <2>1. \A i \in DOMAIN control' :
            control'[i] = m \/ (i \in DOMAIN control /\ control'[i] = control[i])
    BY <1>7, Answering DEF Types
  <2>2. UNCHANGED <<request_id_map, inbound_alias_map, open, requests, routed>>
    BY <1>7 DEF ServerSends
  <2> QED
    BY <1>7, <2>1, <2>2
<1>8. ASSUME NEW r \in Pending, ServerRefuses(r) PROVE Routing'
  BY <1>7, <1>8, PendingIs, MessageKinds DEF ServerRefuses
<1>9. ASSUME NEW t \in Outbound, ServerSubscribes(t) PROVE Routing'
  BY <1>7, <1>9, AskIs DEF ServerSubscribes
<1>10. CASE ServerSaysMore
  BY <1>7, <1>10, MessageKinds DEF ServerSaysMore
<1>11. ASSUME NEW g \in granted, OnDatagram(g[1], g[2]) PROVE Routing'
  <2>1. g = <<g[1], g[2]>>
    BY DEF Types
  <2>2. inbound_alias_map[g[1]] = g[2]
    BY <1>11 DEF OnDatagram
  <2> QED
    BY <1>11, <2>2 DEF OnDatagram, Dispatch
<1>12. ASSUME UNCHANGED <<request_id_map, inbound_alias_map, open, control, requests, granted, routed>>
       PROVE  Routing'
  BY <1>12
<1>13. CASE NoticeLoss \/ SendSubscribeOk \/ SendDataBuild \/ SendDataSend
  BY <1>12, <1>13 DEF NoticeLoss, SendSubscribeOk, SendDataBuild, SendDataSend
<1>14. ASSUME NEW t, PollTrack(t) \/ WriteAudio(t) \/ SendDataCheck(t) PROVE Routing'
  BY <1>12, <1>14 DEF PollTrack, WriteAudio, WriteAudioLoad, WriteAudioMakeRoom, WriteAudioPut, SendDataCheck
<1> QED
  BY <1>1, <1>2, <1>3, <1>4, <1>5, <1>6, <1>8, <1>9, <1>10, <1>11, <1>13, <1>14
  DEF Next, SessionThread, Host, Server, HandleControl

\* Every step asks for a track at most once in a connection, under a new id.
LEMMA RequestedStep ==
    ASSUME Types, Life, RequestedOnce, Next
    PROVE  RequestedOnce'
<1> USE DEF moq, rings, server, bounds, RequestedOnce
<1>1. CASE Teardown \/ Disconnect \/ ConnectionDies
  <2>1. requests' = <<>>
    BY <1>1 DEF Teardown, Disconnect, ConnectionDies, CloseTransport, NewServer
  <2> QED
    BY <2>1
<1>2. CASE StartOrchestration
  <2>1. requests = <<>> /\ ~first_subscribe_sent /\ next_request_id \in Nat
    BY <1>2 DEF StartOrchestration, Life, NotYet, Types
  <2>2. requests' = <<>> \/ requests' = NewRequests
    BY <1>2, <2>1, NewRequestsAre DEF StartOrchestration, OnWire
  <2> QED
    BY <2>1, <2>2, NewRequestsAre
<1>3. ASSUME UNCHANGED requests PROVE RequestedOnce'
  BY <1>3
<1>4. CASE Connect \/ Reconnect \/ NoticeLoss \/ SendSubscribeOk \/ SendDataBuild \/ SendDataSend
  BY <1>3, <1>4 DEF Connect, Reconnect, StartTransport, NoticeLoss, SendSubscribeOk, SendDataBuild,
                    SendDataSend
<1>5. CASE HandleControl
  BY <1>3, <1>5 DEF HandleControl, HandleServerSetup, HandleSubscribeOk, HandleSubscribeError,
                    HandleSubscribe, HandleOther, Receive
<1>6. ASSUME NEW t, PollTrack(t) \/ WriteAudio(t) \/ SendDataCheck(t) PROVE RequestedOnce'
  BY <1>3, <1>6 DEF PollTrack, WriteAudio, WriteAudioLoad, WriteAudioMakeRoom, WriteAudioPut, SendDataCheck
<1>7. CASE Server
  BY <1>3, <1>7 DEF Server, ServerRefuses, ServerGrants, ServerSubscribes, ServerSaysMore,
                    ServerSends
<1>8. ASSUME NEW g, OnDatagram(g[1], g[2]) PROVE RequestedOnce'
  BY <1>3, <1>8 DEF OnDatagram
<1> QED
  BY <1>1, <1>2, <1>4, <1>5, <1>6, <1>7, <1>8 DEF Next, SessionThread, Host

----------------------------------------------------------------------------
(* Aliases of what is sent *)

\* After configure() no outbound track has an alias.
LEMMA TellingInit == Init => Telling
BY DEF Init, Telling, AsksKnown, AliasesTold, SendingTold, SentAsTold, Range, NotSending, Building,
       Built

\* Every step uses only aliases that the server was told on this connection.
LEMMA TellingStep ==
    ASSUME Types, Life, Routing, Telling, Next
    PROVE  Telling'
<1> USE DEF moq, rings, server, bounds
<1>0. ASSUME UNCHANGED <<moq_track_alias, open, control, asked, replies, replying, sent, sending>>
      PROVE  Telling'
  BY <1>0 DEF Telling, AsksKnown, AliasesTold, SendingTold, SentAsTold, Told
<1>1. CASE Connect \/ Reconnect
  <2>1. /\ ~open /\ moq_track_alias = [t \in Tracks |-> 0] /\ sent = [t \in Tracks |-> <<>>]
        /\ sending # NotSending => sending.torn
    BY <1>1 DEF Connect, Reconnect, Life, Fresh, Closed
  <2>2. UNCHANGED <<moq_track_alias, sent, sending>>
    BY <1>1 DEF Connect, Reconnect, StartTransport
  <2>3. \A i \in DOMAIN control' : control'[i].type # "SUBSCRIBE"
    BY <1>1 DEF Connect, Reconnect, StartTransport
  <2>4. AsksKnown'
    BY <2>3 DEF AsksKnown
  <2>5. AliasesTold'
    BY <2>1, <2>2, TrackSets DEF AliasesTold
  <2>6. SendingTold'
    BY <2>1, <2>2, SendingKinds DEF SendingTold, Types
  <2>7. SentAsTold'
    BY <2>1, <2>2 DEF SentAsTold, Range
  <2> QED
    BY <2>4, <2>5, <2>6, <2>7 DEF Telling
<1>2. CASE Teardown \/ Disconnect \/ ConnectionDies
  <2>1. ~open' /\ sent' = [t \in Tracks |-> <<>>]
    BY <1>2 DEF Teardown, Disconnect, ConnectionDies, CloseTransport, NewServer
  <2>2. SendingTold'
    <3>1. CASE ConnectionDies
      BY <2>1, <3>1 DEF ConnectionDies, Telling, SendingTold
    <3>2. CASE Teardown
      <4>1. sending' # NotSending => sending'.torn
        BY <3>2, TornSending DEF Teardown, Types
      <4>2. sending' \in Building \/ sending' \in Built => sending' # NotSending
        BY DEF Building, Built, NotSending
      <4> QED
        BY <4>1, <4>2 DEF SendingTold
    <3>3. CASE Disconnect
      <4>1. sending' = NotSending
        BY <3>3 DEF Disconnect
      <4>2. NotSending \notin Building /\ NotSending \notin Built
        BY DEF Building, Built, NotSending
      <4> QED
        BY <4>1, <4>2 DEF SendingTold
    <3> QED
      BY <1>2, <3>1, <3>2, <3>3
  <2> QED
    BY <2>1, <2>2 DEF Telling, AsksKnown, AliasesTold, SentAsTold, Range
<1>3. CASE StartOrchestration \/ NoticeLoss
  BY <1>3, <1>0 DEF StartOrchestration, NoticeLoss
<1>4. CASE HandleServerSetup \/ HandleSubscribeError \/ HandleOther
  <2>1. \A i \in DOMAIN control' : i + 1 \in DOMAIN control /\ control'[i] = control[i + 1]
    BY <1>4, Receiving DEF HandleServerSetup, HandleSubscribeError, HandleOther, Types
  <2>2. UNCHANGED <<moq_track_alias, open, asked, replies, replying, sent, sending>>
    BY <1>4 DEF HandleServerSetup, HandleSubscribeError, HandleOther, Receive
  <2>3. AsksKnown'
    BY <2>1, <2>2 DEF Telling, AsksKnown
  <2> QED
    BY <2>2, <2>3 DEF Telling, AliasesTold, SendingTold, SentAsTold, Told
<1>5. CASE HandleSubscribeOk
  <2>1. /\ Head(control) \in Message /\ 1 \in DOMAIN control /\ Head(control) = control[1]
        /\ \A i \in DOMAIN control' : i + 1 \in DOMAIN control /\ control'[i] = control[i + 1]
    BY <1>5, Receiving DEF HandleSubscribeOk, Types
  <2>2. UNCHANGED <<open, asked, replies, replying, sent, sending>>
    BY <1>5 DEF HandleSubscribeOk, Receive
  <2>3. control[1].type = "SUBSCRIBE_OK"
    BY <1>5, <2>1 DEF HandleSubscribeOk, Receive
  <2>4. control[1].alias # 0
    BY <2>1, <2>3, MessageKinds, TracksAssumption
  <2>5. \A t \in Tracks : moq_track_alias'[t] = moq_track_alias[t] \/ moq_track_alias'[t] # 0
    BY <1>5, <2>1, <2>4 DEF HandleSubscribeOk, Types
  <2>6. open => \A t \in Outbound : moq_track_alias'[t] = moq_track_alias[t]
    <3> SUFFICES ASSUME open, NEW t \in Outbound PROVE moq_track_alias'[t] = moq_track_alias[t]
      OBVIOUS
    <3>1. request_id_map[control[1].id] \in Inbound
      BY <2>1, <2>3 DEF Routing, GrantsTold, Types
    <3>2. request_id_map[control[1].id] # t /\ t \in Tracks
      BY <3>1, TrackSets
    <3> QED
      BY <1>5, <2>1, <3>2, SMTT(30) DEF HandleSubscribeOk, Types
  <2>7. AsksKnown'
    BY <2>1, <2>2 DEF Telling, AsksKnown
  <2>8. AliasesTold'
    BY <2>2, <2>6 DEF Telling, AliasesTold, Told
  <2>9. SendingTold'
    <3>1. sending \in Building => sending.track \in Tracks
      BY SendingKinds, TrackSets DEF Types
    <3> QED
      BY <2>2, <2>5, <3>1 DEF Telling, SendingTold, Told
  <2> QED
    BY <2>2, <2>7, <2>8, <2>9 DEF Telling, SentAsTold
<1>6. CASE HandleSubscribe
  <2>1. /\ Head(control) \in Message /\ 1 \in DOMAIN control /\ Head(control) = control[1]
        /\ \A i \in DOMAIN control' : i + 1 \in DOMAIN control /\ control'[i] = control[i + 1]
    BY <1>6, Receiving DEF HandleSubscribe, Types
  <2>2. UNCHANGED <<open, asked, sent, sending>>
    BY <1>6 DEF HandleSubscribe, Receive
  <2>3. control[1].type = "SUBSCRIBE"
    BY <1>6, <2>1 DEF HandleSubscribe, Receive
  <2>4. replies \cup replying \subseteq (replies \cup replying)'
    BY <1>6 DEF HandleSubscribe, Receive, Looping
  <2>5. ASSUME NEW t \in Tracks
        PROVE  \/ moq_track_alias'[t] = moq_track_alias[t]
               \/ /\ moq_track_alias'[t] = next_track_alias
                  /\ t \in Outbound /\ tracks[t].ns = control[1].ns
                  /\ <<control[1].id, next_track_alias>> \in replying'
    <3> DEFINE matching == {u \in Outbound : tracks[u].ns = control[1].ns}
               u        == CHOOSE u \in matching : \A v \in matching : u <= v
    <3>1. CASE matching # {}
      <4>1. moq_track_alias' = [moq_track_alias EXCEPT ![u] = next_track_alias]
        BY <1>6, <2>1, <3>1 DEF HandleSubscribe
      <4>2. replying' = {<<control[1].id, next_track_alias>>}
        BY <1>6, <2>1, <3>1 DEF HandleSubscribe
      <4>3. u \in matching
        <5>1. matching \subseteq Nat
          <6>1. Outbound \subseteq Nat
            BY TrackSets
          <6> QED
            BY <6>1
        <5>2. \E v \in matching : \A w \in matching : v <= w
          BY <3>1, <5>1, LeastNatural
        <5> HIDE DEF matching
        <5> QED
          BY <5>2
      <4> HIDE DEF u
      <4>4. t = u \/ moq_track_alias'[t] = moq_track_alias[t]
        BY <4>1 DEF Types
      <4>5. t = u => moq_track_alias'[t] = next_track_alias
        BY <4>1 DEF Types
      <4> QED
        BY <4>2, <4>3, <4>4, <4>5
    <3>2. CASE matching = {}
      BY <1>6, <2>1, <3>2 DEF HandleSubscribe
    <3> QED
      BY <3>1, <3>2
  <2>6. AsksKnown'
    BY <2>1, <2>2 DEF Telling, AsksKnown
  <2>7. AliasesTold'
    <3> SUFFICES ASSUME open, NEW t \in Outbound, moq_track_alias'[t] # 0
                 PROVE  Told(t, moq_track_alias[t])'
      BY <2>2 DEF AliasesTold
    <3>1. t \in Tracks
      BY TrackSets
    <3>2. CASE moq_track_alias'[t] = moq_track_alias[t]
      <4>1. Told(t, moq_track_alias[t])
        BY <3>2 DEF Telling, AliasesTold
      <4> QED
        BY <2>2, <2>4, <3>2, <4>1 DEF Told
    <3>3. CASE moq_track_alias'[t] # moq_track_alias[t]
      <4>1. /\ moq_track_alias'[t] = next_track_alias
            /\ t \in Outbound /\ tracks[t].ns = control[1].ns
            /\ <<control[1].id, next_track_alias>> \in replying'
        BY <2>5, <3>1, <3>3
      <4>2. PICK u \in Outbound : tracks[u].ns = control[1].ns /\ <<control[1].id, u>> \in asked
        BY <2>1, <2>3 DEF Telling, AsksKnown
      <4>3. u = t
        BY <4>1, <4>2, TracksAssumption
      <4> QED
        BY <2>2, <4>1, <4>2, <4>3 DEF Told
    <3> QED
      BY <3>2, <3>3
  <2>8. SendingTold'
    <3>1. sending \in Building => sending.track \in Tracks
      BY SendingKinds, TrackSets DEF Types
    <3>2. sending \in Building => (moq_track_alias[sending.track] # 0 => moq_track_alias'[sending.track] # 0)
      BY <2>5, <3>1 DEF Types
    <3> QED
      BY <2>2, <2>4, <3>2 DEF Telling, SendingTold, Told
  <2>9. SentAsTold'
    BY <2>2, <2>4 DEF Telling, SentAsTold
  <2> QED
    BY <2>6, <2>7, <2>8, <2>9 DEF Telling
<1>7. ASSUME NEW t \in Outbound \cap Audio, PollTrack(t) PROVE Telling'
  <2>1. t \in Tracks
    BY TrackSets
  <2>2. UNCHANGED <<moq_track_alias, open, control, asked, replies, replying, sending>>
    BY <1>7 DEF PollTrack
  <2>3. PICK encoded \in SUBSET (1 .. Len(ring[t])) :
           sent' = OnWire(sent, [sent EXCEPT ![t] = @ \o Frames(t, encoded)])
    BY <1>7 DEF PollTrack
  <2>4. PICK f : f = Frames(t, encoded)
    OBVIOUS
  <2>5. f \in Seq(Object) /\ \A i \in DOMAIN f : f[i].alias = moq_track_alias[t]
    <3>1. /\ Cardinality(encoded) \in Nat /\ f \in Seq(Object) /\ Len(f) = Cardinality(encoded)
          /\ \A i \in 1 .. Cardinality(encoded) : f[i].alias = moq_track_alias[t]
      BY <2>1, <2>4, FramesAre, Zenon
    <3> QED
      BY <3>1
  <2>6. SentAsTold'
    <3>1. CASE ~open
      BY <2>2, <2>3, <3>1 DEF OnWire, Telling, SentAsTold
    <3>2. CASE open
      <4>1. Told(t, moq_track_alias[t])
        BY <1>7, <3>2 DEF PollTrack, Telling, AliasesTold
      <4>2. sent' = [sent EXCEPT ![t] = @ \o f]
        BY <2>3, <2>4, <3>2 DEF OnWire
      <4>3. ASSUME NEW u \in Tracks, NEW d \in Range(sent'[u])
            PROVE  d \in Range(sent[u]) \/ (u = t /\ d.alias = moq_track_alias[t])
        BY <2>1, <2>5, <4>2, <4>3, Joined DEF Types
      <4> QED
        BY <2>2, <4>1, <4>3 DEF Telling, SentAsTold, Told
    <3> QED
      BY <3>1, <3>2
  <2> QED
    BY <2>2, <2>6 DEF Telling, AsksKnown, AliasesTold, SendingTold, Told
<1>8. ASSUME NEW t \in Outbound \cap Data, SendDataCheck(t) PROVE Telling'
  <2>1. sending' \in Building /\ sending' \notin Built /\ sending'.track = t
    BY <1>8 DEF SendDataCheck, Building, Built
  <2>2. moq_track_alias[t] # 0
    BY <1>8 DEF SendDataCheck
  <2>3. UNCHANGED <<moq_track_alias, open, control, asked, replies, replying, sent>>
    BY <1>8 DEF SendDataCheck
  <2> QED
    BY <2>1, <2>2, <2>3 DEF Telling, AsksKnown, AliasesTold, SendingTold, SentAsTold, Told
<1>9. CASE SendDataBuild
  <2>1. sending \in Building /\ sending.track \in Outbound
    BY <1>9, SendingKinds DEF SendDataBuild, Types, NotSending
  <2>2. /\ sending' \notin Building /\ sending'.track = sending.track
        /\ sending'.torn = sending.torn /\ sending'.alias = moq_track_alias[sending.track]
    BY <1>9 DEF SendDataBuild, Building
  <2>3. UNCHANGED <<moq_track_alias, open, control, asked, replies, replying, sent>>
    BY <1>9 DEF SendDataBuild
  <2>4. SendingTold'
    BY <2>1, <2>2, <2>3 DEF Telling, AliasesTold, SendingTold, Told
  <2> QED
    BY <2>3, <2>4 DEF Telling, AsksKnown, AliasesTold, SentAsTold, Told
<1>10. CASE SendDataSend
  <2>1. sending \in Built /\ sending.track \in Tracks /\ sending.torn \in BOOLEAN
    BY <1>10, SendingKinds, TrackSets DEF SendDataSend, Types, NotSending
  <2>2. sending' \notin Building /\ sending' \notin Built
    BY <1>10 DEF SendDataSend, NotSending, Building, Built
  <2>3. UNCHANGED <<moq_track_alias, open, control, asked, replies, replying>>
    BY <1>10 DEF SendDataSend
  <2>4. PICK d : d = Datagram
    OBVIOUS
  <2>5. d.alias = sending.alias /\ d.torn = sending.torn
    BY <2>4 DEF Datagram
  <2>6. SentAsTold'
    <3>1. CASE sent' = sent
      BY <2>3, <3>1 DEF Telling, SentAsTold
    <3>2. CASE open /\ sent' = [sent EXCEPT ![sending.track] = Append(@, d)]
      <4>1. ~d.torn => Told(sending.track, d.alias)
        BY <2>1, <2>5, <3>2 DEF Telling, SendingTold
      <4>2. ASSUME NEW u \in Tracks, NEW e \in Range(sent'[u])
            PROVE  e \in Range(sent[u]) \/ (u = sending.track /\ e = d)
        BY <2>1, <3>2, <4>2, Appended DEF Types
      <4> QED
        BY <2>3, <4>1, <4>2 DEF Telling, SentAsTold, Told
    <3> QED
      BY <1>10, <2>4, <3>1, <3>2 DEF SendDataSend, OnWire
  <2> QED
    BY <2>2, <2>3, <2>6 DEF Telling, AsksKnown, AliasesTold, SendingTold, Told
<1>11. ASSUME NEW m \in Message, ServerSends(m), asked \subseteq asked',
              m.type = "SUBSCRIBE" =>
                  \E t \in Outbound : tracks[t].ns = m.ns /\ <<m.id, t>> \in asked'
       PROVE  Telling'
  <2>1. \A i \in DOMAIN control' :
            control'[i] = m \/ (i \in DOMAIN control /\ control'[i] = control[i])
    BY <1>11, Answering DEF Types
  <2>2. UNCHANGED <<moq_track_alias, open, replies, replying, sent, sending>>
    BY <1>11 DEF ServerSends
  <2>3. AsksKnown'
    BY <1>11, <2>1, <2>2 DEF Telling, AsksKnown
  <2>4. AliasesTold'
    BY <1>11, <2>2 DEF Telling, AliasesTold, Told
  <2>5. SendingTold'
    BY <1>11, <2>2 DEF Telling, SendingTold, Told
  <2>6. SentAsTold'
    BY <1>11, <2>2 DEF Telling, SentAsTold
  <2> QED
    BY <2>3, <2>4, <2>5, <2>6 DEF Telling
<1>12. ASSUME NEW r \in Pending, ServerRefuses(r) PROVE Telling'
  BY <1>11, <1>12, PendingIs, MessageKinds DEF ServerRefuses, Routing
<1>13. ASSUME NEW r \in Pending, NEW a \in Aliases, ServerGrants(r, a) PROVE Telling'
  BY <1>11, <1>13, PendingIs, MessageKinds DEF ServerGrants, Routing
<1>14. ASSUME NEW t \in Outbound, ServerSubscribes(t) PROVE Telling'
  BY <1>11, <1>14, AskIs DEF ServerSubscribes
<1>15. CASE ServerSaysMore
  BY <1>11, <1>15, MessageKinds DEF ServerSaysMore
<1>17. ASSUME NEW g, OnDatagram(g[1], g[2]) PROVE Telling'
  BY <1>0, <1>17 DEF OnDatagram
<1>18. ASSUME NEW t, WriteAudio(t) PROVE Telling'
  BY <1>0, <1>18 DEF WriteAudio, WriteAudioLoad, WriteAudioMakeRoom, WriteAudioPut
<1>19. CASE SendSubscribeOk
  <2>1. UNCHANGED <<moq_track_alias, open, control, asked, sent, sending>>
    BY <1>19 DEF SendSubscribeOk
  <2>2. open => (replies \cup replying)' = replies \cup replying
    BY <1>19 DEF SendSubscribeOk, OnWire
  <2>3. AsksKnown'
    BY <2>1 DEF Telling, AsksKnown
  <2>4. AliasesTold'
    BY <2>1, <2>2 DEF Telling, AliasesTold, Told
  <2>5. SendingTold'
    BY <2>1, <2>2 DEF Telling, SendingTold, Told
  <2>6. SentAsTold'
    BY <2>1, <2>2 DEF Telling, SentAsTold, Life, Closed, Range
  <2> QED
    BY <2>3, <2>4, <2>5, <2>6 DEF Telling
<1> QED
  BY <1>1, <1>2, <1>3, <1>4, <1>5, <1>6, <1>7, <1>8, <1>9, <1>10, <1>12, <1>13, <1>14, <1>15,
     <1>17, <1>18, <1>19
  DEF Next, SessionThread, Host, Server, HandleControl

----------------------------------------------------------------------------
(* Object ids and the age of what is sent *)

Below(s, n) == \A i \in DOMAIN s : ~s[i].torn => s[i].id < n

Ordered(s) ==
    \A i, j \in DOMAIN s : i < j /\ ~s[i].torn /\ ~s[j].torn => s[i].id < s[j].id

\* Object ids are numbers.
LEMMA ObjectIds ==
    ASSUME NEW s \in Seq(Object)
    PROVE  \A i \in DOMAIN s : s[i].id \in Nat
<1>1. \A i \in DOMAIN s : s[i] \in Object
  OBVIOUS
<1>2. \A d \in Object : d.id \in Nat
  BY DEF Object
<1> QED
  BY <1>1, <1>2

\* Frames with the next ids, or one datagram above all, keep the order.
LEMMA FramesInOrder ==
    ASSUME NEW s \in Seq(Object), NEW f \in Seq(Object), NEW n \in Nat,
           \A i \in DOMAIN f : f[i].id = n + (i - 1),
           Below(s, n), Ordered(s)
    PROVE  Below(s \o f, n + Len(f)) /\ Ordered(s \o f)
<1> DEFINE z == s \o f
<1>1. \A i \in DOMAIN z : \/ i \in DOMAIN s /\ z[i] = s[i]
                          \/ i \notin DOMAIN s /\ i - Len(s) \in DOMAIN f /\ z[i] = f[i - Len(s)]
  BY Joined
<1>2. DOMAIN s = 1 .. Len(s) /\ DOMAIN z = 1 .. (Len(s) + Len(f))
  BY Joined
<1>3. \A i \in DOMAIN s : s[i].id \in Nat
  BY ObjectIds
<1>4. Len(s) \in Nat /\ Len(f) \in Nat /\ DOMAIN f = 1 .. Len(f)
  OBVIOUS
<1> HIDE DEF z
<1>5. ASSUME NEW i \in DOMAIN z, ~z[i].torn PROVE z[i].id < n + Len(f)
  <2>1. CASE i \in DOMAIN s /\ z[i] = s[i]
    BY <1>3, <1>4, <1>5, <2>1 DEF Below
  <2>2. CASE i - Len(s) \in DOMAIN f /\ z[i] = f[i - Len(s)]
    BY <1>2, <1>4, <2>2
  <2> QED
    BY <1>1, <2>1, <2>2
<1>6. ASSUME NEW i \in DOMAIN z, NEW j \in DOMAIN z, i < j, ~z[i].torn, ~z[j].torn
      PROVE  z[i].id < z[j].id
  <2>1. CASE j \in DOMAIN s
    <3>1. i \in DOMAIN s
      BY <1>2, <1>4, <1>6, <2>1
    <3>2. z[i] = s[i] /\ z[j] = s[j]
      BY <1>1, <2>1, <3>1
    <3> QED
      BY <1>6, <2>1, <3>1, <3>2 DEF Ordered
  <2>2. CASE j \notin DOMAIN s
    <3>1. j - Len(s) \in DOMAIN f /\ z[j].id = n + ((j - Len(s)) - 1)
      BY <1>1, <2>2
    <3>2. CASE i \in DOMAIN s
      <4>1. z[i].id \in Nat /\ z[i].id < n
        BY <1>1, <1>3, <1>6, <3>2 DEF Below
      <4>2. z[j].id \in Nat /\ z[j].id >= n
        BY <1>2, <1>4, <3>1
      <4> QED
        BY <4>1, <4>2
    <3>3. CASE i \notin DOMAIN s
      <4>1. i - Len(s) \in DOMAIN f /\ z[i].id = n + ((i - Len(s)) - 1)
        BY <1>1, <3>3
      <4> QED
        BY <1>2, <1>4, <1>6, <3>1, <4>1
    <3> QED
      BY <3>2, <3>3
  <2> QED
    BY <2>1, <2>2
<1> QED
  BY <1>5, <1>6 DEF z, Below, Ordered

\* A datagram with the next object id keeps the ids of its track increasing.
LEMMA DatagramInOrder ==
    ASSUME NEW s \in Seq(Object), NEW d \in Object, NEW n \in Nat, Below(s, n), Ordered(s),
           ~d.torn => Below(s, d.id) /\ d.id < n
    PROVE  Below(Append(s, d), n) /\ Ordered(Append(s, d))
<1> DEFINE z == Append(s, d)
<1>1. \A i \in DOMAIN z : (i \in DOMAIN s /\ z[i] = s[i]) \/ (i = Len(s) + 1 /\ z[i] = d)
  BY Appended
<1>2. DOMAIN s = 1 .. Len(s) /\ Len(s) \in Nat
  OBVIOUS
<1> HIDE DEF z
<1>3. Below(z, n)
  BY <1>1 DEF Below
<1>4. ASSUME NEW i \in DOMAIN z, NEW j \in DOMAIN z, i < j, ~z[i].torn, ~z[j].torn
      PROVE  z[i].id < z[j].id
  <2>1. i \in DOMAIN s /\ z[i] = s[i]
    BY <1>1, <1>2, <1>4
  <2>2. CASE j \in DOMAIN s /\ z[j] = s[j]
    BY <1>4, <2>1, <2>2 DEF Ordered
  <2>3. CASE z[j] = d
    BY <1>4, <2>1, <2>3 DEF Below
  <2> QED
    BY <1>1, <2>2, <2>3
<1> QED
  BY <1>3, <1>4 DEF z, Ordered

\* Ids, track by track.
LEMMA IdsIs ==
    Ids <=> /\ \A t \in Tracks : Below(sent[t], next_object_id[t]) /\ Ordered(sent[t])
            /\ sending \in Built /\ ~sending.torn =>
                  /\ sending.id < next_object_id[sending.track]
                  /\ Below(sent[sending.track], sending.id)
BY DEF Ids, ObjectsInOrder, Below, Ordered

\* After configure() no object was sent.
LEMMA IdsInit == Init => Ids
BY DEF Init, Ids, ObjectsInOrder, NotSending, Built

\* Every step keeps object ids increasing, between the steps of a send_data() as well.
LEMMA IdsStep ==
    ASSUME Types, Life, Ids, Next
    PROVE  Ids'
<1> USE DEF moq, rings, server, bounds
<1>1. CASE Teardown \/ Disconnect \/ ConnectionDies
  <2>1. sent' = [t \in Tracks |-> <<>>]
    BY <1>1 DEF Teardown, Disconnect, ConnectionDies, CloseTransport, NewServer
  <2>2. sending' \in Built /\ ~sending'.torn => sending'.id < next_object_id'[sending'.track]
    <3>1. CASE ConnectionDies
      BY <3>1 DEF ConnectionDies, Ids
    <3>2. CASE Teardown
      <4>1. sending' # NotSending => sending'.torn
        BY <3>2, TornSending DEF Teardown, Types
      <4>2. sending' \in Built => sending' # NotSending
        BY DEF Built, NotSending
      <4> QED
        BY <4>1, <4>2
    <3>3. CASE Disconnect
      BY <3>3 DEF Disconnect, Built, NotSending
    <3> QED
      BY <1>1, <3>1, <3>2, <3>3
  <2>3. sending' \in Built => sending'.track \in Tracks
    BY TrackSets DEF Built
  <2> QED
    BY <2>1, <2>2, <2>3 DEF Ids, ObjectsInOrder
<1>2. ASSUME NEW t \in Outbound \cap Audio, PollTrack(t) PROVE Ids'
  <2>1. t \in Tracks
    BY TrackSets
  <2>2. UNCHANGED sending
    BY <1>2 DEF PollTrack
  <2>3. PICK encoded \in SUBSET (1 .. Len(ring[t])) :
           /\ next_object_id' = [next_object_id EXCEPT ![t] = @ + Cardinality(encoded)]
           /\ sent' = OnWire(sent, [sent EXCEPT ![t] = @ \o Frames(t, encoded)])
    BY <1>2 DEF PollTrack
  <2>4. PICK f : f = Frames(t, encoded)
    OBVIOUS
  <2>5. PICK k : k = Cardinality(encoded)
    OBVIOUS
  <2>6. PICK n \in Nat : n = next_object_id[t]
    BY <2>1 DEF Types
  <2>7. PICK s \in Seq(Object) : s = sent[t]
    BY <2>1 DEF Types
  <2>8. /\ k \in Nat /\ f \in Seq(Object) /\ Len(f) = k
        /\ \A i \in 1 .. k : f[i].id = n + (i - 1)
    BY <2>1, <2>4, <2>5, <2>6, FramesAre, Zenon
  <2>9. Below(s, n) /\ Ordered(s)
    BY <2>1, <2>6, <2>7, IdsIs
  <2>10. Below(s \o f, n + k) /\ Ordered(s \o f)
    <3>1. \A i \in DOMAIN f : f[i].id = n + (i - 1)
      BY <2>8
    <3> QED
      BY <2>8, <2>9, <3>1, FramesInOrder
  <2>11. Below(s, n + k)
    <3>1. \A i \in DOMAIN s : s[i].id \in Nat
      BY ObjectIds
    <3> QED
      BY <2>8, <2>9, <3>1 DEF Below
  <2>12. next_object_id'[t] = n + k
    BY <2>1, <2>3, <2>5, <2>6 DEF Types
  <2>13. /\ \A u \in Tracks : u # t => next_object_id'[u] = next_object_id[u] /\ sent'[u] = sent[u]
         /\ sent'[t] = s \/ sent'[t] = s \o f
    BY <2>1, <2>3, <2>4, <2>7 DEF Types, OnWire
  <2>14. sending \in Built => sending.track \in Tracks /\ sending.track # t
    BY TrackSets DEF Built, Data
  <2>15. \A u \in Tracks : Below(sent'[u], next_object_id'[u]) /\ Ordered(sent'[u])
    BY <2>9, <2>10, <2>11, <2>12, <2>13, IdsIs
  <2>16. sending' \in Built /\ ~sending'.torn =>
            /\ sending'.id < next_object_id'[sending'.track]
            /\ Below(sent'[sending'.track], sending'.id)
    BY <2>2, <2>13, <2>14, IdsIs
  <2> QED
    BY <2>15, <2>16 DEF Ids, ObjectsInOrder, Below, Ordered
<1>3. CASE SendDataBuild
  <2>1. sending \in Building /\ sending.track \in Tracks
    BY <1>3, SendingKinds, TrackSets DEF SendDataBuild, Types, NotSending
  <2>2. PICK t \in Tracks : t = sending.track
    BY <2>1
  <2>3. PICK n \in Nat : n = next_object_id[t]
    BY DEF Types
  <2>4. sending'.track = t /\ sending'.id = n
    BY <1>3, <2>2, <2>3 DEF SendDataBuild
  <2>5. /\ next_object_id'[t] = n + 1
        /\ \A u \in Tracks : u # t => next_object_id'[u] = next_object_id[u]
        /\ sent' = sent
    BY <1>3, <2>2, <2>3 DEF SendDataBuild, Types
  <2>6. Below(sent[t], n) /\ Below(sent[t], n + 1)
    <3>1. Below(sent[t], n)
      BY <2>3, IdsIs
    <3>2. sent[t] \in Seq(Object)
      BY DEF Types
    <3>3. \A i \in DOMAIN sent[t] : sent[t][i].id \in Nat
      BY <3>2, ObjectIds
    <3> QED
      BY <3>1, <3>3 DEF Below
  <2>7. \A u \in Tracks : Below(sent'[u], next_object_id'[u]) /\ Ordered(sent'[u])
    BY <2>5, <2>6, IdsIs
  <2>8. sending'.id < next_object_id'[sending'.track] /\ Below(sent'[sending'.track], sending'.id)
    BY <2>4, <2>5, <2>6
  <2> QED
    BY <2>7, <2>8 DEF Ids, ObjectsInOrder, Below, Ordered
<1>4. CASE SendDataSend
  <2>1. sending \in Built /\ sending.track \in Tracks
    BY <1>4, SendingKinds, TrackSets DEF SendDataSend, Types, NotSending
  <2>2. sending' \notin Built
    BY <1>4 DEF SendDataSend, NotSending, Built
  <2>3. PICK t \in Tracks : t = sending.track
    BY <2>1
  <2>4. PICK d : d = Datagram
    OBVIOUS
  <2>5. d \in Object /\ d.id = sending.id /\ d.torn = sending.torn
    <3>1. sending.alias \in Nat /\ sending.id \in Nat /\ sending.torn \in BOOLEAN /\ era \in Nat
      BY <2>1 DEF Built, Types
    <3> QED
      BY <2>4, <3>1 DEF Datagram, Object
  <2>6. PICK n \in Nat : n = next_object_id[t]
    BY DEF Types
  <2>7. PICK s \in Seq(Object) : s = sent[t]
    BY DEF Types
  <2>8. Below(s, n) /\ Ordered(s) /\ (~d.torn => Below(s, d.id) /\ d.id < n)
    BY <2>1, <2>3, <2>5, <2>6, <2>7, IdsIs
  <2>9. Below(Append(s, d), n) /\ Ordered(Append(s, d))
    BY <2>5, <2>8, DatagramInOrder
  <2>10. /\ next_object_id' = next_object_id
         /\ \A u \in Tracks : u # t => sent'[u] = sent[u]
         /\ sent'[t] = s \/ sent'[t] = Append(s, d)
    BY <1>4, <2>3, <2>4, <2>7 DEF SendDataSend, OnWire, Types
  <2>11. \A u \in Tracks : Below(sent'[u], next_object_id'[u]) /\ Ordered(sent'[u])
    BY <2>6, <2>8, <2>9, <2>10, IdsIs
  <2> QED
    BY <2>2, <2>11 DEF Ids, ObjectsInOrder, Below, Ordered
<1>5. ASSUME NEW t, SendDataCheck(t) PROVE Ids'
  <2>1. sending' \notin Built
    BY <1>5 DEF SendDataCheck, Built
  <2>2. UNCHANGED <<next_object_id, sent>>
    BY <1>5 DEF SendDataCheck
  <2> QED
    BY <2>1, <2>2 DEF Ids, ObjectsInOrder
<1>6. ASSUME UNCHANGED <<next_object_id, sent, sending>> PROVE Ids'
  BY <1>6 DEF Ids, ObjectsInOrder
<1>7. CASE Connect \/ Reconnect \/ NoticeLoss \/ StartOrchestration \/ SendSubscribeOk
  BY <1>6, <1>7 DEF Connect, Reconnect, StartTransport, NoticeLoss, StartOrchestration,
                    SendSubscribeOk
<1>8. CASE HandleControl
  BY <1>6, <1>8 DEF HandleControl, HandleServerSetup, HandleSubscribeOk, HandleSubscribeError,
                    HandleSubscribe, HandleOther, Receive
<1>9. ASSUME NEW t, WriteAudio(t) PROVE Ids'
  BY <1>6, <1>9 DEF WriteAudio, WriteAudioLoad, WriteAudioMakeRoom, WriteAudioPut
<1>10. CASE Server
  BY <1>6, <1>10 DEF Server, ServerRefuses, ServerGrants, ServerSubscribes, ServerSaysMore,
                     ServerSends
<1>11. ASSUME NEW g, OnDatagram(g[1], g[2]) PROVE Ids'
  BY <1>6, <1>11 DEF OnDatagram
<1> QED
  BY <1>1, <1>2, <1>3, <1>4, <1>5, <1>7, <1>8, <1>9, <1>10, <1>11 DEF Next, SessionThread, Host

\* After configure() no audio waits.
LEMMA ErasInit == Init => Eras
BY DEF Init, Eras, FreshAudio, Range

\* Every step leaves in the rings audio of the current connection only.
LEMMA ErasStep ==
    ASSUME Types, Eras, Next
    PROVE  Eras'
<1> USE DEF moq, rings, server, bounds
<1>1. CASE Teardown \/ Disconnect
  BY <1>1 DEF Teardown, Disconnect, CloseTransport, FlushRings, NewServer, Eras, FreshAudio, Range
<1>2. CASE ConnectionDies
  BY <1>2 DEF ConnectionDies, NewServer, Eras, FreshAudio, Range
<1>3. ASSUME NEW t \in Outbound \cap Audio, WriteAudio(t) PROVE Eras'
  <2>1. t \in Tracks
    BY TrackSets
  <2>2. /\ UNCHANGED slipped /\ \A u \in Tracks : u # t => ring'[u] = ring[u]
        /\ ~slipped[t] => \A i \in DOMAIN ring'[t] :
              ring'[t][i] = era \/ \E j \in DOMAIN ring[t] : ring'[t][i] = ring[t][j]
    BY <1>3, <2>1, RingSteps
  <2>3. UNCHANGED <<era, sent>>
    BY <1>3 DEF WriteAudio, WriteAudioLoad, WriteAudioMakeRoom, WriteAudioPut
  <2> QED
    BY <2>1, <2>2, <2>3 DEF Eras, FreshAudio
<1>4. ASSUME NEW t \in Outbound \cap Audio, PollTrack(t) PROVE Eras'
  <2>1. t \in Tracks
    BY TrackSets
  <2>2. PICK encoded \in SUBSET (1 .. Len(ring[t])) :
           sent' = OnWire(sent, [sent EXCEPT ![t] = @ \o Frames(t, encoded)])
    BY <1>4 DEF PollTrack
  <2>3. PICK f : f = Frames(t, encoded)
    OBVIOUS
  <2>4. f \in Seq(Object) /\ (~slipped[t] => \A i \in DOMAIN f : f[i].era = era)
    <3>1. /\ Cardinality(encoded) \in Nat /\ f \in Seq(Object) /\ Len(f) = Cardinality(encoded)
          /\ \A i \in 1 .. Cardinality(encoded) : \E j \in DOMAIN ring[t] : f[i].era = ring[t][j]
      BY <2>1, <2>3, FramesAre, Zenon
    <3>2. ~slipped[t] => \A j \in DOMAIN ring[t] : ring[t][j] = era
      BY <2>1 DEF Eras
    <3>3. DOMAIN f = 1 .. Cardinality(encoded)
      BY <3>1
    <3> QED
      BY <3>1, <3>2, <3>3
  <2>5. ASSUME NEW u \in Tracks, NEW d \in Range(sent'[u])
        PROVE  d.era = era \/ slipped[u]
    <3>1. sent'[u] = sent[u] \/ (u = t /\ sent'[u] = sent[u] \o f)
      BY <2>1, <2>2, <2>3 DEF OnWire, Types
    <3>2. sent[u] \in Seq(Object)
      BY DEF Types
    <3>3. \A z \in Range(sent[u] \o f) : z \in Range(sent[u]) \/ \E i \in DOMAIN f : z = f[i]
      BY <2>4, <3>2, Joined
    <3>4. d \in Range(sent[u]) \/ (u = t /\ \E i \in DOMAIN f : d = f[i])
      BY <2>5, <3>1, <3>3, Zenon
    <3> QED
      BY <2>4, <3>4 DEF Eras, FreshAudio
  <2>6. /\ ring' = [ring EXCEPT ![t] = <<>>] /\ era' = era
        /\ \A u \in Tracks : slipped[u] => slipped'[u]
    BY <1>4 DEF PollTrack, Types
  <2>7. \A u \in Tracks : ~slipped[u] => \A i \in DOMAIN ring'[u] : ring'[u][i] = era
    BY <2>1, <2>6 DEF Eras, Types
  <2> QED
    BY <2>5, <2>6, <2>7 DEF Eras, FreshAudio
<1>5. CASE SendDataSend
  <2>1. sending.track \in Tracks
    BY <1>5, SendingKinds, TrackSets DEF SendDataSend, Types, NotSending
  <2>2. PICK d : d = Datagram
    OBVIOUS
  <2>3. d.era = era
    BY <2>2 DEF Datagram
  <2>4. ASSUME NEW u \in Tracks, NEW e \in Range(sent'[u])
        PROVE  e.era = era \/ slipped[u]
    <3>1. sent'[u] = sent[u] \/ sent'[u] = Append(sent[u], d)
      BY <1>5, <2>1, <2>2 DEF SendDataSend, OnWire, Types
    <3>2. sent[u] \in Seq(Object)
      BY DEF Types
    <3>3. e \in Range(sent[u]) \/ e = d
      BY <2>4, <3>1, <3>2, Appended
    <3> QED
      BY <2>3, <3>3 DEF Eras, FreshAudio
  <2>5. UNCHANGED <<era, ring, slipped>>
    BY <1>5 DEF SendDataSend
  <2> QED
    BY <2>4, <2>5 DEF Eras, FreshAudio
<1>6. ASSUME UNCHANGED <<ring, slipped, era, sent>> PROVE Eras'
  BY <1>6 DEF Eras, FreshAudio
<1>7. CASE Connect \/ Reconnect \/ NoticeLoss \/ StartOrchestration \/ SendSubscribeOk \/ SendDataBuild
  BY <1>6, <1>7
  DEF Connect, Reconnect, StartTransport, NoticeLoss, StartOrchestration, SendSubscribeOk,
      SendDataBuild
<1>8. CASE HandleControl
  BY <1>6, <1>8 DEF HandleControl, HandleServerSetup, HandleSubscribeOk, HandleSubscribeError,
                    HandleSubscribe, HandleOther, Receive
<1>9. ASSUME NEW t, SendDataCheck(t) PROVE Eras'
  BY <1>6, <1>9 DEF SendDataCheck
<1>10. CASE Server
  BY <1>6, <1>10 DEF Server, ServerRefuses, ServerGrants, ServerSubscribes, ServerSaysMore,
                     ServerSends
<1>11. ASSUME NEW g, OnDatagram(g[1], g[2]) PROVE Eras'
  BY <1>6, <1>11 DEF OnDatagram
<1> QED
  BY <1>1, <1>2, <1>3, <1>4, <1>5, <1>7, <1>8, <1>9, <1>10, <1>11 DEF Next, SessionThread, Host

----------------------------------------------------------------------------
(* The theorems *)

\* OrchInv is inductive.
THEOREM OrchInvariant == Spec => []OrchInv
<1>1. Init => OrchInv
  <2>1. Init => RequestedOnce
    BY DEF Init, RequestedOnce
  <2> QED
    BY <2>1, TypesInit, LifeInit, RoutingInit, TellingInit, IdsInit, ErasInit DEF OrchInv
<1>2. OrchInv /\ [Next]_vars => OrchInv'
  <2> SUFFICES ASSUME OrchInv, [Next]_vars PROVE OrchInv'
    OBVIOUS
  <2>1. CASE Next
    BY <2>1, TypesStep, LifeStep, RoutingStep, TellingStep, IdsStep, ErasStep, RequestedStep
    DEF OrchInv
  <2>2. CASE UNCHANGED vars
    <3> USE <2>2 DEF OrchInv, vars, moq, rings, server, bounds
    <3>1. Types'
      BY DEF Types, FoundFull
    <3>2. Life'
      BY DEF Life, Closed, Fresh, NotYet
    <3>3. Routing'
      BY DEF Routing, RequestsKnown, GrantsTold, AliasesGranted, GrantsDiffer, RoutedRight
    <3>4. Telling'
      BY DEF Telling, AsksKnown, AliasesTold, SendingTold, SentAsTold, Told
    <3>5. Ids'
      BY DEF Ids, ObjectsInOrder
    <3>6. Eras' /\ RequestedOnce'
      BY DEF Eras, FreshAudio, RequestedOnce
    <3> QED
      BY <3>1, <3>2, <3>3, <3>4, <3>5, <3>6
  <2> QED
    BY <2>1, <2>2
<1> QED
  BY <1>1, <1>2, PTL DEF Spec

\* A datagram only reaches the track it was meant for (on_datagram), whatever
\* aliases the server chooses on this connection and chose on earlier ones.
THEOREM DatagramsReachTheirTrack == Spec => []RoutedRight
<1>1. OrchInv => RoutedRight
  BY DEF OrchInv, Routing
<1> QED
  BY <1>1, OrchInvariant, PTL

\* Nothing goes out under an alias that the server was not told for its track and
\* that no SUBSCRIBE_OK is about to tell it (poll_outbound_tracks(), send_data()),
\* but for a send_data() overtaken by a reconnection.
THEOREM SentUnderToldAliases == Spec => []SentAsTold
<1>1. OrchInv => SentAsTold
  BY DEF OrchInv, Telling
<1> QED
  BY <1>1, OrchInvariant, PTL

\* The object ids of a track increase over a connection (send_audio_frame(),
\* send_pcm_frame(), send_data()).
THEOREM ObjectIdsIncrease == Spec => []ObjectsInOrder
<1>1. OrchInv => ObjectsInOrder
  BY DEF OrchInv, Ids
<1> QED
  BY <1>1, OrchInvariant, PTL

\* No audio of an earlier connection goes out (attempt_reconnect() and
\* disconnect() flush the rings), but from a ring whose flush() or overflow fell
\* between the steps of another thread.
THEOREM NoStaleAudio == Spec => []FreshAudio
<1>1. OrchInv => FreshAudio
  BY DEF OrchInv, Eras
<1> QED
  BY <1>1, OrchInvariant, PTL

\* Every connection asks once for each track, under its own id and with the JWT in
\* its first SUBSCRIBE alone (start_orchestration(), reset_moq_state()).
THEOREM TracksRequestedOnce == Spec => []RequestedOnce
<1>1. OrchInv => RequestedOnce
  BY DEF OrchInv
<1> QED
  BY <1>1, OrchInvariant, PTL

=============================================================================
