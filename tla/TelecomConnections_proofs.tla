---------------------- MODULE TelecomConnections_proofs ----------------------
(***************************************************************************)
(* Proofs about TelecomConnections for every set of calls and any number   *)
(* of reports, requests and connections.  What the service does to the     *)
(* list is of two kinds: a state of some connection is set, or one is      *)
(* added, named or taken away.  A lemma for each operator says what it     *)
(* leaves alone; the step lemma then goes through the actions.             *)
(***************************************************************************)
EXTENDS TelecomConnections, TLAPS, SequenceTheorems, FiniteSetTheorems, LeastElements

Running == {"ACTIVE", "DISCONNECTED"}

Has(cs, c) == \E k \in 1..Len(cs) : cs[k].callId = c

(* The first connection of call c is active, unless it was disconnected.   *)
Shown(cs, c) ==
  \A k \in 1..Len(cs) :
    cs[k].callId = c /\ (\A l \in 1..Len(cs) : cs[l].callId = c => k <= l)
      => cs[k].state \in Running

(* The list b is a with other states: those of the calls in T may be any,  *)
(* the others are what they were or running.                               *)
Renewed(a, b, T) ==
  /\ b \in Seq(Connection) /\ Len(b) = Len(a)
  /\ \A k \in 1..Len(a) :
       /\ b[k].callId = a[k].callId
       /\ b[k].state = a[k].state \/ b[k].state \in Running \/ a[k].callId \in T

(* What each step of the service, the core and telecom does.               *)
Steps ==
  /\ TypeOK'
  /\ \A c \in Calls :
       /\ c \in LiveCalls /\ c \in LiveCalls' /\ Has(connections, c) => Has(connections', c)
       /\ core'[c] = "streaming" /\ (core[c] = "streaming" => Shown(connections, c))
            => Shown(connections', c)

StreamingShown == \A c \in Calls : core[c] = "streaming" => Shown(connections, c)

-----------------------------------------------------------------------------
(* The operators on the list. *)

LEMMA FirstMatchIsFirst ==
  ASSUME NEW cs \in Seq(Connection), NEW id, Matches(cs, id) # {}
  PROVE  /\ FirstMatch(cs, id) \in 1..Len(cs)
         /\ cs[FirstMatch(cs, id)].callId = id
         /\ \A l \in 1..Len(cs) : cs[l].callId = id => FirstMatch(cs, id) <= l
<1>1. DOMAIN cs = 1..Len(cs) /\ Len(cs) \in Nat
  BY LenProperties
<1>2. Matches(cs, id) \subseteq Nat /\ IsFiniteSet(Matches(cs, id))
  <2>1. Matches(cs, id) \subseteq 1..Len(cs)
    BY <1>1 DEF Matches
  <2>2. IsFiniteSet(1..Len(cs))
    BY <1>1, FS_Interval
  <2> QED BY <2>1, <2>2, FS_Subset
<1>3. PICK k \in Matches(cs, id) : \A l \in Matches(cs, id) : k <= l
  BY <1>2, LeastElement
<1>4. /\ FirstMatch(cs, id) \in Matches(cs, id)
      /\ \A l \in Matches(cs, id) : FirstMatch(cs, id) <= l
  BY <1>3 DEF FirstMatch
<1> QED BY <1>1, <1>4 DEF Matches

LEMMA MatchesHas ==
  ASSUME NEW cs \in Seq(Connection), NEW c
  PROVE  Matches(cs, c) # {} <=> Has(cs, c)
BY LenProperties DEF Matches, Has

LEMMA RenewedItself ==
  ASSUME NEW a \in Seq(Connection), NEW T
  PROVE  Renewed(a, a, T)
BY DEF Renewed

LEMMA RenewedTwice ==
  ASSUME NEW a, NEW b, NEW d, NEW T, NEW U, Renewed(a, b, T), Renewed(b, d, U)
  PROVE  Renewed(a, d, T \cup U)
BY DEF Renewed

LEMMA RenewedHas ==
  ASSUME NEW a, NEW b, NEW T, NEW c, Renewed(a, b, T), Has(a, c)
  PROVE  Has(b, c)
BY DEF Renewed, Has

LEMMA RenewedShown ==
  ASSUME NEW a, NEW b, NEW T, NEW c, c \notin T, Renewed(a, b, T), Shown(a, c)
  PROVE  Shown(b, c)
BY DEF Renewed, Shown

LEMMA SetStateRenews ==
  ASSUME NEW a \in Seq(Connection), NEW k \in 1..Len(a),
         NEW s \in {"RINGING", "DIALING", "ACTIVE", "HOLDING", "DISCONNECTED"}, NEW T,
         s \in Running \/ a[k].callId \in T
  PROVE  /\ Renewed(a, SetState(a, k, s), T)
         /\ s = "ACTIVE" => SetState(a, k, s)[k].state \in Running
<1> DEFINE e == [a[k] EXCEPT !.state = IF @ = "DISCONNECTED" THEN @ ELSE s]
<1>1. a[k] \in Connection
  BY LenProperties
<1>2. e \in Connection /\ e.callId = a[k].callId
      /\ e.state = IF a[k].state = "DISCONNECTED" THEN "DISCONNECTED" ELSE s
  BY <1>1 DEF Connection
<1>3. SetState(a, k, s) = [a EXCEPT ![k] = e]
  BY DEF SetState
<1> HIDE DEF e
<1>4. /\ [a EXCEPT ![k] = e] \in Seq(Connection)
      /\ Len([a EXCEPT ![k] = e]) = Len(a)
      /\ \A j \in 1..Len(a) : [a EXCEPT ![k] = e][j] = IF j = k THEN e ELSE a[j]
  BY <1>2, ExceptSeq
<1>5. Renewed(a, [a EXCEPT ![k] = e], T)
  BY <1>2, <1>4 DEF Renewed, Running
<1>6. s = "ACTIVE" => [a EXCEPT ![k] = e][k].state \in Running
  BY <1>2, <1>4 DEF Running
<1> QED BY <1>3, <1>5, <1>6

LEMMA FollowRenews ==
  ASSUME NEW a \in Seq(Connection), NEW id,
         NEW s \in {"RINGING", "DIALING", "ACTIVE", "HOLDING", "DISCONNECTED"}, NEW T,
         s \in Running \/ id \in T
  PROVE  Renewed(a, Follow(a, id, s), T)
<1>1. CASE Matches(a, id) = {}
  BY <1>1, RenewedItself DEF Follow
<1>2. CASE Matches(a, id) # {}
  <2>1. FirstMatch(a, id) \in 1..Len(a) /\ a[FirstMatch(a, id)].callId = id
    BY <1>2, FirstMatchIsFirst
  <2>2. Renewed(a, SetState(a, FirstMatch(a, id), s), T)
    BY <2>1, SetStateRenews
  <2> QED BY <1>2, <2>2 DEF Follow
<1> QED BY <1>1, <1>2

(* Following a call that runs makes its first connection active.           *)
LEMMA FollowShows ==
  ASSUME NEW a \in Seq(Connection), NEW id
  PROVE  Shown(Follow(a, id, "ACTIVE"), id)
<1>1. CASE Matches(a, id) = {}
  <2>1. ~Has(a, id)
    BY <1>1, MatchesHas
  <2> QED BY <1>1, <2>1 DEF Follow, Shown, Has
<1>2. CASE Matches(a, id) # {}
  <2> DEFINE f == FirstMatch(a, id)
             b == SetState(a, f, "ACTIVE")
  <2>1. f \in 1..Len(a) /\ a[f].callId = id
        /\ \A l \in 1..Len(a) : a[l].callId = id => f <= l
    BY <1>2, FirstMatchIsFirst
  <2>2. "ACTIVE" \in Running
    BY DEF Running
  <2>3. Renewed(a, b, {}) /\ b[f].state \in Running
    BY <2>1, <2>2, SetStateRenews
  <2>4. Follow(a, id, "ACTIVE") = b
    BY <1>2 DEF Follow
  <2> HIDE DEF f, b
  <2>5. Len(a) \in Nat
    BY LenProperties
  <2>6. ASSUME NEW k \in 1..Len(b), b[k].callId = id,
               \A l \in 1..Len(b) : b[l].callId = id => k <= l
        PROVE  k = f
    BY <2>1, <2>3, <2>5, <2>6 DEF Renewed
  <2> QED BY <2>3, <2>4, <2>6 DEF Shown
<1> QED BY <1>1, <1>2

LEMMA HoldRenews ==
  ASSUME NEW a \in Seq(Connection), NEW c \in Calls
  PROVE  Renewed(a, HoldStreaming(a, c), Calls)
<1> DEFINE d == {e \in Calls \ {c} : core[e] = "streaming"}
<1>1. CASE d = {}
  BY <1>1, RenewedItself DEF HoldStreaming
<1>2. CASE d # {}
  <2>1. (CHOOSE e \in d : TRUE) \in Calls
    BY <1>2
  <2>2. Renewed(a, Follow(a, CHOOSE e \in d : TRUE, "HOLDING"), Calls)
    BY <2>1, FollowRenews
  <2> QED BY <1>2, <2>2 DEF HoldStreaming
<1> QED BY <1>1, <1>2

LEMMA RemoveAtProperties ==
  ASSUME NEW S, NEW s \in Seq(S), NEW i \in 1..Len(s)
  PROVE  /\ RemoveAt(s, i) \in Seq(S)
         /\ Len(RemoveAt(s, i)) = Len(s) - 1
         /\ \A k \in 1..Len(s) - 1 : RemoveAt(s, i)[k] = IF k < i THEN s[k] ELSE s[k + 1]
<1> DEFINE front == SubSeq(s, 1, i - 1)
           back == SubSeq(s, i + 1, Len(s))
<1>1. Len(s) \in Nat /\ i \in Int /\ \A k \in 1..Len(s) : s[k] \in S
  BY LenProperties
<1>2. /\ front \in Seq(S) /\ Len(front) = i - 1
      /\ \A k \in 1..i - 1 : front[k] = s[k]
  <2>1. i - 1 \in Int /\ \A k \in 1..i - 1 : s[k] \in S
    BY <1>1
  <2> QED BY <1>1, <2>1, SubSeqProperties
<1>3. /\ back \in Seq(S) /\ Len(back) = Len(s) - i
      /\ \A k \in 1..Len(s) - i : back[k] = s[i + k]
  <2>1. i + 1 \in Int /\ \A k \in i + 1..Len(s) : s[k] \in S
    BY <1>1
  <2>2. /\ back \in Seq(S)
        /\ Len(back) = IF i + 1 <= Len(s) THEN Len(s) - (i + 1) + 1 ELSE 0
        /\ \A k \in 1..Len(s) - (i + 1) + 1 : back[k] = s[(i + 1) + k - 1]
    BY <1>1, <2>1, SubSeqProperties
  <2> HIDE DEF back
  <2> QED BY <1>1, <2>2
<1> HIDE DEF front, back
<1>4. /\ front \o back \in Seq(S)
      /\ Len(front \o back) = Len(front) + Len(back)
      /\ \A k \in 1..Len(front) + Len(back) :
           (front \o back)[k] = IF k <= Len(front) THEN front[k] ELSE back[k - Len(front)]
  BY <1>2, <1>3, ConcatProperties
<1>5. RemoveAt(s, i) = front \o back
  BY DEF RemoveAt, front, back
<1>6. ASSUME NEW k \in 1..Len(s) - 1
      PROVE  (front \o back)[k] = IF k < i THEN s[k] ELSE s[k + 1]
  <2>1. CASE k < i
    BY <1>1, <1>2, <1>3, <1>4, <2>1
  <2>2. CASE k >= i
    <3>1. (front \o back)[k] = back[k - (i - 1)]
      BY <1>1, <1>2, <1>3, <1>4, <2>2
    <3>2. k - (i - 1) \in 1..Len(s) - i /\ i + (k - (i - 1)) = k + 1
      BY <1>1, <2>2
    <3>3. back[k - (i - 1)] = s[i + (k - (i - 1))]
      BY <1>3, <3>2
    <3>4. ~(k < i)
      BY <1>1, <2>2
    <3> QED BY <3>1, <3>2, <3>3, <3>4
  <2>3. k < i \/ k >= i
    BY <1>1
  <2> QED BY <2>1, <2>2, <2>3
<1>7. Len(front \o back) = Len(s) - 1
  BY <1>1, <1>2, <1>3, <1>4
<1> QED BY <1>4, <1>5, <1>6, <1>7

(* Ending call id leaves the connections of every other call.              *)
LEMMA DropKeeps ==
  ASSUME NEW a \in Seq(Connection), NEW id
  PROVE  /\ Drop(a, id) \in Seq(Connection) /\ Len(Drop(a, id)) <= Len(a)
         /\ \A c : c # id => /\ Has(a, c) => Has(Drop(a, id), c)
                             /\ Shown(a, c) => Shown(Drop(a, id), c)
<1>1. Len(a) \in Nat
  BY LenProperties
<1>2. CASE Matches(a, id) = {}
  BY <1>1, <1>2 DEF Drop
<1>3. CASE Matches(a, id) # {}
  <2> DEFINE i == FirstMatch(a, id)
             b == RemoveAt(a, i)
  <2>1. i \in 1..Len(a) /\ a[i].callId = id
    BY <1>3, FirstMatchIsFirst
  <2>2. Drop(a, id) = b
    BY <1>3 DEF Drop
  <2>3. /\ b \in Seq(Connection) /\ Len(b) = Len(a) - 1
        /\ \A k \in 1..Len(a) - 1 : b[k] = IF k < i THEN a[k] ELSE a[k + 1]
    BY <2>1, RemoveAtProperties
  <2> HIDE DEF i, b
  <2>4. ASSUME NEW c, c # id, NEW k \in 1..Len(a), a[k].callId = c
        PROVE  /\ k < i => k \in 1..Len(b) /\ b[k] = a[k]
               /\ ~(k < i) => k - 1 \in 1..Len(b) /\ b[k - 1] = a[k] /\ i < k
    <3>1. k # i
      BY <2>1, <2>4
    <3>2. CASE k < i
      BY <1>1, <2>1, <2>3, <3>2
    <3>3. CASE i < k
      <4>1. k - 1 \in 1..Len(a) - 1 /\ ~(k - 1 < i) /\ (k - 1) + 1 = k
        BY <1>1, <2>1, <3>3
      <4> QED BY <2>1, <2>3, <3>3, <4>1
    <3> QED BY <2>1, <3>1, <3>2, <3>3
  <2>5. ASSUME NEW c, c # id, Has(a, c)
        PROVE  Has(b, c)
    <3>1. PICK k \in 1..Len(a) : a[k].callId = c
      BY <2>5 DEF Has
    <3>2. CASE k < i
      BY <2>4, <2>5, <3>1, <3>2 DEF Has
    <3>3. CASE ~(k < i)
      BY <2>4, <2>5, <3>1, <3>3 DEF Has
    <3> QED BY <3>2, <3>3
  <2>6. ASSUME NEW c, c # id, Shown(a, c),
               NEW k \in 1..Len(b), b[k].callId = c,
               \A l \in 1..Len(b) : b[l].callId = c => k <= l
        PROVE  b[k].state \in Running
    <3> DEFINE j == IF k < i THEN k ELSE k + 1
    <3>1. j \in 1..Len(a) /\ b[k] = a[j]
      BY <1>1, <2>1, <2>3
    <3>2. ASSUME NEW l \in 1..Len(a), a[l].callId = c
          PROVE  j <= l
      <4>1. CASE l < i
        BY <1>1, <2>1, <2>3, <2>4, <2>6, <3>2, <4>1
      <4>2. CASE ~(l < i)
        <5>1. l - 1 \in 1..Len(b) /\ b[l - 1] = a[l]
          BY <2>4, <2>6, <3>2, <4>2
        <5>2. k <= l - 1
          BY <2>6, <3>2, <5>1
        <5> QED BY <1>1, <2>3, <5>2
      <4> QED BY <4>1, <4>2
    <3> HIDE DEF j
    <3> QED BY <2>6, <3>1, <3>2 DEF Shown
  <2>7. \A c : c # id /\ Shown(a, c) => Shown(b, c)
    BY <2>6 DEF Shown
  <2> QED BY <1>1, <2>2, <2>3, <2>5, <2>7
<1> QED BY <1>2, <1>3

LEMMA DestroyTypes ==
  ASSUME NEW a \in Seq(Connection)
  PROVE  DestroyZombies(a) \in Seq(Connection) /\ Len(DestroyZombies(a)) <= Len(a)
<1>1. CASE a = <<>>
  BY <1>1, LenProperties DEF DestroyZombies
<1>2. CASE a # <<>>
  <2>1. Len(a) \in Nat /\ Tail(a) \in Seq(Connection) /\ Len(Tail(a)) = Len(a) - 1
    BY <1>2, LenProperties, HeadTailProperties
  <2> QED BY <1>2, <2>1 DEF DestroyZombies
<1> QED BY <1>1, <1>2

(* Naming the connections without an id takes none from another call.      *)
LEMMA AdoptKeeps ==
  ASSUME NEW a \in Seq(Connection), NEW c \in Calls
  PROVE  /\ Adopt(a, c) \in Seq(Connection) /\ Len(Adopt(a, c)) = Len(a)
         /\ \A d \in Calls : Has(a, d) => Has(Adopt(a, c), d)
         /\ \A d \in Calls : d # c /\ Shown(a, d) => Shown(Adopt(a, c), d)
<1> DEFINE b == Adopt(a, c)
<1>1. Len(a) \in Nat /\ DOMAIN a = 1..Len(a) /\ \A k \in 1..Len(a) : a[k] \in Connection
  BY LenProperties
<1>2. b = [k \in 1..Len(a) |-> [a[k] EXCEPT !.callId = IF @ = NoId THEN c ELSE @]]
  BY <1>1 DEF Adopt
<1>3. ASSUME NEW k \in 1..Len(a)
      PROVE  /\ b[k] \in Connection /\ b[k].state = a[k].state
             /\ b[k].callId = IF a[k].callId = NoId THEN c ELSE a[k].callId
  <2>1. a[k] \in Connection /\ b[k] = [a[k] EXCEPT !.callId = IF @ = NoId THEN c ELSE @]
    BY <1>1, <1>2
  <2> HIDE DEF b
  <2> QED BY <2>1 DEF Connection
<1>4. b \in Seq(Connection) /\ Len(b) = Len(a)
  <2>1. b \in [1..Len(a) -> Connection]
    BY <1>2, <1>3
  <2> HIDE DEF b
  <2> QED BY <1>1, <2>1
<1> HIDE DEF b
<1>5. \A d \in Calls : Has(a, d) => Has(b, d)
  BY <1>3, <1>4, TelecomAssumption DEF Has
<1>6. \A d \in Calls : d # c /\ Shown(a, d) => Shown(b, d)
  <2>1. \A d \in Calls, k \in 1..Len(a) : d # c => (b[k].callId = d <=> a[k].callId = d)
    BY <1>3, TelecomAssumption
  <2> QED BY <1>3, <1>4, <2>1 DEF Shown
<1> QED BY <1>4, <1>5, <1>6 DEF b

(* A connection that is added is the first only of a call that had none.   *)
LEMMA AppendKeeps ==
  ASSUME NEW a \in Seq(Connection), NEW e \in Connection
  PROVE  /\ Append(a, e) \in Seq(Connection) /\ Len(Append(a, e)) = Len(a) + 1
         /\ \A c : Has(a, c) => Has(Append(a, e), c)
         /\ \A c : Shown(a, c) /\ (e.callId = c => e.state \in Running)
                 => Shown(Append(a, e), c)
<1> DEFINE b == Append(a, e)
<1>1. Len(a) \in Nat
  BY LenProperties
<1>2. /\ b \in Seq(Connection) /\ Len(b) = Len(a) + 1
      /\ \A k \in 1..Len(a) : b[k] = a[k]
      /\ b[Len(a) + 1] = e
  BY AppendProperties
<1> HIDE DEF b
<1>3. \A k \in 1..Len(b) : k \in 1..Len(a) \/ b[k] = e
  BY <1>1, <1>2
<1>4. 1..Len(a) \subseteq 1..Len(b)
  BY <1>1, <1>2
<1>5. \A c : Has(a, c) => Has(b, c)
  BY <1>2, <1>4 DEF Has
<1>6. \A c : Shown(a, c) /\ (e.callId = c => e.state \in Running) => Shown(b, c)
  BY <1>2, <1>3, <1>4 DEF Shown
<1> QED BY <1>2, <1>5, <1>6 DEF b

-----------------------------------------------------------------------------
(* The actions.  Those that only set states of connections are covered by  *)
(* one lemma.                                                              *)

RequestsOK == requests' \in Seq(Request) /\ Len(requests') <= MaxRequests

LEMMA RenewedStep ==
  ASSUME TypeOK, NEW T, core' \in [Calls -> CoreState], RequestsOK,
         Renewed(connections, connections', T),
         \A d \in Calls : core'[d] = "streaming"
           => \/ core[d] = "streaming" /\ d \notin T
              \/ Shown(connections', d)
  PROVE  Steps
<1>1. TypeOK'
  BY DEF TypeOK, RequestsOK, Renewed
<1>2. ASSUME NEW c \in Calls, Has(connections, c)
      PROVE  Has(connections', c)
  BY <1>2, RenewedHas
<1>3. ASSUME NEW c \in Calls, core'[c] = "streaming",
             core[c] = "streaming" => Shown(connections, c)
      PROVE  Shown(connections', c)
  BY <1>3, RenewedShown
<1> QED BY <1>1, <1>2, <1>3 DEF Steps

LEMMA MovesCore ==
  ASSUME TypeOK, NEW c \in Calls, NEW s \in CoreState, Moves(c, s)
  PROVE  /\ core' \in [Calls -> CoreState]
         /\ core'[c] = s /\ \A d \in Calls : d # c => core'[d] = core[d]
BY DEF TypeOK, Moves

LEMMA TakesCore ==
  ASSUME TypeOK, NEW c \in Calls, NEW s \in CoreState \ {"streaming"}, Takes(c, s)
  PROVE  /\ core' \in [Calls -> CoreState]
         /\ \A d \in Calls : core'[d] # "streaming"
<1>1. core \in [Calls -> CoreState] /\ "held" \in CoreState
  BY DEF TypeOK, CoreState
<1>2. \A d \in Calls : core'[d] = CASE d = c -> s
                                   [] d # c /\ core[d] = "streaming" -> "held"
                                   [] OTHER -> core[d]
  BY DEF Takes
<1>3. ASSUME NEW d \in Calls
      PROVE  core'[d] \in CoreState \ {"streaming"}
  <2>1. CASE d = c
    BY <1>2, <2>1
  <2>2. CASE d # c /\ core[d] = "streaming"
    BY <1>1, <1>2, <2>2
  <2>3. CASE d # c /\ core[d] # "streaming"
    BY <1>1, <1>2, <2>3
  <2> QED BY <2>1, <2>2, <2>3
<1>4. core' = [d \in Calls |-> core'[d]]
  BY DEF Takes
<1> QED BY <1>3, <1>4

LEMMA SameRequests ==
  ASSUME TypeOK, UNCHANGED requests
  PROVE  RequestsOK
BY DEF TypeOK, RequestsOK

LEMMA ConnectionsAreSeq ==
  ASSUME TypeOK
  PROVE  /\ connections \in Seq(Connection) /\ Len(connections) \in Nat
         /\ DOMAIN connections = 1..Len(connections)
         /\ \A k \in 1..Len(connections) : connections[k] \in Connection
<1>1. connections \in Seq(Connection)
  BY DEF TypeOK
<1> QED BY <1>1, LenProperties

LEMMA AppendRequest ==
  ASSUME TypeOK, NEW r \in Request, Len(requests) < MaxRequests,
         requests' = Append(requests, r)
  PROVE  RequestsOK
<1>1. requests \in Seq(Request) /\ Len(requests) \in Nat
  BY LenProperties DEF TypeOK
<1>2. requests' \in Seq(Request) /\ Len(requests') = Len(requests) + 1
  BY <1>1, AppendProperties
<1> QED BY <1>1, <1>2, TelecomAssumption DEF RequestsOK

LEMMA IncomingReceivedStep ==
  ASSUME TypeOK, NEW c \in Calls, IncomingReceived(c)
  PROVE  Steps
<1>1. PICK n \in 1..MaxReports :
        /\ Len(requests) + n <= MaxRequests
        /\ requests' = requests \o [l \in 1..n |-> [kind |-> "incoming", id |-> c]]
  BY DEF IncomingReceived
<1> DEFINE more == [l \in 1..n |-> [kind |-> "incoming", id |-> c]]
<1>2. more \in Seq(Request) /\ Len(more) = n
  <2>1. n \in Nat
    BY TelecomAssumption
  <2>2. more \in [1..n -> Request]
    BY DEF Request
  <2> HIDE DEF more
  <2> QED BY <2>1, <2>2
<1>3. requests \in Seq(Request)
  BY DEF TypeOK
<1> HIDE DEF more
<1>4. requests \o more \in Seq(Request) /\ Len(requests \o more) = Len(requests) + Len(more)
  BY <1>2, <1>3, ConcatProperties
<1>5. RequestsOK
  BY <1>1, <1>2, <1>4 DEF RequestsOK, more
<1>6. "incoming" \in CoreState /\ Moves(c, "incoming") /\ UNCHANGED connections
  BY DEF CoreState, IncomingReceived
<1>7. /\ core' \in [Calls -> CoreState]
      /\ core'[c] = "incoming" /\ \A d \in Calls : d # c => core'[d] = core[d]
  BY <1>6, MovesCore
<1>8. Renewed(connections, connections', {})
  BY <1>6, ConnectionsAreSeq, RenewedItself
<1> QED BY <1>5, <1>7, <1>8, RenewedStep

LEMMA OutgoingCallStep ==
  ASSUME TypeOK, NEW c \in Calls, OutgoingCall(c)
  PROVE  Steps
<1>1. PICK s \in {"init", "progress"}, i \in {c, NoId} :
        Takes(c, s) /\ requests' = Append(requests, [kind |-> "outgoing", id |-> i])
  BY DEF OutgoingCall
<1>2. s \in CoreState \ {"streaming"}
  BY DEF CoreState
<1>3. /\ core' \in [Calls -> CoreState]
      /\ \A d \in Calls : core'[d] # "streaming"
  BY <1>1, <1>2, TakesCore
<1>4. [kind |-> "outgoing", id |-> i] \in Request
  BY DEF Request
<1>5. RequestsOK
  BY <1>1, <1>4, AppendRequest DEF OutgoingCall
<1> DEFINE b == HoldStreaming(connections, c)
<1>6. Renewed(connections, b, Calls) /\ b \in Seq(Connection)
  BY ConnectionsAreSeq, HoldRenews DEF Renewed
<1>7. connections' = b \/ connections' = Adopt(b, c)
  BY DEF OutgoingCall
<1> HIDE DEF b
<1>8. CASE connections' = b
  BY <1>3, <1>5, <1>6, <1>8, RenewedStep
<1>9. CASE connections' = Adopt(b, c)
  <2>1. /\ connections' \in Seq(Connection) /\ Len(connections') = Len(connections)
        /\ \A d \in Calls : Has(b, d) => Has(connections', d)
    BY <1>6, <1>9, AdoptKeeps DEF Renewed
  <2>2. \A d \in Calls : Has(connections, d) => Has(connections', d)
    BY <1>6, <2>1, RenewedHas
  <2>3. TypeOK'
    BY <1>3, <1>5, <2>1 DEF TypeOK, RequestsOK
  <2> QED BY <1>3, <2>2, <2>3 DEF Steps
<1> QED BY <1>7, <1>8, <1>9

LEMMA OutgoingCallRefusedStep ==
  ASSUME TypeOK, OutgoingCallRefused
  PROVE  Steps
<1>1. PICK c \in Calls : requests' = Append(requests, [kind |-> "outgoing", id |-> c])
  BY DEF OutgoingCallRefused
<1>2. [kind |-> "outgoing", id |-> c] \in Request
  BY DEF Request
<1>3. RequestsOK
  BY <1>1, <1>2, AppendRequest DEF OutgoingCallRefused
<1>4. core' = core /\ connections' = connections
  BY DEF OutgoingCallRefused
<1>5. Renewed(connections, connections', {})
  BY <1>4, ConnectionsAreSeq, RenewedItself
<1>6. core' \in [Calls -> CoreState]
  BY <1>4 DEF TypeOK
<1> QED BY <1>3, <1>4, <1>5, <1>6, RenewedStep

LEMMA OutgoingProgressStep ==
  ASSUME TypeOK, NEW c \in Calls, OutgoingProgress(c)
  PROVE  Steps
<1>1. "progress" \in CoreState /\ Moves(c, "progress")
  BY DEF CoreState, OutgoingProgress
<1>2. /\ core' \in [Calls -> CoreState]
      /\ core'[c] = "progress" /\ \A d \in Calls : d # c => core'[d] = core[d]
  BY <1>1, MovesCore
<1>3. connections' = Adopt(connections, c) /\ RequestsOK
  BY SameRequests DEF OutgoingProgress
<1>4. /\ connections' \in Seq(Connection) /\ Len(connections') = Len(connections)
      /\ \A d \in Calls : Has(connections, d) => Has(connections', d)
      /\ \A d \in Calls : d # c /\ Shown(connections, d) => Shown(connections', d)
  BY <1>3, AdoptKeeps, ConnectionsAreSeq
<1>5. TypeOK'
  BY <1>2, <1>3, <1>4 DEF TypeOK, RequestsOK
<1> QED BY <1>2, <1>4, <1>5 DEF Steps

(* The steps of the core that the service follows with one state.          *)
LEMMA FollowedStep ==
  ASSUME TypeOK, NEW c \in Calls, NEW s \in CoreState, NEW t \in {"ACTIVE", "HOLDING"},
         Moves(c, s), s = "streaming" => t = "ACTIVE", UNCHANGED requests,
         connections' = Follow(connections, c, t)
  PROVE  Steps
<1>1. /\ core' \in [Calls -> CoreState]
      /\ core'[c] = s /\ \A d \in Calls : d # c => core'[d] = core[d]
  BY MovesCore
<1>2. Renewed(connections, connections', {c})
  BY ConnectionsAreSeq, FollowRenews
<1>3. s = "streaming" => Shown(connections', c)
  BY ConnectionsAreSeq, FollowShows
<1> QED BY <1>1, <1>2, <1>3, SameRequests, RenewedStep

LEMMA FollowedSteps ==
  ASSUME TypeOK, NEW c \in Calls, RemoteAnswers(c) \/ StreamsRunning(c) \/ Paused(c)
  PROVE  Steps
<1>1. {"connected", "streaming", "held"} \subseteq CoreState
  BY DEF CoreState
<1>2. CASE RemoteAnswers(c)
  BY <1>1, <1>2, FollowedStep DEF RemoteAnswers
<1>3. CASE StreamsRunning(c)
  BY <1>1, <1>3, FollowedStep DEF StreamsRunning
<1>4. CASE Paused(c)
  BY <1>1, <1>4, FollowedStep DEF Paused
<1> QED BY <1>2, <1>3, <1>4

(* The steps in which a call takes the sound device: none has media then.  *)
LEMMA TakingStep ==
  ASSUME TypeOK, NEW c \in Calls, NEW s \in {"connected", "resuming"}, Takes(c, s),
         UNCHANGED requests, NEW T, Renewed(connections, connections', T)
  PROVE  Steps
<1>1. s \in CoreState \ {"streaming"}
  BY DEF CoreState
<1> QED BY <1>1, TakesCore, SameRequests, RenewedStep

LEMMA AnsweredStep ==
  ASSUME TypeOK, NEW c \in Calls, Answered(c)
  PROVE  Steps
<1> DEFINE b == HoldStreaming(connections, c)
<1>1. Renewed(connections, b, Calls)
  BY ConnectionsAreSeq, HoldRenews
<1> HIDE DEF b
<1>2. b \in Seq(Connection)
  BY <1>1 DEF Renewed
<1>3. Renewed(b, Follow(b, c, "ACTIVE"), Calls)
  BY <1>2, FollowRenews
<1>4. Renewed(connections, connections', Calls \cup Calls)
  BY <1>1, <1>3, RenewedTwice DEF Answered, b
<1>5. Takes(c, "connected") /\ UNCHANGED requests
  BY DEF Answered
<1> QED BY <1>4, <1>5, TakingStep

LEMMA ResumedStep ==
  ASSUME TypeOK, NEW c \in Calls, Resumed(c)
  PROVE  Steps
<1>1. Renewed(connections, connections', Calls)
  BY ConnectionsAreSeq, HoldRenews DEF Resumed
<1>2. Takes(c, "resuming") /\ UNCHANGED requests
  BY DEF Resumed
<1> QED BY <1>1, <1>2, TakingStep

LEMMA EndedStep ==
  ASSUME TypeOK, NEW c \in Calls, Ended(c)
  PROVE  Steps
<1> DEFINE id == IdOf(c)
<1>0. id \in {c, NoId} /\ \A d \in Calls : d # c => d # id
  BY TelecomAssumption DEF IdOf
<1>1. PICK s \in {"ended", "failed"} : s \in CoreState /\ Moves(c, s)
  BY DEF CoreState, Ended
<1>2. /\ core' \in [Calls -> CoreState]
      /\ core'[c] = s /\ \A d \in Calls : d # c => core'[d] = core[d]
  BY <1>1, MovesCore
<1>3. RequestsOK /\ connections \in Seq(Connection) /\ Len(connections) \in Nat
  BY SameRequests, ConnectionsAreSeq DEF Ended
<1>4. MaxConnections \in Nat /\ Len(connections) <= MaxConnections
  BY TelecomAssumption DEF TypeOK
<1>5. CASE LiveCalls = {c}
  <2>1. \A d \in Calls : d \in LiveCalls => d \notin LiveCalls'
    BY <1>2, <1>5 DEF LiveCalls
  <2>2. \A d \in Calls : core'[d] # "streaming"
    BY <1>2, <1>5 DEF LiveCalls
  <2>3. \/ connections' = DestroyZombies(Drop(connections, id))
        \/ connections' = Drop(DestroyZombies(connections), id)
    BY <1>5 DEF Ended
  <2>4. connections' \in Seq(Connection) /\ Len(connections') <= MaxConnections
    <3>1. CASE connections' = DestroyZombies(Drop(connections, id))
      <4> DEFINE b == Drop(connections, id)
      <4>1. b \in Seq(Connection) /\ Len(b) <= Len(connections)
        BY <1>3, DropKeeps
      <4> HIDE DEF b
      <4>2. Len(b) \in Nat /\ DestroyZombies(b) \in Seq(Connection)
            /\ Len(DestroyZombies(b)) <= Len(b) /\ Len(DestroyZombies(b)) \in Nat
        BY <4>1, DestroyTypes, LenProperties
      <4>3. connections' = DestroyZombies(b)
        BY <3>1 DEF b
      <4> QED BY <1>3, <1>4, <4>1, <4>2, <4>3
    <3>2. CASE connections' = Drop(DestroyZombies(connections), id)
      <4> DEFINE b == DestroyZombies(connections)
      <4>1. b \in Seq(Connection) /\ Len(b) <= Len(connections)
        BY <1>3, DestroyTypes
      <4> HIDE DEF b
      <4>2. Len(b) \in Nat /\ Drop(b, id) \in Seq(Connection)
            /\ Len(Drop(b, id)) <= Len(b) /\ Len(Drop(b, id)) \in Nat
        BY <4>1, DropKeeps, LenProperties
      <4>3. connections' = Drop(b, id)
        BY <3>2 DEF b
      <4> QED BY <1>3, <1>4, <4>1, <4>2, <4>3
    <3> QED BY <2>3, <3>1, <3>2
  <2>5. TypeOK'
    BY <1>2, <1>3, <2>4 DEF TypeOK, RequestsOK
  <2> QED BY <2>1, <2>2, <2>5 DEF Steps
<1>6. CASE LiveCalls # {c}
  <2>1. connections' = Drop(connections, id)
    BY <1>6 DEF Ended
  <2>2. c \notin LiveCalls' /\ core'[c] # "streaming"
    BY <1>2 DEF LiveCalls
  <2>3. /\ connections' \in Seq(Connection) /\ Len(connections') <= Len(connections)
        /\ \A d \in Calls : d # c => /\ Has(connections, d) => Has(connections', d)
                                     /\ Shown(connections, d) => Shown(connections', d)
    BY <1>0, <1>3, <2>1, DropKeeps
  <2>4. Len(connections') \in Nat
    BY <2>3, LenProperties
  <2>5. TypeOK'
    BY <1>2, <1>3, <1>4, <2>3, <2>4 DEF TypeOK, RequestsOK
  <2> QED BY <1>2, <2>2, <2>3, <2>5 DEF Steps
<1> QED BY <1>5, <1>6

LEMMA ReleasedStep ==
  ASSUME TypeOK, NEW c \in Calls, Released(c)
  PROVE  Steps
<1> DEFINE id == IdOf(c)
<1>0. id \in {c, NoId} /\ \A d \in Calls : d # c => d # id
  BY TelecomAssumption DEF IdOf
<1>1. "released" \in CoreState /\ Moves(c, "released") /\ core[c] \in {"ended", "failed"}
  BY DEF CoreState, Released
<1>2. /\ core' \in [Calls -> CoreState]
      /\ core'[c] = "released" /\ \A d \in Calls : d # c => core'[d] = core[d]
  BY <1>1, MovesCore
<1>3. RequestsOK /\ connections \in Seq(Connection) /\ Len(connections) \in Nat
  BY SameRequests, ConnectionsAreSeq DEF Released
<1>4. MaxConnections \in Nat /\ Len(connections) <= MaxConnections
  BY TelecomAssumption DEF TypeOK
<1>5. c \notin LiveCalls
  BY <1>1 DEF LiveCalls
<1>6. /\ connections' \in Seq(Connection) /\ Len(connections') <= Len(connections)
      /\ \A d \in Calls : d # c => /\ Has(connections, d) => Has(connections', d)
                                   /\ Shown(connections, d) => Shown(connections', d)
  BY <1>0, <1>3, DropKeeps DEF Released
<1>7. Len(connections') \in Nat
  BY <1>6, LenProperties
<1>8. TypeOK'
  BY <1>2, <1>3, <1>4, <1>6, <1>7 DEF TypeOK, RequestsOK
<1> QED BY <1>2, <1>5, <1>6, <1>8 DEF Steps

(* The first request is answered or refused.                               *)
LEMMA TailOfRequests ==
  ASSUME TypeOK, requests # <<>>, requests' = Tail(requests)
  PROVE  RequestsOK /\ Head(requests) \in Request
<1>1. requests \in Seq(Request) /\ Len(requests) \in Nat /\ Len(requests) <= MaxRequests
  BY LenProperties DEF TypeOK
<1>2. Head(requests) \in Request /\ requests' \in Seq(Request)
      /\ Len(requests') = Len(requests) - 1
  BY <1>1, HeadTailProperties
<1> QED BY <1>1, <1>2, TelecomAssumption DEF RequestsOK

LEMMA CreateConnectionStep ==
  ASSUME TypeOK, CreateConnection
  PROVE  Steps
<1>1. RequestsOK /\ Head(requests) \in Request /\ core' = core
  BY TailOfRequests DEF CreateConnection
<1>2. connections \in Seq(Connection) /\ Len(connections) \in Nat
      /\ core \in [Calls -> CoreState]
  BY ConnectionsAreSeq DEF TypeOK
<1>3. CASE LiveCalls = {}
  <2>1. Renewed(connections, connections', {})
    BY <1>2, <1>3, RenewedItself DEF CreateConnection
  <2> QED BY <1>1, <1>2, <2>1, RenewedStep
<1>4. CASE LiveCalls # {}
  <2> DEFINE kind == Head(requests).kind
  <2>1. PICK id \in Named(Head(requests).id) :
          connections' = Append(connections, [callId |-> id, state |-> StartState(kind, id)])
    BY <1>4 DEF CreateConnection
  <2>2. id \in Calls \cup {NoId}
    BY <1>1, <2>1 DEF Named, Request, LiveCalls
  <2>3. StartState(kind, id) \in {"RINGING", "DIALING", "ACTIVE", "HOLDING"}
    BY DEF StartState
  <2>4. ASSUME id \in Calls, core[id] = "streaming"
        PROVE  StartState(kind, id) = "ACTIVE"
    BY <2>4 DEF StartState, LiveCalls
  <2> DEFINE e == [callId |-> id, state |-> StartState(kind, id)]
  <2>5. e \in Connection /\ e.callId = id /\ e.state = StartState(kind, id)
    BY <2>2, <2>3 DEF Connection
  <2> HIDE DEF e
  <2>6. /\ Append(connections, e) \in Seq(Connection)
        /\ Len(Append(connections, e)) = Len(connections) + 1
        /\ \A c : Has(connections, c) => Has(Append(connections, e), c)
        /\ \A c : Shown(connections, c) /\ (e.callId = c => e.state \in Running)
                => Shown(Append(connections, e), c)
    BY <1>2, <2>5, AppendKeeps
  <2>7. connections' = Append(connections, e)
    BY <2>1 DEF e
  <2>8. Len(connections) < MaxConnections /\ MaxConnections \in Nat
    BY <1>4, TelecomAssumption DEF CreateConnection
  <2>9. TypeOK'
    BY <1>1, <1>2, <2>6, <2>7, <2>8 DEF TypeOK, RequestsOK
  <2>10. \A c \in Calls : core[c] = "streaming" /\ e.callId = c => e.state \in Running
    BY <2>4, <2>5 DEF Running
  <2> QED BY <1>1, <2>6, <2>7, <2>9, <2>10 DEF Steps
<1> QED BY <1>3, <1>4

LEMMA RefuseConnectionStep ==
  ASSUME TypeOK, RefuseConnection
  PROVE  Steps
<1>1. RequestsOK /\ core' = core
  BY TailOfRequests DEF RefuseConnection
<1>2. Renewed(connections, connections', {}) /\ core \in [Calls -> CoreState]
  BY ConnectionsAreSeq, RenewedItself DEF RefuseConnection, TypeOK
<1> QED BY <1>1, <1>2, RenewedStep

(* What telecom does to connection k. *)
LEMMA SelfDestroyRenews ==
  ASSUME TypeOK, NEW k \in 1..Len(connections)
  PROVE  Renewed(connections, SelfDestroy(k), {})
<1>1. connections \in Seq(Connection)
  BY ConnectionsAreSeq
<1>2. "DISCONNECTED" \in Running
  BY DEF Running
<1>3. Renewed(connections, SetState(connections, k, "DISCONNECTED"), {})
  BY <1>1, <1>2, SetStateRenews
<1> QED BY <1>1, <1>3, RenewedItself DEF SelfDestroy

(* A state that is set on connection k of a list renewed before.           *)
LEMMA ThenSetRenews ==
  ASSUME TypeOK, NEW b, NEW T, Renewed(connections, b, T),
         NEW k \in 1..Len(connections), NEW s \in {"ACTIVE", "HOLDING"},
         s = "ACTIVE" \/ connections[k].callId \in T
  PROVE  Renewed(connections, SetState(b, k, s), T)
<1>1. b \in Seq(Connection) /\ k \in 1..Len(b) /\ b[k].callId = connections[k].callId
  BY DEF Renewed
<1>2. s \in Running \/ b[k].callId \in T
  BY <1>1 DEF Running
<1>3. Renewed(b, SetState(b, k, s), T)
  BY <1>1, <1>2, SetStateRenews
<1>4. Renewed(connections, SetState(b, k, s), T \cup T)
  BY <1>3, RenewedTwice
<1> QED BY <1>4

LEMMA OnHoldStep ==
  ASSUME TypeOK, NEW k \in 1..Len(connections), OnHold(k)
  PROVE  Steps
<1> DEFINE c == connections[k].callId
           own == IF c \in LiveCalls THEN connections ELSE SelfDestroy(k)
<1>1. RequestsOK /\ core \in [Calls -> CoreState] /\ connections \in Seq(Connection)
  BY SameRequests DEF OnHold, TypeOK
<1>2. CASE c \in LiveCalls /\ core[c] = "streaming"
  <2>1. c \in Calls /\ "held" \in CoreState
    BY <1>2 DEF LiveCalls, CoreState
  <2>2. /\ Moves(c, "held")
        /\ connections' = SetState(Follow(connections, c, "HOLDING"), k, "HOLDING")
    BY <1>2 DEF OnHold
  <2>3. /\ core' \in [Calls -> CoreState]
        /\ core'[c] = "held" /\ \A d \in Calls : d # c => core'[d] = core[d]
    BY <2>1, <2>2, MovesCore
  <2>4. Renewed(connections, Follow(connections, c, "HOLDING"), {c})
    BY <1>1, FollowRenews
  <2>5. Renewed(connections, connections', {c})
    BY <2>2, <2>4, ThenSetRenews
  <2> HIDE DEF c
  <2> QED BY <1>1, <2>3, <2>5, RenewedStep
<1>3. CASE ~(c \in LiveCalls /\ core[c] = "streaming")
  <2>1. core' = core /\ connections' = SetState(own, k, "HOLDING")
    BY <1>3 DEF OnHold
  <2>2. Renewed(connections, own, {})
    BY <1>1, SelfDestroyRenews, RenewedItself
  <2>3. Renewed(connections, own, {c})
    BY <2>2 DEF Renewed
  <2>4. Renewed(connections, SetState(own, k, "HOLDING"), {c})
    <3> HIDE DEF own
    <3> QED BY <2>3, ThenSetRenews
  <2>5. \A d \in Calls : core[d] = "streaming" => d # c
    BY <1>3 DEF LiveCalls
  <2>6. Renewed(connections, connections', {c})
    BY <2>1, <2>4
  <2> HIDE DEF c, own
  <2> QED BY <1>1, <2>1, <2>5, <2>6, RenewedStep
<1> QED BY <1>2, <1>3

LEMMA OnUnholdStep ==
  ASSUME TypeOK, NEW k \in 1..Len(connections), OnUnhold(k)
  PROVE  Steps
<1> DEFINE c == connections[k].callId
           own == IF c \in LiveCalls THEN connections ELSE SelfDestroy(k)
<1>1. RequestsOK /\ core \in [Calls -> CoreState] /\ connections \in Seq(Connection)
  BY SameRequests DEF OnUnhold, TypeOK
<1>2. CASE c \in LiveCalls /\ core[c] = "held" /\ ~Locked(c)
  <2>1. c \in Calls
    BY <1>2 DEF LiveCalls
  <2>2. /\ Takes(c, "resuming") /\ UNCHANGED requests
        /\ connections' = SetState(HoldStreaming(connections, c), k, "ACTIVE")
    BY <1>2 DEF OnUnhold
  <2>3. Renewed(connections, HoldStreaming(connections, c), Calls)
    BY <1>1, <2>1, HoldRenews
  <2>4. Renewed(connections, connections', Calls)
    BY <2>2, <2>3, ThenSetRenews
  <2> HIDE DEF c
  <2> QED BY <2>1, <2>2, <2>4, TakingStep
<1>3. CASE ~(c \in LiveCalls /\ core[c] = "held" /\ ~Locked(c))
  <2>1. core' = core /\ connections' = SetState(own, k, "ACTIVE")
    BY <1>3 DEF OnUnhold
  <2>2. Renewed(connections, own, {})
    BY <1>1, SelfDestroyRenews, RenewedItself
  <2>3. Renewed(connections, connections', {})
    <3> HIDE DEF own
    <3> QED BY <2>1, <2>2, ThenSetRenews
  <2> HIDE DEF c, own
  <2> QED BY <1>1, <2>1, <2>3, RenewedStep
<1> QED BY <1>2, <1>3

LEMMA OnOtherStep ==
  ASSUME TypeOK, NEW k \in 1..Len(connections), OnOther(k)
  PROVE  Steps
<1>1. RequestsOK /\ core' = core /\ core \in [Calls -> CoreState]
  BY SameRequests DEF OnOther, TypeOK
<1>2. Renewed(connections, connections', {})
  BY SelfDestroyRenews DEF OnOther
<1> QED BY <1>1, <1>2, RenewedStep

LEMMA NextStep ==
  ASSUME TypeOK, [Next]_vars
  PROVE  Steps
<1>1. CASE UNCHANGED vars
  <2>1. RequestsOK /\ core' = core /\ core \in [Calls -> CoreState]
    BY <1>1, SameRequests DEF TypeOK, vars
  <2>2. Renewed(connections, connections', {})
    BY <1>1, ConnectionsAreSeq, RenewedItself DEF vars
  <2> QED BY <2>1, <2>2, RenewedStep
<1>2. ASSUME NEW c \in Calls,
             \/ IncomingReceived(c) \/ OutgoingCall(c) \/ OutgoingProgress(c)
             \/ RemoteAnswers(c) \/ Answered(c) \/ StreamsRunning(c)
             \/ Paused(c) \/ Resumed(c) \/ Ended(c) \/ Released(c)
      PROVE  Steps
  BY <1>2, IncomingReceivedStep, OutgoingCallStep, OutgoingProgressStep, FollowedSteps,
     AnsweredStep, ResumedStep, EndedStep, ReleasedStep
<1>3. ASSUME NEW k \in DOMAIN connections, OnHold(k) \/ OnUnhold(k) \/ OnOther(k)
      PROVE  Steps
  BY <1>3, ConnectionsAreSeq, OnHoldStep, OnUnholdStep, OnOtherStep
<1>4. CASE OutgoingCallRefused \/ CreateConnection \/ RefuseConnection
  BY <1>4, OutgoingCallRefusedStep, CreateConnectionStep, RefuseConnectionStep
<1> QED BY <1>1, <1>2, <1>3, <1>4 DEF Next

-----------------------------------------------------------------------------
LEMMA InitTypes == Init => TypeOK /\ StreamingShown
<1> SUFFICES ASSUME Init PROVE TypeOK /\ StreamingShown
  OBVIOUS
<1>1. core \in [Calls -> CoreState] /\ \A c \in Calls : core[c] # "streaming"
  BY DEF Init, CoreState
<1>2. requests \in Seq(Request) /\ Len(requests) <= MaxRequests
  BY TelecomAssumption DEF Init
<1>3. connections \in Seq(Connection) /\ Len(connections) <= MaxConnections
  BY TelecomAssumption DEF Init
<1> QED BY <1>1, <1>2, <1>3 DEF TypeOK, StreamingShown

LEMMA TypesShown == Spec => [](TypeOK /\ StreamingShown)
<1>1. TypeOK /\ StreamingShown /\ [Next]_vars => (TypeOK /\ StreamingShown)'
  BY NextStep DEF Steps, StreamingShown
<1> QED BY <1>1, InitTypes, PTL DEF Spec

(* Every connection has an id and one of Android's states, however late    *)
(* telecom creates it, and the list keeps within its bound.                *)
THEOREM TelecomTypes == Spec => []TypeOK
<1> QED BY TypesShown, PTL

(* For any number of calls, reports and connections, the connection found  *)
(* for a call with media is active, unless it was disconnected before it   *)
(* got the id of that call (TelecomConnectionService.kt 195).              *)
THEOREM TelecomActive == Spec => []StreamingIsActive
<1>1. TypeOK /\ StreamingShown => StreamingIsActive
  <2> SUFFICES ASSUME TypeOK, StreamingShown,
                      NEW c \in Calls, core[c] = "streaming", Matches(connections, c) # {}
               PROVE  connections[FirstMatch(connections, c)].state \in Running
    BY DEF StreamingIsActive, Running
  <2>1. /\ FirstMatch(connections, c) \in 1..Len(connections)
        /\ connections[FirstMatch(connections, c)].callId = c
        /\ \A l \in 1..Len(connections) :
             connections[l].callId = c => FirstMatch(connections, c) <= l
    BY ConnectionsAreSeq, FirstMatchIsFirst
  <2> QED BY <2>1 DEF StreamingShown, Shown
<1> QED BY <1>1, TypesShown, PTL

(* No end of another call, and no id that becomes known, takes the last    *)
(* connection of a call that goes on from the list.                        *)
THEOREM TelecomKeeps == Spec => LiveCallKeepsConnection
<1> DEFINE Kept == \A c \in LiveCalls :
                     Matches(connections, c) # {} /\ c \in LiveCalls'
                       => Matches(connections', c) # {}
<1>1. TypeOK /\ [Next]_vars => [Kept]_vars
  <2> SUFFICES ASSUME TypeOK, [Next]_vars, NEW c \in LiveCalls,
                      Matches(connections, c) # {}, c \in LiveCalls'
               PROVE  Matches(connections', c) # {}
    OBVIOUS
  <2>1. Steps /\ c \in Calls
    BY NextStep DEF LiveCalls
  <2>2. connections \in Seq(Connection) /\ connections' \in Seq(Connection)
    BY <2>1 DEF Steps, TypeOK
  <2>3. Has(connections, c)
    BY <2>2, MatchesHas
  <2>4. Has(connections', c)
    BY <2>1, <2>3 DEF Steps
  <2> QED BY <2>2, <2>4, MatchesHas
<1> QED BY <1>1, TelecomTypes, PTL DEF Spec, LiveCallKeepsConnection

=============================================================================
