--------------------------- MODULE Softphone_proofs ---------------------------
(***************************************************************************)
(* Proofs about Softphone for every set of calls and uuids and on both     *)
(* platforms.  One lemma per operator says that it maps a well-formed      *)
(* Softphone object to a well-formed one and what it does to the list of   *)
(* calls and the focus; the theorems then go through the actions.          *)
(***************************************************************************)
EXTENDS Softphone, TLAPS, FiniteSetTheorems, LeastElements

(* A well-formed Softphone object: the type invariant holds of it, and its *)
(* list is finite, as counting the objects of one call requires.           *)
Sound(p) == p \in Phone /\ IsFiniteSet(p.calls)

(* What commands leave alone: the list, its numbering and the answers.     *)
SameList(p, q) ==
  /\ q.calls = p.calls /\ q.created = p.created /\ q.keys = p.keys
  /\ q.endedCalls = p.endedCalls

(* What a handler that only sends commands leaves alone. *)
OnlySends(p, q) ==
  /\ SameList(p, q) /\ q.activeCall = p.activeCall
  /\ q.uuid = p.uuid /\ q.answerTime = p.answerTime
  /\ q.state = p.state /\ q.callIdsAnswered = p.callIdsAnswered

(* While a call is listed some call has the focus. *)
Focused(p) == p.calls # {} => p.activeCall # NoCall

-----------------------------------------------------------------------------
(* Of a non-empty set of calls the oldest is a member, and none has a      *)
(* lower number.                                                           *)
LEMMA OldestIsMember ==
  ASSUME NEW cs \in SUBSET Call, cs # {}
  PROVE  Oldest(cs) \in cs /\ \A d \in cs : Oldest(cs).n <= d.n
<1> DEFINE T == {c.n : c \in cs}
<1>1. T \subseteq 1..MaxObjects /\ T # {}
  BY DEF Call
<1>2. IsFiniteSet(T)
  <2>1. IsFiniteSet(1..MaxObjects)
    BY SoftphoneAssumption, FS_Interval
  <2> HIDE DEF T
  <2> QED BY <1>1, <2>1, FS_Subset
<1>3. PICK x \in T : \A y \in T : x <= y
  BY <1>1, <1>2, LeastElement
<1>4. PICK c \in cs : c.n = x
  OBVIOUS
<1>5. \A d \in cs : c.n <= d.n
  BY <1>3, <1>4
<1> QED BY <1>5 DEF Oldest

(* Looking a call up by its id or uuid finds a listed call or null. *)
LEMMA LookupFindsListed ==
  ASSUME NEW p, Sound(p)
  PROVE  /\ \A i \in Ids : CallById(p, i) \in p.calls \cup {NoCall}
         /\ \A u : CallByUuid(p, u) \in p.calls \cup {NoCall}
<1>1. ASSUME NEW i PROVE CallById(p, i) \in p.calls \cup {NoCall}
  <2> DEFINE cs == {c \in p.calls : c.id = i}
  <2>1. cs \in SUBSET Call
    BY DEF Sound, Phone
  <2>2. cs # {} => Oldest(cs) \in cs
    BY <2>1, OldestIsMember
  <2> QED BY <2>2 DEF CallById, IsListed
<1> QED BY <1>1 DEF CallByUuid

-----------------------------------------------------------------------------
(* Sending commands changes nothing but the channel. *)
LEMMA UuidsType ==
  ASSUME NEW p, Sound(p), NEW cs \in SUBSET Call
  PROVE  OwnUuids(cs) \in SUBSET Uuids /\ DataUuids(p, cs) \in SUBSET Uuids
<1>1. \A c \in cs : c.id \in Ids
  BY DEF Call
<1>2. p.uuid \in [Ids -> Uuids \cup {NoUuid}]
  BY DEF Sound, Phone
<1> QED BY <1>1, <1>2, SoftphoneAssumption DEF OwnUuids, DataUuids

LEMMA SendSound ==
  ASSUME NEW p, Sound(p), NEW cmds \in Seq(Command)
  PROVE  Sound(Send(p, cmds)) /\ OnlySends(p, Send(p, cmds))
<1>1. p.out \o cmds \in Seq(Command)
  BY DEF Sound, Phone
<1>2. [p EXCEPT !.out = p.out \o cmds] \in Phone
  BY <1>1 DEF Sound, Phone
<1>3. OnlySends(p, [p EXCEPT !.out = p.out \o cmds])
  BY DEF Sound, Phone, OnlySends, SameList
<1> QED BY <1>2, <1>3 DEF Sound, Send, OnlySends, SameList

LEMMA OnlySendsTransitive ==
  ASSUME NEW p, NEW q, NEW r, OnlySends(p, q), OnlySends(q, r)
  PROVE  OnlySends(p, r)
BY DEF OnlySends, SameList

LEMMA HoldCallsSound ==
  ASSUME NEW p, Sound(p), NEW cs \in SUBSET Call
  PROVE  Sound(HoldCalls(p, cs)) /\ OnlySends(p, HoldCalls(p, cs))
<1>1. OwnUuids(cs) \in SUBSET Uuids /\ DataUuids(p, cs) \in SUBSET Uuids
  BY UuidsType
<1>2. OnAndroid(<<Cmd("lpHold", DataUuids(p, cs))>>) \in Seq(Command)
  <2>1. <<Cmd("lpHold", DataUuids(p, cs))>> \in Seq(Command)
    BY <1>1 DEF Cmd, Command
  <2>2. <<>> \in Seq(Command)
    OBVIOUS
  <2> QED BY <2>1, <2>2 DEF OnAndroid
<1>3. <<Cmd("lpHold", OwnUuids(cs)), Cmd("setHold", DataUuids(p, cs))>> \in Seq(Command)
  BY <1>1 DEF Cmd, Command
<1>4. OnAndroid(<<Cmd("lpHold", DataUuids(p, cs))>>)
        \o <<Cmd("lpHold", OwnUuids(cs)), Cmd("setHold", DataUuids(p, cs))>> \in Seq(Command)
  BY <1>2, <1>3
<1>5. OnlySends(p, p)
  BY DEF OnlySends, SameList
<1> QED BY <1>4, <1>5, SendSound DEF HoldCalls

LEMMA UnholdCallSound ==
  ASSUME NEW p, Sound(p), NEW c \in Call
  PROVE  Sound(UnholdCall(p, c)) /\ OnlySends(p, UnholdCall(p, c))
<1>1. OwnUuids({c}) \in SUBSET Uuids /\ DataUuids(p, {c}) \in SUBSET Uuids
  BY UuidsType
<1>2. OnAndroid(<<Cmd("lpResume", DataUuids(p, {c}))>>) \in Seq(Command)
  <2>1. <<Cmd("lpResume", DataUuids(p, {c}))>> \in Seq(Command)
    BY <1>1 DEF Cmd, Command
  <2>2. <<>> \in Seq(Command)
    OBVIOUS
  <2> QED BY <2>1, <2>2 DEF OnAndroid
<1>3. <<Cmd("lpResume", OwnUuids({c})), Cmd("setUnhold", DataUuids(p, {c}))>> \in Seq(Command)
  BY <1>1 DEF Cmd, Command
<1>4. OnAndroid(<<Cmd("lpResume", DataUuids(p, {c}))>>)
        \o <<Cmd("lpResume", OwnUuids({c})), Cmd("setUnhold", DataUuids(p, {c}))>> \in Seq(Command)
  BY <1>2, <1>3
<1> QED BY <1>4, SendSound DEF UnholdCall

LEMMA SetHoldSound ==
  ASSUME NEW p, Sound(p), NEW c \in Call, NEW hold \in BOOLEAN, NEW fromUi \in BOOLEAN
  PROVE  Sound(SetHold(p, c, hold, fromUi)) /\ OnlySends(p, SetHold(p, c, hold, fromUi))
<1>1. OwnUuids({c}) \in SUBSET Uuids
  BY UuidsType
<1>2. <<Cmd(IF hold THEN "lpHold" ELSE "lpResume", OwnUuids({c}))>> \in Seq(Command)
  BY <1>1 DEF Cmd, Command
<1> QED BY <1>2, SendSound, HoldCallsSound, UnholdCallSound DEF SetHold

LEMMA SetMuteSound ==
  ASSUME NEW p, Sound(p), NEW c \in Call, NEW mute \in BOOLEAN, NEW fromUi \in BOOLEAN
  PROVE  Sound(SetMute(p, c, mute, fromUi)) /\ OnlySends(p, SetMute(p, c, mute, fromUi))
<1> DEFINE m == [p EXCEPT !.muted = IF mute THEN @ \cup {c.id} ELSE @ \ {c.id}]
           first == <<Cmd(IF mute THEN "lpMuteCall" ELSE "lpUnmuteCall", OwnUuids({c}))>>
           q == Send(m, first)
           second == <<Cmd(IF mute THEN "muteCall" ELSE "unMuteCall", DataUuids(q, {c}))>>
<1>1. Sound(m) /\ OnlySends(p, m)
  BY DEF Call, Sound, Phone, OnlySends, SameList
<1>2. first \in Seq(Command)
  BY UuidsType DEF Cmd, Command
<1>3. Sound(q) /\ OnlySends(m, q)
  BY <1>1, <1>2, SendSound
<1>4. second \in Seq(Command)
  BY <1>3, UuidsType DEF Cmd, Command
<1>5. Sound(Send(q, second)) /\ OnlySends(q, Send(q, second))
  BY <1>3, <1>4, SendSound
<1>6. OnlySends(p, q) /\ OnlySends(p, Send(q, second))
  BY <1>1, <1>3, <1>5, OnlySendsTransitive
<1>7. SetMute(p, c, mute, fromUi) = IF fromUi THEN Send(q, second) ELSE q
  BY Zenon DEF SetMute
<1> HIDE DEF m, first, q, second
<1> QED BY <1>3, <1>5, <1>6, <1>7

-----------------------------------------------------------------------------
(* Moving the focus to a call leaves the list alone. *)
LEMMA ReportOutgoingSound ==
  ASSUME NEW p, Sound(p), NEW c \in Call
  PROVE  Sound(ReportOutgoing(p, c)) /\ OnlySends(p, ReportOutgoing(p, c))
<1> DEFINE q == [p EXCEPT !.isReported = @ \cup {c.id}]
           cmds == <<Cmd("reportOutgoingCall", DataUuids(p, {c}))>>
<1>1. Sound(q) /\ OnlySends(p, q)
  BY DEF Call, Sound, Phone, OnlySends, SameList
<1>2. cmds \in Seq(Command)
  BY UuidsType DEF Cmd, Command
<1>3. Sound(Send(q, cmds)) /\ OnlySends(p, Send(q, cmds))
  BY <1>1, <1>2, SendSound, OnlySendsTransitive
<1>4. OnlySends(p, p)
  BY DEF OnlySends, SameList
<1>5. ReportOutgoing(p, c) = Send(q, cmds) \/ ReportOutgoing(p, c) = p
  BY Zenon DEF ReportOutgoing
<1> HIDE DEF q, cmds
<1> QED BY <1>3, <1>4, <1>5

LEMMA MakeActiveCallSound ==
  ASSUME NEW p, Sound(p), NEW c \in Call
  PROVE  LET q == MakeActiveCall(p, c)
         IN  /\ Sound(q) /\ SameList(p, q) /\ q.activeCall = c
             /\ q.uuid = p.uuid /\ q.answerTime = p.answerTime
             /\ q.state = p.state /\ q.callIdsAnswered = p.callIdsAnswered
<1> DEFINE a == [p EXCEPT !.activeCall = c]
           q == ReportOutgoing(a, c)
           others == {d \in p.calls : d.id # c.id}
           r == HoldCalls(q, others)
           unmute == <<Cmd("lpUnmuteCall", OwnUuids({c}))>>
<1>1. /\ Sound(a) /\ SameList(p, a) /\ a.activeCall = c
      /\ a.uuid = p.uuid /\ a.answerTime = p.answerTime
      /\ a.state = p.state /\ a.callIdsAnswered = p.callIdsAnswered
  BY DEF Sound, Phone, SameList
<1>2. others \in SUBSET Call
  BY DEF Sound, Phone
<1>3. unmute \in Seq(Command)
  BY UuidsType DEF Cmd, Command
<1>4. MakeActiveCall(p, c) = UnholdCall(Send(r, unmute), c)
  BY DEF MakeActiveCall
<1> HIDE DEF a, others, unmute
<1>5. Sound(q) /\ OnlySends(a, q)
  BY <1>1, ReportOutgoingSound
<1> HIDE DEF q
<1>6. Sound(r) /\ OnlySends(q, r)
  BY <1>2, <1>5, HoldCallsSound
<1> HIDE DEF r
<1>7. Sound(Send(r, unmute)) /\ OnlySends(r, Send(r, unmute))
  BY <1>3, <1>6, SendSound
<1>8. /\ Sound(UnholdCall(Send(r, unmute), c))
      /\ OnlySends(Send(r, unmute), UnholdCall(Send(r, unmute), c))
  BY <1>7, UnholdCallSound
<1>9. OnlySends(a, UnholdCall(Send(r, unmute), c))
  BY <1>5, <1>6, <1>7, <1>8, OnlySendsTransitive
<1> QED BY <1>1, <1>4, <1>8, <1>9 DEF OnlySends, SameList

LEMMA AnswerCallSound ==
  ASSUME NEW p, Sound(p), NEW c \in Call
  PROVE  LET q == AnswerCall(p, c)
         IN  /\ Sound(q) /\ SameList(p, q) /\ q.uuid = p.uuid
             /\ q.activeCall \in {c, p.activeCall}
             /\ q.answerTime = p.answerTime \cup {c.id} /\ q.state = p.state
<1> DEFINE b == [p EXCEPT !.callIdsAnswered = @ \ {p.uuid[c.id]}]
           accept == <<Cmd("lpAnswer", OwnUuids({c}))>>
           q == Send(b, accept)
           m == MakeActiveCall(q, c)
           r == [m EXCEPT !.answerTime = @ \cup {c.id}]
           report == <<Cmd("answerCall", DataUuids(r, {c}))>>
<1>1. /\ Sound(b) /\ SameList(p, b) /\ b.uuid = p.uuid
      /\ b.activeCall = p.activeCall /\ b.answerTime = p.answerTime
      /\ b.state = p.state
  BY DEF Sound, Phone, SameList
<1>2. accept \in Seq(Command)
  BY UuidsType DEF Cmd, Command
<1>3. AnswerCall(p, c) = IF IsConnected(p, c) THEN p
                         ELSE IF Android THEN r ELSE Send(r, report)
  BY DEF AnswerCall
<1> HIDE DEF b, accept
<1>4. Sound(q) /\ OnlySends(b, q)
  BY <1>1, <1>2, SendSound
<1> HIDE DEF q
<1>5. /\ Sound(m) /\ SameList(q, m) /\ m.activeCall = c /\ m.uuid = q.uuid
      /\ m.answerTime = q.answerTime /\ m.state = q.state
  BY <1>4, MakeActiveCallSound
<1> HIDE DEF m
<1>6. /\ Sound(r) /\ SameList(m, r) /\ r.activeCall = c /\ r.uuid = m.uuid
      /\ r.answerTime = m.answerTime \cup {c.id} /\ r.state = m.state
  BY <1>5 DEF Sound, Phone, SameList, Call
<1>7. report \in Seq(Command)
  <2> HIDE DEF r
  <2> QED BY <1>6, UuidsType DEF Cmd, Command
<1> HIDE DEF r, report
<1>8. Sound(Send(r, report)) /\ OnlySends(r, Send(r, report))
  BY <1>6, <1>7, SendSound
<1>9. IsConnected(p, c) => p.answerTime = p.answerTime \cup {c.id}
  BY DEF IsConnected
<1> QED BY <1>1, <1>3, <1>4, <1>5, <1>6, <1>8, <1>9 DEF OnlySends, SameList

-----------------------------------------------------------------------------
(* Removing a call: exactly the objects with its id leave the list, and if *)
(* any call remains a listed one has the focus.                            *)
Without(p, c) == {d \in p.calls : d.id # c.id}

(* A copy of the call for each of its objects enters endedCalls, if it was *)
(* answered and a disposition is asked for.                                *)
Copies(p, c) ==
  IF IsConnected(p, c) /\ ForceDisposition
  THEN Cardinality({d \in p.calls : d.id = c.id}) ELSE 0

Counted(p, c, q) ==
  Copies(p, c) \in Nat /\ q.endedCalls = [p.endedCalls EXCEPT ![c.id] = @ + Copies(p, c)]

LEMMA UnlistSound ==
  ASSUME NEW p, Sound(p), NEW c \in Call
  PROVE  LET q == Unlist(p, c)
         IN  /\ Sound(q) /\ q.calls = Without(p, c)
             /\ q.activeCall = IF p.activeCall = c THEN NoCall ELSE p.activeCall
             /\ q.keys = p.keys /\ q.created = p.created /\ q.uuid = p.uuid
             /\ q.answerTime = p.answerTime /\ q.state = p.state /\ Counted(p, c, q)
<1> DEFINE gone == {d \in p.calls : d.id = c.id}
<1>1. Cardinality(gone) \in Nat
  <2>1. gone \in SUBSET p.calls
    OBVIOUS
  <2>2. IsFiniteSet(gone)
    BY <2>1, FS_Subset DEF Sound
  <2> QED BY <2>2, FS_CardinalityType
<1>2. IsFiniteSet(p.calls \ gone)
  BY FS_Subset DEF Sound
<1> DEFINE q == Unlist(p, c)
           k == Copies(p, c)
           left == p.calls \ gone
           focus == IF p.activeCall = c THEN NoCall ELSE p.activeCall
           ended == [p.endedCalls EXCEPT ![c.id] = @ + k]
<1>3. q = [p EXCEPT !.calls = left, !.activeCall = focus, !.endedCalls = ended]
  <2>1. p.endedCalls \in [Ids -> Nat] /\ c.id \in Ids
    BY DEF Sound, Phone, Call
  <2>2. p.endedCalls[c.id] + 0 = p.endedCalls[c.id]
    BY <2>1
  <2> QED BY <2>2 DEF Unlist, Copies, Sound, Phone
<1>4. /\ left \in SUBSET Call /\ focus \in Call \cup {NoCall}
      /\ ended \in [Ids -> Nat]
  BY <1>1 DEF Sound, Phone, Call, Copies
<1>5. left = Without(p, c)
  BY DEF Without
<1> HIDE DEF q, left, ended
<1>6. q \in Phone
  BY <1>3, <1>4 DEF Sound, Phone
<1>7. /\ q.calls = left /\ q.activeCall = focus
      /\ q.keys = p.keys /\ q.created = p.created /\ q.uuid = p.uuid
      /\ q.answerTime = p.answerTime /\ q.state = p.state
  BY <1>3 DEF Sound, Phone
<1>8. q.endedCalls = ended
  BY <1>3 DEF Sound, Phone
<1>9. k \in Nat
  BY <1>1 DEF Copies
<1>10. Counted(p, c, q)
  BY <1>8, <1>9 DEF Counted, ended
<1> QED BY <1>2, <1>5, <1>6, <1>7, <1>10 DEF Sound, q, left

LEMMA RefocusSound ==
  ASSUME NEW p, Sound(p), NEW c \in Call, p.calls # {}
  PROVE  LET q == Refocus(p, c)
         IN  /\ Sound(q) /\ SameList(p, q)
             /\ q.activeCall \in p.calls /\ q.uuid = p.uuid
             /\ q.answerTime = p.answerTime \cup {c.id}
             /\ \A n \in 1..MaxObjects \ {c.n} : q.state[n] = p.state[n]
<1> DEFINE new == Oldest(p.calls)
           m == MakeActiveCall(p, new)
           cmds == <<Cmd("lpResume", OwnUuids({new})),
                     Cmd("lpResume", DataUuids(p, {c})),
                     Cmd("setUnhold", DataUuids(p, {c}))>>
           s == Send(m, cmds)
<1>1. new \in p.calls /\ new \in Call
  BY OldestIsMember DEF Sound, Phone
<1>2. Refocus(p, c) = [s EXCEPT !.state[c.n] = "CONFIRMED", !.answerTime = @ \cup {c.id}]
  BY DEF Refocus
<1> HIDE DEF new
<1>3. cmds \in Seq(Command)
  <2>1. /\ OwnUuids({new}) \in SUBSET Uuids /\ DataUuids(p, {c}) \in SUBSET Uuids
    BY <1>1, UuidsType
  <2> QED BY <2>1 DEF Cmd, Command
<1> HIDE DEF cmds
<1>4. /\ Sound(m) /\ SameList(p, m) /\ m.activeCall = new /\ m.uuid = p.uuid
      /\ m.answerTime = p.answerTime /\ m.state = p.state
  BY <1>1, MakeActiveCallSound
<1> HIDE DEF m
<1>5. Sound(s) /\ OnlySends(m, s)
  BY <1>3, <1>4, SendSound
<1> HIDE DEF s
<1> DEFINE st == [s.state EXCEPT ![c.n] = "CONFIRMED"]
           at == s.answerTime \cup {c.id}
<1>6. Refocus(p, c) = [s EXCEPT !.state = st, !.answerTime = at]
  BY <1>2, <1>5 DEF Sound, Phone
<1>7. /\ st \in [1..MaxObjects -> CallState] /\ at \in SUBSET Ids
      /\ \A n \in 1..MaxObjects \ {c.n} : st[n] = s.state[n]
  BY <1>5 DEF Sound, Phone, Call, CallState
<1> HIDE DEF st, at
<1>8. Refocus(p, c) \in Phone
  BY <1>5, <1>6, <1>7 DEF Sound, Phone
<1>9. /\ SameList(s, Refocus(p, c))
      /\ Refocus(p, c).activeCall = s.activeCall /\ Refocus(p, c).uuid = s.uuid
      /\ Refocus(p, c).answerTime = at /\ Refocus(p, c).state = st
  BY <1>5, <1>6 DEF Sound, Phone, SameList
<1> QED BY <1>1, <1>4, <1>5, <1>7, <1>8, <1>9 DEF OnlySends, SameList, Sound, at

(* What removing c from p leads to. *)
Removed(p, c, q) ==
  /\ Sound(q) /\ q.calls = Without(p, c)
  /\ q.keys = p.keys /\ q.created = p.created /\ q.uuid = p.uuid
  /\ Counted(p, c, q)
  /\ \A i \in Ids \ {c.id} : i \in q.answerTime <=> i \in p.answerTime
  /\ \A n \in 1..MaxObjects \ {c.n} : q.state[n] = p.state[n]
  /\ IF q.calls = {}
     THEN q.activeCall = IF p.activeCall = c THEN NoCall ELSE p.activeCall
     ELSE q.activeCall \in q.calls

LEMMA RemoveCallSound ==
  ASSUME NEW p, Sound(p), NEW c \in Call
  PROVE  Removed(p, c, RemoveCall(p, c))
<1> DEFINE e == Send(p, EndCommands(p, c))
           q == Unlist(e, c)
           r == IF q.calls = {} THEN q ELSE Refocus(q, c)
<1>1. RemoveCall(p, c) = [r EXCEPT !.assistedTransferInit = FALSE]
  BY DEF RemoveCall
<1>2. EndCommands(p, c) \in Seq(Command)
  <2>1. DataUuids(p, {c}) \in SUBSET Uuids
    BY UuidsType
  <2>2. /\ <<Cmd("lpEndCall", DataUuids(p, {c}))>> \in Seq(Command)
        /\ <<Cmd("lpEndCall", DataUuids(p, {c})), Cmd("endCall", DataUuids(p, {c}))>>
             \in Seq(Command)
    BY <2>1 DEF Cmd, Command
  <2> QED BY <2>2 DEF EndCommands
<1>3. Sound(e) /\ OnlySends(p, e)
  BY <1>2, SendSound
<1> HIDE DEF e
<1>4. /\ Sound(q) /\ q.calls = Without(e, c)
      /\ q.activeCall = IF e.activeCall = c THEN NoCall ELSE e.activeCall
      /\ q.keys = e.keys /\ q.created = e.created /\ q.uuid = e.uuid
      /\ q.answerTime = e.answerTime /\ q.state = e.state /\ Counted(e, c, q)
  BY <1>3, UnlistSound
<1>5. Without(e, c) = Without(p, c) /\ Counted(p, c, q)
  <2>1. e.calls = p.calls /\ e.endedCalls = p.endedCalls /\ e.answerTime = p.answerTime
    BY <1>3 DEF OnlySends, SameList
  <2> HIDE DEF q
  <2> QED BY <1>4, <2>1 DEF Without, Counted, Copies, IsConnected
<1> HIDE DEF q
<1>6. Removed(p, c, r)
  <2>1. CASE q.calls = {}
    BY <2>1, <1>3, <1>4, <1>5 DEF Removed, OnlySends, SameList
  <2>2. CASE q.calls # {}
    <3>1. /\ Sound(Refocus(q, c)) /\ SameList(q, Refocus(q, c))
          /\ Refocus(q, c).activeCall \in q.calls /\ Refocus(q, c).uuid = q.uuid
          /\ Refocus(q, c).answerTime = q.answerTime \cup {c.id}
          /\ \A n \in 1..MaxObjects \ {c.n} : Refocus(q, c).state[n] = q.state[n]
      BY <2>2, <1>4, RefocusSound
    <3>2. Counted(p, c, Refocus(q, c))
      BY <3>1, <1>5 DEF Counted, SameList
    <3> QED BY <2>2, <3>1, <3>2, <1>3, <1>4, <1>5 DEF Removed, OnlySends, SameList
  <2> QED BY <2>1, <2>2
<1> HIDE DEF r
<1>7. /\ Sound([r EXCEPT !.assistedTransferInit = FALSE])
      /\ SameList(r, [r EXCEPT !.assistedTransferInit = FALSE])
      /\ r.activeCall = [r EXCEPT !.assistedTransferInit = FALSE].activeCall
      /\ r.uuid = [r EXCEPT !.assistedTransferInit = FALSE].uuid
      /\ r.answerTime = [r EXCEPT !.assistedTransferInit = FALSE].answerTime
      /\ r.state = [r EXCEPT !.assistedTransferInit = FALSE].state
  BY <1>6 DEF Removed, Sound, Phone, SameList
<1> QED BY <1>1, <1>6, <1>7 DEF Removed, SameList, Counted

(* Hanging up and transferring send one command and remove the call. *)
LEMMA SendThenRemove ==
  ASSUME NEW p, Sound(p), NEW c \in Call, NEW q, Sound(q), OnlySends(p, q)
  PROVE  Removed(p, c, RemoveCall(q, c))
<1>1. Removed(q, c, RemoveCall(q, c))
  BY RemoveCallSound
<1>2. /\ q.calls = p.calls /\ q.keys = p.keys /\ q.created = p.created
      /\ q.uuid = p.uuid /\ q.endedCalls = p.endedCalls /\ q.activeCall = p.activeCall
      /\ q.answerTime = p.answerTime /\ q.state = p.state
  BY DEF OnlySends, SameList
<1>3. Without(q, c) = Without(p, c) /\ Copies(q, c) = Copies(p, c)
  BY <1>2 DEF Without, Copies, IsConnected
<1> QED BY <1>1, <1>2, <1>3 DEF Removed, Counted

LEMMA HangUpSound ==
  ASSUME NEW p, Sound(p), NEW c \in Call
  PROVE  Removed(p, c, HangUp(p, c)) /\ Removed(p, c, Transfer(p, c))
<1>1. OwnUuids({c}) \in SUBSET Uuids
  BY UuidsType
<1>2. \A o \in {"lpEndCall", "lpRefer"} : <<Cmd(o, OwnUuids({c}))>> \in Seq(Command)
  BY <1>1 DEF Cmd, Command
<1> QED BY <1>2, SendSound, SendThenRemove DEF HangUp, Transfer

(* Completing a transfer removes both calls. *)
LEMMA CompleteAssistedTransferSound ==
  ASSUME NEW p, Sound(p), NEW a \in Call, NEW b \in Call
  PROVE  \E q : Removed(p, a, q) /\ Removed(q, b, CompleteAssistedTransfer(p, a, b))
<1> DEFINE i == [p EXCEPT !.assistedTransferInit = FALSE]
           cmds == <<Cmd("lpAssistedTransfer", DataUuids(p, {a, b}))>>
           q == RemoveCall(Send(i, cmds), a)
<1>1. Sound(i) /\ OnlySends(p, i)
  BY DEF Sound, Phone, OnlySends, SameList
<1>2. cmds \in Seq(Command)
  BY UuidsType DEF Cmd, Command
<1>3. CompleteAssistedTransfer(p, a, b) = RemoveCall(q, b)
  BY DEF CompleteAssistedTransfer
<1> HIDE DEF i, cmds
<1>4. Removed(p, a, q)
  BY <1>1, <1>2, SendSound, OnlySendsTransitive, SendThenRemove
<1>5. Removed(q, b, RemoveCall(q, b))
  BY <1>4, RemoveCallSound DEF Removed
<1> QED BY <1>3, <1>4, <1>5

(* An event from the native side removes its call or leaves the list alone. *)
LEMMA SetLpCallStateSound ==
  ASSUME NEW p, Sound(p), NEW c \in Call, NEW s \in CallState
  PROVE  LET q == SetLpCallState(p, c, s)
         IN  IF s = "ENDED" THEN Removed(p, c, q)
             ELSE /\ Sound(q) /\ SameList(p, q) /\ q.activeCall = p.activeCall
                  /\ q.uuid = p.uuid /\ q.state = [p.state EXCEPT ![c.n] = s]
                  /\ q.answerTime \in {p.answerTime, p.answerTime \cup {c.id}}
<1> DEFINE st == [p.state EXCEPT ![c.n] = s]
           q == [p EXCEPT !.state = st]
           confirmed == [q EXCEPT !.answerTime = @ \cup {c.id}]
           report == <<Cmd("reportConnectedOutgoingCall", DataUuids(q, {c}))>>
<1>1. SetLpCallState(p, c, s) =
        CASE s = "ENDED" -> RemoveCall(q, c)
          [] s = "CONFIRMED" -> confirmed
          [] s = "STREAM" /\ ~Android /\ c.direction = "OUTGOING" -> Send(q, report)
          [] OTHER -> q
  BY DEF SetLpCallState, Sound, Phone
<1>2. /\ st \in [1..MaxObjects -> CallState]
      /\ \A n \in 1..MaxObjects \ {c.n} : st[n] = p.state[n]
  BY DEF Sound, Phone, Call
<1> HIDE DEF st
<1>3. /\ Sound(q) /\ SameList(p, q) /\ q.activeCall = p.activeCall
      /\ q.uuid = p.uuid /\ q.answerTime = p.answerTime
      /\ q.state = st
  BY <1>2 DEF Sound, Phone, SameList
<1> HIDE DEF q
<1>4. /\ Sound(confirmed) /\ SameList(q, confirmed)
      /\ confirmed.activeCall = q.activeCall /\ confirmed.uuid = q.uuid
      /\ confirmed.answerTime = q.answerTime \cup {c.id} /\ confirmed.state = q.state
  BY <1>3 DEF Sound, Phone, SameList, Call
<1>5. report \in Seq(Command)
  BY <1>3, UuidsType DEF Cmd, Command
<1> HIDE DEF confirmed, report
<1>6. Sound(Send(q, report)) /\ OnlySends(q, Send(q, report))
  BY <1>3, <1>5, SendSound
<1>7. Removed(p, c, RemoveCall(q, c))
  <2>1. Removed(q, c, RemoveCall(q, c))
    BY <1>3, RemoveCallSound
  <2>2. /\ q.calls = p.calls /\ q.keys = p.keys /\ q.created = p.created
        /\ q.uuid = p.uuid /\ q.endedCalls = p.endedCalls /\ q.activeCall = p.activeCall
    BY <1>3 DEF SameList
  <2>3. Without(q, c) = Without(p, c) /\ Copies(q, c) = Copies(p, c)
    BY <1>3, <2>2 DEF Without, Copies, IsConnected
  <2> QED BY <1>2, <1>3, <2>1, <2>2, <2>3 DEF Removed, Counted
<1> QED BY <1>1, <1>3, <1>4, <1>6, <1>7 DEF SameList, OnlySends, st

-----------------------------------------------------------------------------
(* Announcing a call. *)
Fresh(p, c) == c \in Call /\ c.n = p.created + 1

LEMMA NewCallFresh ==
  ASSUME NEW p, Sound(p), p.created < MaxObjects, NEW i \in Ids,
         NEW dir \in {"INCOMING", "OUTGOING"}
  PROVE  Fresh(p, NewCall(p, i, dir)) /\ NewCall(p, i, dir).id = i
<1>1. p.created \in Nat /\ p.created + 1 \in 1..MaxObjects
  BY SoftphoneAssumption DEF Sound, Phone
<1> QED BY <1>1 DEF Fresh, NewCall, Call

(* The id of an announced call is a key of callData from then on. *)
Keyed(p, i) == \E k \in DOMAIN p.keys : p.keys[k] = i

LEMMA LinkSound ==
  ASSUME NEW p, Sound(p), NEW i \in Ids, NEW u \in Uuids
  PROVE  LET q == LinkLnCallWithUuid(p, i, u)
         IN  /\ Sound(q) /\ q.calls = p.calls /\ q.activeCall = p.activeCall
             /\ q.created = p.created /\ q.answerTime = p.answerTime
             /\ q.endedCalls = p.endedCalls /\ q.state = p.state /\ Keyed(q, i)
             /\ \A j \in Ids : Keyed(p, j) => Keyed(q, j)
             /\ \A j \in Ids \ {i} : Keyed(q, j) => Keyed(p, j)
<1> DEFINE ks == IF Keyed(p, i) THEN p.keys ELSE Append(p.keys, i)
           us == [p.uuid EXCEPT ![i] = u]
           q == LinkLnCallWithUuid(p, i, u)
<1>1. p.keys \in Seq(Ids) /\ p.uuid \in [Ids -> Uuids \cup {NoUuid}]
  BY DEF Sound, Phone
<1>2. ks \in Seq(Ids) /\ us \in [Ids -> Uuids \cup {NoUuid}]
  BY <1>1
<1>3. q = [p EXCEPT !.uuid = us, !.keys = ks]
  BY DEF LinkLnCallWithUuid, Keyed, Sound, Phone
<1>4. /\ \E k \in DOMAIN ks : ks[k] = i
      /\ \A j \in Ids : Keyed(p, j) => \E k \in DOMAIN ks : ks[k] = j
      /\ \A k \in DOMAIN ks : ks[k] # i => Keyed(p, ks[k])
  <2>1. CASE Keyed(p, i)
    BY <2>1 DEF Keyed
  <2>2. CASE ~Keyed(p, i)
    <3>1. ks = Append(p.keys, i)
      BY <2>2
    <3>2. /\ Len(p.keys) + 1 \in DOMAIN ks /\ ks[Len(p.keys) + 1] = i
          /\ \A k \in DOMAIN p.keys : k \in DOMAIN ks /\ ks[k] = p.keys[k]
          /\ \A k \in DOMAIN ks : k = Len(p.keys) + 1 \/ k \in DOMAIN p.keys
      BY <1>1, <3>1
    <3> QED BY <3>2 DEF Keyed
  <2> QED BY <2>1, <2>2
<1> HIDE DEF ks, us, q
<1>5. /\ q \in Phone /\ q.keys = ks /\ q.calls = p.calls /\ q.activeCall = p.activeCall
      /\ q.created = p.created /\ q.answerTime = p.answerTime
      /\ q.endedCalls = p.endedCalls /\ q.state = p.state
  BY <1>2, <1>3 DEF Sound, Phone
<1> QED BY <1>4, <1>5 DEF q, Sound, Keyed

LEMMA KeepSound ==
  ASSUME NEW p, Sound(p), NEW c \in Call
  PROVE  LET q == Keep(p, c)
         IN  /\ Sound(q) /\ q.calls = p.calls /\ q.activeCall = p.activeCall
             /\ q.created \in {p.created, c.n} /\ q.keys = p.keys
             /\ q.endedCalls = p.endedCalls /\ q.answerTime = p.answerTime
             /\ q.state = p.state
             /\ c \in p.calls \/ p.activeCall = c => q.created = c.n
<1>1. c.n \in 0..MaxObjects
  BY SoftphoneAssumption DEF Call
<1> QED BY <1>1 DEF Keep, Sound, Phone

(* Call c arrives during another call, and nobody has answered it. *)
Unasked(p, c, q) ==
  c.direction = "INCOMING" /\ c.id \notin q.answerTime /\ p.activeCall # NoCall

LEMMA AddCallSound ==
  ASSUME NEW p, Sound(p), NEW c \in Call
  PROVE  LET q == AddCall(p, c)
         IN  /\ Sound(q)
             /\ q.calls = IF IsListed(p, c.id) THEN p.calls ELSE p.calls \cup {c}
             /\ q.activeCall \in {p.activeCall, c}
             /\ q.created = p.created /\ q.keys = p.keys /\ q.endedCalls = p.endedCalls
             /\ q.answerTime \in {p.answerTime, p.answerTime \cup {c.id}}
             /\ q.state = p.state /\ (Focused(p) => Focused(q))
             /\ Unasked(p, c, q) => q.activeCall = p.activeCall
<1> DEFINE l == [p EXCEPT !.calls = @ \cup {c}]
           r == IF IsListed(p, c.id) THEN p
                ELSE IF p.activeCall = NoCall \/ c.direction = "OUTGOING"
                     THEN MakeActiveCall(l, c) ELSE l
<1>1. AddCall(p, c) = IF r.uuid[c.id] \in r.callIdsAnswered THEN AnswerCall(r, c) ELSE r
  BY DEF AddCall
<1>2. IsFiniteSet(p.calls \cup {c})
  BY FS_AddElement DEF Sound
<1>3. /\ Sound(l) /\ l.calls = p.calls \cup {c} /\ l.activeCall = p.activeCall
      /\ l.created = p.created /\ l.keys = p.keys /\ l.endedCalls = p.endedCalls
      /\ l.answerTime = p.answerTime /\ l.state = p.state
  BY <1>2 DEF Sound, Phone
<1> HIDE DEF l
<1>4. c # NoCall
  BY NoCallIsNull
<1>5. /\ Sound(r)
      /\ r.calls = IF IsListed(p, c.id) THEN p.calls ELSE p.calls \cup {c}
      /\ r.activeCall \in {p.activeCall, c}
      /\ r.created = p.created /\ r.keys = p.keys /\ r.endedCalls = p.endedCalls
      /\ r.answerTime = p.answerTime /\ r.state = p.state
      /\ Focused(p) => Focused(r)
      /\ Unasked(p, c, r) => r.activeCall = p.activeCall
  <2>1. CASE IsListed(p, c.id)
    <3>1. r = p
      BY <2>1
    <3> HIDE DEF r
    <3> QED BY <3>1, <2>1
  <2>2. CASE ~IsListed(p, c.id) /\ (p.activeCall = NoCall \/ c.direction = "OUTGOING")
    <3>1. r = MakeActiveCall(l, c)
      BY <2>2
    <3> HIDE DEF r
    <3>2. ~Unasked(p, c, r)
      BY <2>2 DEF Unasked
    <3> QED BY <3>1, <3>2, <2>2, <1>3, <1>4, MakeActiveCallSound DEF SameList, Focused
  <2>3. CASE ~IsListed(p, c.id) /\ ~(p.activeCall = NoCall \/ c.direction = "OUTGOING")
    <3>1. r = l
      BY <2>3
    <3> HIDE DEF r
    <3> QED BY <3>1, <2>3, <1>3 DEF Focused
  <2> QED BY <2>1, <2>2, <2>3
<1> HIDE DEF r
<1>6. /\ Sound(AnswerCall(r, c)) /\ SameList(r, AnswerCall(r, c))
      /\ AnswerCall(r, c).activeCall \in {c, r.activeCall}
      /\ AnswerCall(r, c).answerTime = r.answerTime \cup {c.id}
      /\ AnswerCall(r, c).state = r.state
  BY <1>5, AnswerCallSound
<1>7. c.id \in AnswerCall(r, c).answerTime
  BY <1>6
<1> QED BY <1>1, <1>4, <1>5, <1>6, <1>7 DEF SameList, Focused, Unasked

(* What announcing call i leads to: the list gains at most one object c,   *)
(* the focus stays or moves to c, and a call not listed before is listed   *)
(* unless nothing happens.  It stays if c comes in and nobody answered it. *)
Rested(p, q) ==
  SameList(p, q) /\ q.activeCall = p.activeCall /\ q.answerTime = p.answerTime

KeepsFocus(p, q) ==
  \A c \in q.calls \ p.calls : Unasked(p, c, q) => q.activeCall = p.activeCall

Announced(p, i, q) ==
  /\ Sound(q) /\ q.endedCalls = p.endedCalls /\ q.state = p.state
  /\ \A j \in Ids : Keyed(p, j) => Keyed(q, j)
  /\ \A j \in Ids \ {i} : /\ Keyed(q, j) => Keyed(p, j)
                          /\ j \in q.answerTime <=> j \in p.answerTime
  /\ Focused(p) => Focused(q)
  /\ KeepsFocus(p, q)
  /\ \E c \in Call :
       /\ c.id = i /\ c.n = p.created + 1
       /\ q.activeCall = p.activeCall \/ (q.activeCall = c /\ q.created = c.n)
       /\ \/ q.calls = p.calls /\ q.created \in {p.created, c.n}
          \/ q.calls = p.calls \cup {c} /\ q.created = c.n /\ Keyed(q, i)
       /\ IsListed(p, i) \/ c \in q.calls \/ Rested(p, q)

LEMMA AddAnnounced ==
  ASSUME NEW p, Sound(p), p.created < MaxObjects, NEW i \in Ids, NEW u \in Uuids,
         NEW dir \in {"INCOMING", "OUTGOING"}
  PROVE  LET c == NewCall(p, i, dir)
             a == AddCall(LinkLnCallWithUuid(p, i, u), c)
         IN  /\ Announced(p, i, Keep(a, c))
             /\ Announced(p, i, Keep(AnswerCall(a, c), c))
             /\ IsListed(p, i) => Keep(a, c).calls = p.calls
<1> DEFINE c == NewCall(p, i, dir)
           l == LinkLnCallWithUuid(p, i, u)
           a == AddCall(l, c)
           b == AnswerCall(a, c)
<1>1. c \in Call /\ c.n = p.created + 1 /\ c.id = i
  BY NewCallFresh DEF Fresh
<1> HIDE DEF c
<1>2. /\ Sound(l) /\ l.calls = p.calls /\ l.activeCall = p.activeCall
      /\ l.created = p.created /\ l.endedCalls = p.endedCalls /\ Keyed(l, i)
      /\ \A j \in Ids : Keyed(p, j) => Keyed(l, j)
      /\ \A j \in Ids \ {i} : Keyed(l, j) => Keyed(p, j)
      /\ l.answerTime = p.answerTime /\ l.state = p.state
  BY LinkSound
<1> HIDE DEF l
<1>3. /\ Sound(a)
      /\ a.calls = IF IsListed(l, i) THEN l.calls ELSE l.calls \cup {c}
      /\ a.activeCall \in {l.activeCall, c}
      /\ a.created = l.created /\ a.keys = l.keys /\ a.endedCalls = l.endedCalls
      /\ a.answerTime \in {l.answerTime, l.answerTime \cup {i}}
      /\ a.state = l.state /\ (Focused(l) => Focused(a))
      /\ Unasked(l, c, a) => a.activeCall = l.activeCall
  BY <1>1, <1>2, AddCallSound
<1> HIDE DEF a
<1>4. /\ Sound(b) /\ SameList(a, b) /\ b.activeCall \in {c, a.activeCall}
      /\ b.answerTime = a.answerTime \cup {i} /\ b.state = a.state
  BY <1>1, <1>3, AnswerCallSound
<1> HIDE DEF b
<1>5. c # NoCall
  BY <1>1, NoCallIsNull
<1>6. ASSUME NEW q, Sound(q), SameList(a, q), q.activeCall \in {c, a.activeCall},
             q.answerTime \in {a.answerTime, a.answerTime \cup {i}}, q.state = a.state,
             Unasked(l, c, q) => q.activeCall = l.activeCall
      PROVE  Announced(p, i, Keep(q, c))
  <2> DEFINE k == Keep(q, c)
  <2>1. /\ Sound(k) /\ k.calls = q.calls /\ k.activeCall = q.activeCall
        /\ k.created \in {q.created, c.n} /\ k.keys = q.keys
        /\ k.endedCalls = q.endedCalls /\ k.answerTime = q.answerTime
        /\ k.state = q.state
        /\ c \in q.calls \/ q.activeCall = c => k.created = c.n
    BY <1>1, <1>6, KeepSound
  <2> HIDE DEF k
  <2>2. Sound(k) /\ k.endedCalls = p.endedCalls /\ k.state = p.state
    BY <1>2, <1>3, <1>6, <2>1 DEF SameList
  <2>3. k.keys = l.keys
    BY <1>3, <1>6, <2>1 DEF SameList
  <2>4. /\ Keyed(k, i) /\ \A j \in Ids : Keyed(p, j) => Keyed(k, j)
        /\ \A j \in Ids \ {i} : Keyed(k, j) => Keyed(p, j)
    BY <1>2, <2>3 DEF Keyed
  <2>10. \A j \in Ids \ {i} : j \in k.answerTime <=> j \in p.answerTime
    BY <1>2, <1>3, <1>6, <2>1
  <2>5. Focused(p) => Focused(k)
    BY <1>2, <1>3, <1>5, <1>6, <2>1 DEF SameList, Focused
  <2>6. IsListed(l, i) <=> IsListed(p, i)
    BY <1>2 DEF IsListed
  <2>7. /\ k.calls = IF IsListed(p, i) THEN p.calls ELSE p.calls \cup {c}
        /\ k.activeCall = p.activeCall \/ (k.activeCall = c /\ k.created = c.n)
        /\ k.created \in {p.created, c.n}
        /\ c \in k.calls => k.created = c.n
    BY <1>2, <1>3, <1>6, <2>1, <2>6 DEF SameList
  <2>8. \/ k.calls = p.calls /\ k.created \in {p.created, c.n}
        \/ k.calls = p.calls \cup {c} /\ k.created = c.n /\ Keyed(k, i)
    BY <2>4, <2>7
  <2>9. ~IsListed(p, i) => c \in k.calls
    BY <2>7
  <2>11. KeepsFocus(p, k)
    <3>1. \A d \in k.calls \ p.calls : d = c
      BY <2>7
    <3>2. Unasked(p, c, k) => Unasked(l, c, q)
      BY <1>2, <2>1 DEF Unasked
    <3> QED BY <1>2, <1>6, <2>1, <3>1, <3>2 DEF KeepsFocus
  <2> HIDE DEF Keyed, Focused, IsListed
  <2> QED BY <1>1, <2>2, <2>4, <2>5, <2>7, <2>8, <2>9, <2>10, <2>11 DEF Announced, k
<1>7. Announced(p, i, Keep(a, c))
  BY <1>3, <1>6 DEF SameList
<1>8. Announced(p, i, Keep(b, c))
  <2>1. ~Unasked(l, c, b)
    BY <1>1, <1>4 DEF Unasked
  <2> QED BY <1>4, <1>6, <2>1
<1>9. IsListed(p, i) => Keep(a, c).calls = p.calls
  <2>1. IsListed(l, i) <=> IsListed(p, i)
    BY <1>2 DEF IsListed
  <2> QED BY <1>1, <1>2, <1>3, <2>1, KeepSound
<1> QED BY <1>7, <1>8, <1>9 DEF a, b, c, l

LEMMA AnsweredWhileOnCallAnnounced ==
  ASSUME NEW p, Sound(p), p.created < MaxObjects, NEW i \in Ids, NEW u \in Uuids
  PROVE  Announced(p, i, AnsweredWhileOnCall(p, i, u))
<1> DEFINE c == NewCall(p, i, "INCOMING")
           k == LinkLnCallWithUuid(p, i, u)
           q == [k EXCEPT !.calls = @ \cup {c}]
           r == IF q.activeCall = NoCall THEN MakeActiveCall(q, c) ELSE q
           t == [r EXCEPT !.answerTime = @ \cup {i}]
           cmds == <<Cmd("lpHold", OwnUuids({c}))>>
           s == Send(t, cmds)
<1>1. c \in Call /\ c.n = p.created + 1 /\ c.id = i
  BY NewCallFresh DEF Fresh
<1>2. cmds \in Seq(Command)
  <2> HIDE DEF c
  <2> QED BY <1>1, UuidsType DEF Cmd, Command
<1>3. AnsweredWhileOnCall(p, i, u) = IF Android THEN Keep(s, c) ELSE p
  BY DEF AnsweredWhileOnCall
<1> HIDE DEF c, cmds
<1>4. /\ Sound(k) /\ k.calls = p.calls /\ k.activeCall = p.activeCall
      /\ k.created = p.created /\ k.endedCalls = p.endedCalls /\ Keyed(k, i)
      /\ \A j \in Ids : Keyed(p, j) => Keyed(k, j)
      /\ \A j \in Ids \ {i} : Keyed(k, j) => Keyed(p, j)
      /\ k.answerTime = p.answerTime /\ k.state = p.state
  BY LinkSound
<1> HIDE DEF k
<1>5. /\ Sound(q) /\ q.calls = p.calls \cup {c} /\ q.activeCall = p.activeCall
      /\ q.created = p.created /\ q.endedCalls = p.endedCalls /\ q.keys = k.keys
      /\ q.answerTime = p.answerTime /\ q.state = p.state
  <2>1. IsFiniteSet(k.calls \cup {c})
    BY <1>4, FS_AddElement DEF Sound
  <2> QED BY <1>1, <1>4, <2>1 DEF Sound, Phone
<1> HIDE DEF q
<1>6. c # NoCall
  BY <1>1, NoCallIsNull
<1>7. /\ Sound(r) /\ SameList(q, r) /\ r.activeCall # NoCall
      /\ r.activeCall \in {q.activeCall, c} /\ r.answerTime = q.answerTime
      /\ r.state = q.state
  BY <1>1, <1>5, <1>6, MakeActiveCallSound DEF SameList
<1> HIDE DEF r
<1>8. /\ Sound(t) /\ SameList(r, t) /\ t.activeCall = r.activeCall
      /\ t.answerTime = r.answerTime \cup {i} /\ t.state = r.state
  BY <1>7 DEF Sound, Phone, SameList
<1> HIDE DEF t
<1>9. Sound(s) /\ OnlySends(t, s)
  BY <1>2, <1>8, SendSound
<1> HIDE DEF s
<1>10. /\ Sound(Keep(s, c)) /\ Keep(s, c).calls = s.calls
       /\ Keep(s, c).activeCall = s.activeCall /\ Keep(s, c).keys = s.keys
       /\ Keep(s, c).endedCalls = s.endedCalls
       /\ Keep(s, c).answerTime = s.answerTime /\ Keep(s, c).state = s.state
       /\ c \in s.calls => Keep(s, c).created = c.n
  BY <1>1, <1>9, KeepSound
<1> DEFINE e == Keep(s, c)
<1> HIDE DEF e
<1>11. /\ Sound(e) /\ e.calls = p.calls \cup {c} /\ e.created = c.n
       /\ e.activeCall # NoCall /\ e.activeCall \in {p.activeCall, c}
       /\ e.keys = k.keys /\ e.endedCalls = p.endedCalls
       /\ e.answerTime = p.answerTime \cup {i} /\ e.state = p.state
  BY <1>5, <1>7, <1>8, <1>9, <1>10 DEF SameList, OnlySends, e
<1>12. KeepsFocus(p, e)
  BY <1>1, <1>11 DEF KeepsFocus, Unasked
<1>13. Announced(p, i, e)
  BY <1>1, <1>4, <1>11, <1>12 DEF Announced, Keyed, Focused
<1>14. Announced(p, i, p)
  BY <1>1 DEF Announced, Rested, SameList, KeepsFocus
<1> QED BY <1>3, <1>13, <1>14 DEF e

LEMMA AnnouncementSound ==
  ASSUME NEW p, Sound(p), p.created < MaxObjects, NEW i \in Ids, NEW u \in Uuids
  PROVE  /\ Announced(p, i, OutgoingInit(p, i, u))
         /\ Announced(p, i, IncomingReceived(p, i, u))
         /\ Announced(p, i, AnsweredFromNotification(p, i, u))
         /\ Announced(p, i, AnsweredWhileOnCall(p, i, u))
<1>1. NewCall(p, i, "INCOMING") \in Call /\ NewCall(p, i, "INCOMING").n = p.created + 1
      /\ NewCall(p, i, "INCOMING").id = i
  BY NewCallFresh DEF Fresh
<1>2. Announced(p, i, p)
  BY <1>1 DEF Announced, Rested, SameList, KeepsFocus
<1>3. Announced(p, i, AnsweredWhileOnCall(p, i, u))
  BY AnsweredWhileOnCallAnnounced
<1> QED BY <1>2, <1>3, AddAnnounced
        DEF OutgoingInit, IncomingReceived, AnsweredFromNotification

-----------------------------------------------------------------------------
(* Every step is one of five kinds: it leaves the calls alone, gives one   *)
(* that is listed or has the focus to the user, drops a disposition form,  *)
(* removes one call or two, or announces a call.                           *)
Known(p) == p.calls \cup ({p.activeCall} \ {NoCall})

Attended(p, q) ==
  /\ SameList(p, q)
  /\ \E c \in Known(p) : /\ q.answerTime = p.answerTime \cup {c.id}
                        /\ q.activeCall \in {p.activeCall, c}

Saved(p, q) ==
  /\ q.calls = p.calls /\ q.created = p.created /\ q.keys = p.keys
  /\ p.activeCall = NoCall /\ q.activeCall = NoCall /\ q.answerTime = p.answerTime
  /\ \E i \in Ids : /\ p.endedCalls[i] > 0
                  /\ q.endedCalls = [p.endedCalls EXCEPT ![i] = 0]

Kept(p, q) == Sound(q) /\ (Rested(p, q) \/ Attended(p, q) \/ Saved(p, q))

Ended(p, q) ==
  \/ \E c \in Known(p) : Removed(p, c, q)
  \/ \E a \in Known(p), b \in p.calls, r \in Phone :
       a.id # b.id /\ Removed(p, a, r) /\ Removed(r, b, q)

(* What the user does: the state of no other call is touched. *)
Acted(p, q) == (Kept(p, q) /\ q.state = p.state) \/ Ended(p, q)

Handled(p, q) ==
  \/ Kept(p, q) \/ Ended(p, q)
  \/ \E i \in Ids : (Android \/ ~Keyed(p, i)) /\ Announced(p, i, q)

(* The answer button of the system's call screen. *)
LEMMA AnswerButtonSound ==
  ASSUME NEW p, Sound(p), NEW u \in Uuids
  PROVE  LET q == AnswerButtonPressed(p, u)
         IN  Sound(q) /\ (Rested(p, q) \/ Attended(p, q)) /\ q.state = p.state
<1> DEFINE q == [p EXCEPT !.callIdsAnswered = @ \cup {u}]
           a == q.activeCall
           adopted == [q EXCEPT !.uuid[a.id] = u]
           r == IF /\ CallByUuid(q, u) = NoCall
                   /\ a # NoCall
                   /\ q.state[a.n] = "PROGRESS"
                THEN adopted ELSE q
           c == CallByUuid(r, u)
<1>1. AnswerButtonPressed(p, u) = IF c = NoCall THEN r ELSE AnswerCall(r, c)
  BY DEF AnswerButtonPressed
<1>2. Sound(q) /\ Rested(p, q) /\ q.state = p.state
  BY DEF Sound, Phone, SameList, Rested
<1> HIDE DEF q
<1>3. a # NoCall => Sound(adopted) /\ Rested(q, adopted) /\ adopted.state = q.state
  <2>1. a # NoCall => a.id \in Ids
    BY <1>2 DEF Sound, Phone, Call
  <2> DEFINE us == [q.uuid EXCEPT ![a.id] = u]
  <2>2. adopted = [q EXCEPT !.uuid = us]
    BY <1>2 DEF Sound, Phone
  <2>3. us \in [Ids -> Uuids \cup {NoUuid}]
    BY <1>2 DEF Sound, Phone
  <2> HIDE DEF us, adopted
  <2> QED BY <1>2, <2>2, <2>3 DEF Sound, Phone, SameList, Rested
<1> HIDE DEF adopted
<1>4. Sound(r) /\ Rested(p, r) /\ r.state = p.state
  <2>1. r = q \/ (a # NoCall /\ r = adopted)
    OBVIOUS
  <2> HIDE DEF r
  <2> QED BY <1>2, <1>3, <2>1 DEF SameList, Rested
<1> HIDE DEF r
<1>5. c \in r.calls \cup {NoCall}
  BY <1>4, LookupFindsListed
<1>6. c # NoCall => c \in Call
  BY <1>4, <1>5 DEF Sound, Phone
<1> HIDE DEF c
<1>7. c # NoCall => /\ Sound(AnswerCall(r, c)) /\ SameList(r, AnswerCall(r, c))
                    /\ AnswerCall(r, c).activeCall \in {c, r.activeCall}
                    /\ AnswerCall(r, c).answerTime = r.answerTime \cup {c.id}
                    /\ AnswerCall(r, c).state = r.state
  BY <1>4, <1>6, AnswerCallSound
<1>8. c # NoCall => c \in Known(p)
  BY <1>4, <1>5 DEF Rested, SameList, Known
<1> QED BY <1>1, <1>4, <1>7, <1>8 DEF SameList, Rested, Attended

-----------------------------------------------------------------------------
(* A step may drop the commands, which Handled does not look at. *)
LEMMA DoKeeps ==
  ASSUME NEW q, Sound(q), Do(q)
  PROVE  /\ Sound(phone') /\ Rested(q, phone')
         /\ phone'.uuid = q.uuid /\ phone'.state = q.state
<1> DEFINE e == [q EXCEPT !.out = <<>>]
<1>1. phone' = q \/ phone' = e
  BY DEF Do
<1>2. Sound(e) /\ Rested(q, e) /\ e.uuid = q.uuid /\ e.state = q.state
  <2> DEFINE none == <<>>
  <2>1. none \in Seq(Command)
    OBVIOUS
  <2> HIDE DEF none
  <2>2. [q EXCEPT !.out = none] \in Phone
    BY <2>1 DEF Sound, Phone
  <2>3. /\ Rested(q, [q EXCEPT !.out = none])
        /\ [q EXCEPT !.out = none].uuid = q.uuid
        /\ [q EXCEPT !.out = none].state = q.state
    BY DEF Sound, Phone, Rested, SameList
  <2>4. e = [q EXCEPT !.out = none]
    BY DEF none
  <2> HIDE DEF e
  <2> QED BY <2>2, <2>3, <2>4 DEF Sound, Rested, SameList
<1> HIDE DEF e
<1> QED BY <1>1, <1>2 DEF Rested, SameList

LEMMA DoHandled ==
  ASSUME NEW p, NEW q, Handled(p, q), Do(q)
  PROVE  Handled(p, phone') /\ (Acted(p, q) => Acted(p, phone'))
<1>1. Sound(q)
  BY DEF Handled, Kept, Ended, Removed, Announced
<1>2. /\ Sound(phone') /\ phone'.calls = q.calls /\ phone'.created = q.created
      /\ phone'.keys = q.keys /\ phone'.endedCalls = q.endedCalls
      /\ phone'.activeCall = q.activeCall /\ phone'.uuid = q.uuid
      /\ phone'.answerTime = q.answerTime /\ phone'.state = q.state
  BY <1>1, DoKeeps DEF Rested, SameList
<1>3. ASSUME Kept(p, q) PROVE Kept(p, phone')
  BY <1>2, <1>3 DEF Kept, Rested, Attended, Saved, SameList
<1>4. ASSUME NEW r, NEW c, Removed(r, c, q) PROVE Removed(r, c, phone')
  BY <1>2, <1>4 DEF Removed, Counted
<1>5. ASSUME NEW i, Announced(p, i, q) PROVE Announced(p, i, phone')
  BY <1>2, <1>5 DEF Announced, Keyed, Focused, Rested, SameList, KeepsFocus, Unasked
<1> QED BY <1>2, <1>3, <1>4, <1>5 DEF Handled, Ended, Acted

(* A tap whose handler leads to q. *)
LEMMA DoActed ==
  ASSUME NEW p, NEW q, Acted(p, q), Do(q)
  PROVE  Acted(p, phone')
BY DoHandled DEF Acted, Handled

LEMMA SendActed ==
  ASSUME NEW p, Sound(p), NEW q, Sound(q), OnlySends(p, q)
  PROVE  Acted(p, q)
BY DEF OnlySends, Acted, Kept, Rested

LEMMA KnownIsCall ==
  ASSUME NEW p, Sound(p)
  PROVE  Known(p) \subseteq Call
BY DEF Known, Sound, Phone

LEMMA LinphoneStateHandled ==
  ASSUME Sound(phone), NEW u \in Uuids, NEW s \in CallState, LinphoneState(u, s)
  PROVE  Handled(phone, phone')
<1> DEFINE c == CallByUuid(phone, u)
           q == SetLpCallState(phone, c, s)
<1>1. c # NoCall /\ Do(q)
  BY DEF LinphoneState
<1>2. c \in phone.calls /\ c \in Call
  BY <1>1, LookupFindsListed DEF Sound, Phone
<1>3. IF s = "ENDED" THEN Removed(phone, c, q)
      ELSE /\ Sound(q) /\ SameList(phone, q) /\ q.activeCall = phone.activeCall
           /\ q.answerTime \in {phone.answerTime, phone.answerTime \cup {c.id}}
  BY <1>2, SetLpCallStateSound
<1>4. Handled(phone, q)
  <2> HIDE DEF q
  <2>1. CASE s = "ENDED"
    BY <2>1, <1>2, <1>3 DEF Handled, Ended, Known
  <2>2. CASE s # "ENDED"
    BY <2>2, <1>2, <1>3 DEF Handled, Kept, Rested, Attended, Known
  <2> QED BY <2>1, <2>2
<1> QED BY <1>1, <1>4, DoHandled

LEMMA CallKitButtonActed ==
  ASSUME Sound(phone), NEW u \in Uuids, CallKitButton(u)
  PROVE  Acted(phone, phone')
<1> DEFINE c == CallByUuid(phone, u)
<1>1. c # NoCall => c \in Known(phone) /\ c \in Call
  BY LookupFindsListed DEF Sound, Phone, Known
<1>2. ASSUME Do(AnswerButtonPressed(phone, u)) PROVE Acted(phone, phone')
  BY <1>2, AnswerButtonSound, DoActed DEF Acted, Kept
<1>3. ASSUME c # NoCall, Do(HangUp(phone, c)) PROVE Acted(phone, phone')
  BY <1>1, <1>3, HangUpSound, DoActed DEF Acted, Ended
<1>4. ASSUME NEW b \in BOOLEAN, c # NoCall, Do(SetHold(phone, c, b, FALSE))
      PROVE  Acted(phone, phone')
  BY <1>1, <1>4, SetHoldSound, SendActed, DoActed
<1>5. ASSUME NEW b \in BOOLEAN, c # NoCall, Do(SetMute(phone, c, b, FALSE))
      PROVE  Acted(phone, phone')
  BY <1>1, <1>5, SetMuteSound, SendActed, DoActed
<1> QED BY <1>2, <1>3, <1>4, <1>5 DEF CallKitButton

LEMMA CallAnnouncedHandled ==
  ASSUME Sound(phone), NEW i \in Ids, CallAnnounced(i)
  PROVE  Handled(phone, phone')
<1>1. ASSUME NEW q, Announced(phone, i, q), Announce(i, q)
      PROVE  Handled(phone, phone')
  <2>1. Do(q) /\ (Android \/ ~Keyed(phone, i))
    BY <1>1 DEF Announce, Keyed
  <2>2. Handled(phone, q)
    BY <1>1, <2>1 DEF Handled
  <2> QED BY <2>1, <2>2, DoHandled
<1>2. NativeUuid[i] \in Uuids /\ phone.created < MaxObjects
  BY SoftphoneAssumption DEF CallAnnounced, Announce
<1> QED BY <1>1, <1>2, AnnouncementSound DEF CallAnnounced

LEMMA TapActed ==
  ASSUME Sound(phone), \/ TapAnswer \/ TapHangUp \/ TapHold \/ TapMute \/ TapRow
                       \/ TapTransfer
  PROVE  Acted(phone, phone')
<1> DEFINE a == phone.activeCall
<1>1. a # NoCall => a \in Known(phone) /\ a \in Call
  BY DEF Known, Sound, Phone
<1>2. \A c \in IncomingPopup \cup ConnectedRows :
        c \in phone.calls /\ c \in Known(phone) /\ c \in Call
  BY DEF IncomingPopup, Waiting, ConnectedRows, Known, Sound, Phone
<1>3. \A c \in Known(phone) : c \in Call /\ c \in phone.calls \cup {a}
  BY KnownIsCall DEF Known
<1>4. ASSUME NEW c \in Known(phone), Do(HangUp(phone, c)) \/ Do(Transfer(phone, c))
      PROVE  Acted(phone, phone')
  BY <1>3, <1>4, HangUpSound, DoActed DEF Acted, Ended
<1>5. ASSUME NEW c \in Known(phone), Do(AnswerCall(phone, c))
      PROVE  Acted(phone, phone')
  <2>1. Sound(AnswerCall(phone, c)) /\ SameList(phone, AnswerCall(phone, c))
        /\ AnswerCall(phone, c).activeCall \in {c, a}
        /\ AnswerCall(phone, c).answerTime = phone.answerTime \cup {c.id}
        /\ AnswerCall(phone, c).state = phone.state
    BY <1>3, AnswerCallSound
  <2>2. Acted(phone, AnswerCall(phone, c))
    BY <2>1 DEF Acted, Kept, Attended
  <2> QED BY <1>5, <2>2, DoActed
<1>6. CASE TapAnswer
  BY <1>1, <1>2, <1>5, <1>6 DEF TapAnswer
<1>7. CASE TapHangUp
  BY <1>1, <1>2, <1>4, <1>7 DEF TapHangUp
<1>8. CASE TapHold
  <2>1. ASSUME NEW b \in BOOLEAN, a # NoCall, Do(SetHold(phone, a, b, TRUE))
        PROVE  Acted(phone, phone')
    BY <1>1, <2>1, SetHoldSound, SendActed, DoActed
  <2> QED BY <1>8, <2>1 DEF TapHold, ActiveConnected
<1>9. CASE TapMute
  <2>1. ASSUME NEW b \in BOOLEAN, a # NoCall, Do(SetMute(phone, a, b, TRUE))
        PROVE  Acted(phone, phone')
    BY <1>1, <2>1, SetMuteSound, SendActed, DoActed
  <2> QED BY <1>9, <2>1 DEF TapMute, ActiveConnected
<1>10. CASE TapRow
  <2>1. PICK c \in ConnectedRows : Do(MakeActiveCall(phone, c))
    BY <1>10 DEF TapRow
  <2>2. Sound(MakeActiveCall(phone, c)) /\ SameList(phone, MakeActiveCall(phone, c))
        /\ MakeActiveCall(phone, c).activeCall = c
        /\ MakeActiveCall(phone, c).answerTime = phone.answerTime
        /\ MakeActiveCall(phone, c).state = phone.state
    BY <1>2, MakeActiveCallSound
  <2>3. phone.answerTime = phone.answerTime \cup {c.id}
    BY DEF ConnectedRows, IsConnected
  <2>4. Acted(phone, MakeActiveCall(phone, c))
    BY <1>2, <2>2, <2>3 DEF Acted, Kept, Attended
  <2> QED BY <2>1, <2>4, DoActed
<1>11. CASE TapTransfer
  BY <1>1, <1>4, <1>11 DEF TapTransfer, ActiveConnected
<1> QED BY <1>6, <1>7, <1>8, <1>9, <1>10, <1>11

LEMMA OtherUserActed ==
  ASSUME Sound(phone), \/ Dial \/ AssistedTransfer \/ TapCompleteTransfer
                       \/ \E i \in Ids : SaveDisposition(i)
  PROVE  Acted(phone, phone')
<1>1. <<Cmd("lpStartCall", {})>> \in Seq(Command) /\ <<>> \in Seq(Command)
  BY DEF Cmd, Command
<1>2. CASE Dial
  BY <1>1, <1>2, SendSound, SendActed, DoActed DEF Dial
<1>3. CASE AssistedTransfer
  <2> DEFINE q == [phone EXCEPT !.assistedTransferInit = TRUE]
  <2>1. Sound(q) /\ OnlySends(phone, q)
    BY DEF Sound, Phone, OnlySends, SameList
  <2>2. PICK cmds \in Seq(Command) : Do(Send(q, cmds))
    BY <1>1, <1>3 DEF AssistedTransfer, Dialled
  <2> HIDE DEF q
  <2> QED BY <1>1, <2>1, <2>2, SendSound, OnlySendsTransitive, SendActed, DoActed
<1>4. CASE TapCompleteTransfer
  <2> DEFINE a == phone.activeCall
  <2>1. PICK c \in ConnectedRows :
          a.id # c.id /\ Do(CompleteAssistedTransfer(phone, a, c))
    BY <1>4 DEF TapCompleteTransfer
  <2>2. /\ a \in Known(phone) /\ a \in Call /\ c \in phone.calls /\ c \in Call
    BY <1>4 DEF TapCompleteTransfer, ConnectedRows, Known, Sound, Phone
  <2>3. PICK r : /\ Removed(phone, a, r)
                 /\ Removed(r, c, CompleteAssistedTransfer(phone, a, c))
    BY <2>2, CompleteAssistedTransferSound
  <2>4. r \in Phone
    BY <2>3 DEF Removed, Sound
  <2>5. Acted(phone, CompleteAssistedTransfer(phone, a, c))
    BY <2>1, <2>2, <2>3, <2>4 DEF Acted, Ended
  <2> QED BY <2>1, <2>5, DoActed
<1>5. ASSUME NEW i \in Ids, SaveDisposition(i) PROVE Acted(phone, phone')
  <2> DEFINE e == [phone.endedCalls EXCEPT ![i] = 0]
             q == [phone EXCEPT !.endedCalls = e]
  <2>1. Do(q) /\ phone.activeCall = NoCall /\ phone.endedCalls[i] > 0
    BY <1>5 DEF SaveDisposition, Sound, Phone
  <2>2. e \in [Ids -> Nat]
    BY DEF Sound, Phone
  <2> HIDE DEF e
  <2>3. /\ Sound(q) /\ q.calls = phone.calls /\ q.created = phone.created
        /\ q.keys = phone.keys /\ q.activeCall = phone.activeCall
        /\ q.answerTime = phone.answerTime /\ q.endedCalls = e
        /\ q.state = phone.state
    BY <2>2 DEF Sound, Phone
  <2> HIDE DEF q
  <2>4. Kept(phone, q) /\ q.state = phone.state
    BY <2>1, <2>3 DEF Kept, Saved, e
  <2> QED BY <2>1, <2>4, DoActed DEF Acted
<1> QED BY <1>2, <1>3, <1>4, <1>5

LEMMA NextHandled ==
  ASSUME Sound(phone), [Next]_vars
  PROVE  Handled(phone, phone')
<1>1. CASE Next
  <2>1. \A s \in CallState \ {"NONE"} : s \in CallState
    OBVIOUS
  <2>2. \A q : Acted(phone, q) => Handled(phone, q)
    BY DEF Acted, Handled
  <2> QED BY <1>1, <2>1, <2>2, CallAnnouncedHandled, LinphoneStateHandled,
             CallKitButtonActed, TapActed, OtherUserActed DEF Next, User
<1>2. CASE UNCHANGED vars
  <2>1. phone' = phone
    BY <1>2 DEF vars
  <2> QED BY <2>1 DEF Handled, Kept, Rested, SameList
<1> QED BY <1>1, <1>2

-----------------------------------------------------------------------------
(* On both platforms. *)
LEMMA InitSound == Init => Sound(phone) /\ Focused(phone)
<1> SUFFICES ASSUME Init PROVE Sound(phone) /\ Focused(phone)
  OBVIOUS
<1>1. phone = InitPhone
  BY DEF Init
<1>2. <<>> \in Seq(Ids) /\ <<>> \in Seq(Command) /\ 0 \in 0..MaxObjects
  BY SoftphoneAssumption
<1>3. InitPhone \in Phone
  BY <1>2 DEF InitPhone, Phone, CallState
<1>4. InitPhone.calls = {}
  BY DEF InitPhone
<1> QED BY <1>1, <1>3, <1>4, FS_EmptySet DEF Sound, Focused

LEMMA RemovedFocused ==
  ASSUME NEW p, NEW c, NEW q, Removed(p, c, q)
  PROVE  Sound(q) /\ Focused(q)
<1>1. Sound(q) /\ (q.calls # {} => q.activeCall \in q.calls)
  BY DEF Removed
<1>2. q.calls \subseteq Call
  BY <1>1 DEF Sound, Phone
<1> QED BY <1>1, <1>2, NoCallIsNull DEF Focused

LEMMA HandledFocused ==
  ASSUME NEW p, NEW q, Sound(p), Focused(p), Handled(p, q)
  PROVE  Sound(q) /\ Focused(q)
<1>1. ASSUME Kept(p, q) PROVE Sound(q) /\ Focused(q)
  <2>1. NoCall \notin p.calls
    BY NoCallIsNull DEF Sound, Phone
  <2>2. q.calls = p.calls /\ q.activeCall \in p.calls \cup {p.activeCall}
    BY <1>1 DEF Kept, Rested, Attended, Saved, SameList, Known
  <2> QED BY <1>1, <2>1, <2>2 DEF Kept, Focused
<1>2. ASSUME NEW i, Announced(p, i, q) PROVE Sound(q) /\ Focused(q)
  BY <1>2 DEF Announced
<1> QED BY <1>1, <1>2, RemovedFocused DEF Handled, Ended

(* The fields of the Softphone object keep their types, and no call can be *)
(* listed while none has the focus: no event or tap order empties          *)
(* activeCall (softphone.dart 1265, 1285) and leaves a call behind.        *)
THEOREM SoftphoneFocus == Spec => [](TypeOK /\ CallsHaveFocus)
<1> DEFINE I == Sound(phone) /\ Focused(phone)
<1>1. Init => I
  BY InitSound
<1>2. I /\ [Next]_vars => I'
  <2> SUFFICES ASSUME I, [Next]_vars PROVE I'
    OBVIOUS
  <2>1. Handled(phone, phone')
    BY NextHandled
  <2>2. Sound(phone') /\ Focused(phone')
    BY <2>1, HandledFocused
  <2> QED BY <2>2
<1>3. I => TypeOK /\ CallsHaveFocus
  BY DEF Sound, Focused, TypeOK, CallsHaveFocus
<1> QED BY <1>1, <1>2, <1>3, PTL DEF Spec

(* The fields of the Softphone object keep their types, and the numbers of *)
(* objects their bounds.                                                   *)
THEOREM SoftphoneTypes == Spec => []TypeOK
BY SoftphoneFocus, PTL

-----------------------------------------------------------------------------
(* Only an announcement lists a call, and it takes the focus for the call  *)
(* only if none has it, the call goes out, or the user has answered it.    *)
LEMMA HandledKeepsFocus ==
  ASSUME NEW p, NEW q, Handled(p, q)
  PROVE  KeepsFocus(p, q)
<1>1. ASSUME Kept(p, q) PROVE q.calls \subseteq p.calls
  BY <1>1 DEF Kept, Rested, Attended, Saved, SameList
<1>2. \A x, c, y : Removed(x, c, y) => y.calls \subseteq x.calls
  BY DEF Removed, Without
<1>3. q.calls \subseteq p.calls => KeepsFocus(p, q)
  BY DEF KeepsFocus
<1>4. ASSUME NEW i, Announced(p, i, q) PROVE KeepsFocus(p, q)
  BY <1>4 DEF Announced
<1> QED BY <1>1, <1>2, <1>3, <1>4 DEF Handled, Ended

(* A call that arrives without being answered never takes the focus from   *)
(* the call that has it, on either platform and whatever handler announces *)
(* it (softphone.dart 1456-1469).                                          *)
THEOREM ArrivalsLeaveFocus == Spec => ArrivalKeepsFocus
<1> DEFINE I == Sound(phone)
<1>1. Init => I
  BY InitSound
<1>2. I /\ [Next]_vars => I'
  BY NextHandled DEF Handled, Ended, Kept, Removed, Announced
<1>3. I /\ [Next]_vars => KeepsFocus(phone, phone')
  BY NextHandled, HandledKeepsFocus
<1>4. KeepsFocus(phone, phone') =>
        \A c \in phone'.calls \ phone.calls :
          c.direction = "INCOMING" /\ c.id \notin phone'.answerTime
            /\ phone.activeCall # NoCall
          => phone'.activeCall = phone.activeCall
  BY DEF KeepsFocus, Unasked
<1> QED BY <1>1, <1>2, <1>3, <1>4, PTL DEF Spec, ArrivalKeepsFocus

-----------------------------------------------------------------------------
(* On iOS.  A call is announced once, because its id is then a key of      *)
(* callData for good; so no second object is ever made for it, and the     *)
(* focus, which only listed calls can get, is lost with the object.        *)
OneObject(p) == \A c, d \in p.calls : c.id = d.id => c = d

FocusListed(p) == p.activeCall \in p.calls \cup {NoCall}

AllKeyed(p) ==
  /\ \A c \in p.calls : Keyed(p, c.id) /\ p.endedCalls[c.id] = 0
  /\ \A i \in Ids : p.endedCalls[i] > 0 => Keyed(p, i)
  /\ \A i \in Ids : p.endedCalls[i] <= 1

IosInv(p) == Sound(p) /\ OneObject(p) /\ FocusListed(p) /\ AllKeyed(p)

LEMMA InitIos == Init => IosInv(phone)
<1> SUFFICES ASSUME Init PROVE IosInv(phone)
  OBVIOUS
<1>1. phone = InitPhone /\ Sound(phone)
  BY InitSound DEF Init
<1> QED BY <1>1 DEF InitPhone, IosInv, OneObject, FocusListed, AllKeyed

LEMMA KeptIos ==
  ASSUME NEW p, IosInv(p), NEW q, Kept(p, q)
  PROVE  IosInv(q)
<1>1. p.endedCalls \in [Ids -> Nat] /\ \A c \in p.calls : c.id \in Ids
  BY DEF IosInv, Sound, Phone, Call
<1>2. /\ Sound(q) /\ q.calls = p.calls /\ q.keys = p.keys
      /\ q.activeCall \in p.calls \cup {p.activeCall}
  BY DEF Kept, Rested, Attended, Saved, SameList, Known
<1>3. \A i \in Ids : q.endedCalls[i] \in {0, p.endedCalls[i]}
  BY <1>1 DEF Kept, Rested, Attended, Saved, SameList
<1>4. AllKeyed(q)
  BY <1>1, <1>2, <1>3 DEF IosInv, AllKeyed, Keyed
<1> QED BY <1>2, <1>4 DEF IosInv, OneObject, FocusListed

LEMMA RemovedIos ==
  ASSUME NEW p, IosInv(p), NEW c \in p.calls, NEW q, Removed(p, c, q)
  PROVE  IosInv(q)
<1>1. /\ Sound(q) /\ q.calls = Without(p, c) /\ q.keys = p.keys
      /\ p.endedCalls \in [Ids -> Nat] /\ c.id \in Ids
      /\ \A d \in p.calls : d.id \in Ids
  BY DEF Removed, IosInv, Sound, Phone, Call
<1>2. OneObject(q)
  BY <1>1 DEF IosInv, OneObject, Without
<1>3. FocusListed(q)
  <2>1. CASE q.calls = {}
    <3>1. p.activeCall = c \/ p.activeCall \notin p.calls
      BY <2>1, <1>1 DEF Without, IosInv, OneObject
    <3> QED BY <2>1, <3>1 DEF Removed, FocusListed, IosInv
  <2>2. CASE q.calls # {}
    BY <2>2 DEF Removed, FocusListed
  <2> QED BY <2>1, <2>2
<1>4. AllKeyed(q)
  <2>1. {d \in p.calls : d.id = c.id} = {c}
    BY DEF IosInv, OneObject
  <2>2. Cardinality({c}) = 1
    BY FS_Singleton
  <2>3. PICK k \in {0, 1} : q.endedCalls = [p.endedCalls EXCEPT ![c.id] = @ + k]
    BY <2>1, <2>2 DEF Removed, Counted, Copies
  <2>4. p.endedCalls[c.id] = 0 /\ Keyed(p, c.id)
    BY DEF IosInv, AllKeyed
  <2>5. /\ q.endedCalls[c.id] = k
        /\ \A i \in Ids \ {c.id} : q.endedCalls[i] = p.endedCalls[i]
    BY <1>1, <2>3, <2>4
  <2>6. \A i \in Ids : Keyed(p, i) <=> Keyed(q, i)
    BY <1>1 DEF Keyed
  <2>7. \A i \in Ids : q.endedCalls[i] <= 1 /\ (q.endedCalls[i] > 0 => Keyed(q, i))
    BY <2>4, <2>5, <2>6 DEF IosInv, AllKeyed
  <2>8. \A d \in q.calls : Keyed(q, d.id) /\ q.endedCalls[d.id] = 0
    BY <1>1, <2>5, <2>6 DEF IosInv, AllKeyed, Without
  <2> QED BY <2>7, <2>8 DEF AllKeyed
<1> QED BY <1>1, <1>2, <1>3, <1>4 DEF IosInv

LEMMA AnnouncedIos ==
  ASSUME NEW p, IosInv(p), NEW i \in Ids, ~Keyed(p, i), NEW q, Announced(p, i, q)
  PROVE  IosInv(q)
<1>1. PICK c \in Call :
        /\ c.id = i /\ c.n = p.created + 1
        /\ q.activeCall \in {p.activeCall, c}
        /\ \/ q.calls = p.calls /\ q.created \in {p.created, c.n}
           \/ q.calls = p.calls \cup {c} /\ q.created = c.n /\ Keyed(q, i)
        /\ ~IsListed(p, i) /\ q.activeCall # p.activeCall => c \in q.calls
  BY DEF Announced, Rested
<1>2. ~IsListed(p, i) /\ \A d \in p.calls : d.id # i
  BY DEF IsListed, IosInv, AllKeyed
<1>3. OneObject(q)
  BY <1>1, <1>2 DEF OneObject, IosInv
<1>4. FocusListed(q)
  BY <1>1, <1>2 DEF FocusListed, IosInv
<1>5. /\ p.endedCalls \in [Ids -> Nat] /\ q.endedCalls = p.endedCalls
      /\ \A d \in p.calls : d.id \in Ids
  BY DEF Announced, IosInv, Sound, Phone, Call
<1>6. \A j \in Ids : Keyed(p, j) => Keyed(q, j)
  BY DEF Announced
<1>7. q.endedCalls[i] = 0
  <2>1. ~(p.endedCalls[i] > 0) /\ p.endedCalls[i] \in Nat
    BY <1>5 DEF IosInv, AllKeyed
  <2> QED BY <1>5, <2>1
<1>8. AllKeyed(q)
  BY <1>1, <1>5, <1>6, <1>7 DEF IosInv, AllKeyed
<1>9. Sound(q)
  BY DEF Announced
<1> QED BY <1>3, <1>4, <1>8, <1>9 DEF IosInv

LEMMA HandledIos ==
  ASSUME ~Android, NEW p, IosInv(p), NEW q, Handled(p, q)
  PROVE  IosInv(q)
<1>1. \A c \in Known(p) : c \in p.calls
  BY DEF Known, IosInv, FocusListed
<1>2. ASSUME NEW a \in Known(p), NEW b \in p.calls, NEW r, a.id # b.id,
             Removed(p, a, r), Removed(r, b, q)
      PROVE  IosInv(q)
  <2>1. IosInv(r)
    BY <1>1, <1>2, RemovedIos
  <2>2. b \in r.calls
    BY <1>2 DEF Removed, Without
  <2> QED BY <1>2, <2>1, <2>2, RemovedIos
<1> QED BY <1>1, <1>2, KeptIos, RemovedIos, AnnouncedIos DEF Handled, Ended

(* On iOS the object that has the focus is one of the list, whatever the   *)
(* order of announcements, events and buttons, and no call asks twice for  *)
(* a disposition.                                                          *)
THEOREM IosFocus == Spec => [](FocusIsListed /\ AskedOncePerCall)
<1> DEFINE I == ~Android => IosInv(phone)
<1>1. Init => I
  BY InitIos
<1>2. I /\ [Next]_vars => I'
  <2> SUFFICES ASSUME I, [Next]_vars, ~Android PROVE IosInv(phone')
    OBVIOUS
  <2>1. IosInv(phone) /\ Sound(phone)
    BY DEF IosInv
  <2>2. Handled(phone, phone')
    BY <2>1, NextHandled
  <2> QED BY <2>1, <2>2, HandledIos
<1>3. I => FocusIsListed /\ AskedOncePerCall
  BY DEF IosInv, OneObject, FocusListed, AllKeyed, FocusIsListed,
         AskedOncePerCall
<1> QED BY <1>1, <1>2, <1>3, PTL DEF Spec

(* On iOS the disposition of a call is asked for at most once.             *)
THEOREM IosAskedOnce == Spec => []AskedOncePerCall
BY IosFocus, PTL

-----------------------------------------------------------------------------
(* Softphone implements CallBook on iOS: each kind of step is one of its   *)
(* actions or changes nothing it sees.                                     *)
FocusOf(p) == {c.id : c \in {p.activeCall} \ {NoCall}}

AskingOf(p) == {i \in Ids : p.endedCalls[i] > 0}

(* A listed call goes on; stages differ only as the list, the answers and  *)
(* the keys do.                                                            *)
LEMMA StageFacts ==
  ASSUME NEW p, NEW i
  PROVE  /\ Stage(p, i) \in {"waiting", "talking"} <=> IsListed(p, i)
         /\ Stage(p, i) = "talking" <=> IsListed(p, i) /\ i \in p.answerTime
         /\ Stage(p, i) = "over" <=> ~IsListed(p, i) /\ Keyed(p, i)
         /\ Stage(p, i) = "unknown" <=> ~IsListed(p, i) /\ ~Keyed(p, i)
BY DEF Stage, Keyed

LEMMA SameStage ==
  ASSUME NEW p, NEW q, NEW i,
         IsListed(p, i) <=> IsListed(q, i), Keyed(p, i) <=> Keyed(q, i),
         i \in p.answerTime <=> i \in q.answerTime
  PROVE  Stage(q, i) = Stage(p, i)
BY DEF Stage, Keyed

(* What Softphone has to show of a step from p to q, action by action.     *)
RestsFor(p, q) ==
  /\ \A i \in Ids : Stage(q, i) = Stage(p, i)
  /\ FocusOf(q) = FocusOf(p) /\ AskingOf(q) = AskingOf(p)

ArrivesFor(p, q, i) ==
  /\ Stage(p, i) = "unknown" /\ Stage(q, i) \in {"waiting", "talking"}
  /\ \A j \in Ids \ {i} : Stage(q, j) = Stage(p, j)
  /\ FocusOf(q) \in {FocusOf(p), {i}} \ {{}} /\ AskingOf(q) = AskingOf(p)

AttendsFor(p, q, i) ==
  /\ Stage(p, i) \in {"waiting", "talking"} /\ Stage(q, i) = "talking"
  /\ \A j \in Ids \ {i} : Stage(q, j) = Stage(p, j)
  /\ FocusOf(q) \in {FocusOf(p), {i}} /\ AskingOf(q) = AskingOf(p)

EndsFor(p, q, ended) ==
  /\ \A i \in ended : Stage(p, i) \in {"waiting", "talking"} /\ Stage(q, i) = "over"
  /\ \A i \in Ids \ ended : Stage(q, i) = Stage(p, i)
  /\ \/ (\A i \in Ids : IsListed(p, i) => i \in ended) /\ FocusOf(q) = {}
     \/ \E i \in Ids \ ended : IsListed(p, i) /\ FocusOf(q) = {i}
  /\ AskingOf(q) = IF ForceDisposition
                   THEN AskingOf(p) \cup {i \in ended : Stage(p, i) = "talking"}
                   ELSE AskingOf(p)

SavesFor(p, q, i) ==
  /\ FocusOf(p) = {} /\ i \in AskingOf(p)
  /\ AskingOf(q) = AskingOf(p) \ {i} /\ FocusOf(q) = {}
  /\ \A j \in Ids : Stage(q, j) = Stage(p, j)

StepFor(p, q) ==
  \/ RestsFor(p, q)
  \/ \E i \in Ids : ArrivesFor(p, q, i) \/ AttendsFor(p, q, i) \/ SavesFor(p, q, i)
  \/ \E i, j \in Ids : EndsFor(p, q, {i, j})

LEMMA RestedSteps ==
  ASSUME NEW p, NEW q, Rested(p, q)
  PROVE  RestsFor(p, q)
BY SameStage DEF Rested, SameList, RestsFor, IsListed, Keyed, FocusOf, AskingOf

LEMMA AttendedSteps ==
  ASSUME NEW p, IosInv(p), NEW q, Attended(p, q)
  PROVE  \E i \in Ids : AttendsFor(p, q, i)
<1>1. PICK c \in Known(p) : /\ q.answerTime = p.answerTime \cup {c.id}
                            /\ q.activeCall \in {p.activeCall, c}
  BY DEF Attended
<1>2. c \in p.calls /\ c.id \in Ids /\ c # NoCall
  BY NoCallIsNull DEF Known, IosInv, FocusListed, Sound, Phone, Call
<1>3. \A i : IsListed(p, i) <=> IsListed(q, i)
  BY DEF Attended, SameList, IsListed
<1>4. \A i : Keyed(p, i) <=> Keyed(q, i)
  BY DEF Attended, SameList, Keyed
<1>5. IsListed(p, c.id)
  BY <1>2 DEF IsListed
<1>6. \A j \in Ids \ {c.id} : Stage(q, j) = Stage(p, j)
  BY <1>1, <1>3, <1>4, SameStage
<1>7. Stage(p, c.id) \in {"waiting", "talking"} /\ Stage(q, c.id) = "talking"
  BY <1>1, <1>3, <1>5, StageFacts
<1>8. FocusOf(q) \in {FocusOf(p), {c.id}}
  BY <1>1, <1>2 DEF FocusOf
<1>9. AskingOf(q) = AskingOf(p)
  BY DEF Attended, SameList, AskingOf
<1> QED BY <1>2, <1>6, <1>7, <1>8, <1>9 DEF AttendsFor

LEMMA SavedSteps ==
  ASSUME NEW p, IosInv(p), NEW q, Saved(p, q)
  PROVE  \E i \in Ids : SavesFor(p, q, i)
<1>1. PICK i \in Ids : /\ p.endedCalls[i] > 0
                       /\ q.endedCalls = [p.endedCalls EXCEPT ![i] = 0]
  BY DEF Saved
<1>2. p.endedCalls \in [Ids -> Nat]
  BY DEF IosInv, Sound, Phone
<1>3. AskingOf(q) = AskingOf(p) \ {i} /\ i \in AskingOf(p)
  BY <1>1, <1>2 DEF AskingOf
<1>4. FocusOf(p) = {} /\ FocusOf(q) = {}
  BY DEF Saved, FocusOf
<1>5. \A j \in Ids : Stage(q, j) = Stage(p, j)
  BY SameStage DEF Saved, IsListed, Keyed
<1> QED BY <1>3, <1>4, <1>5 DEF SavesFor

(* Removing a listed call: its stage, and nobody else's, changes; the      *)
(* disposition of no other call is asked for.                              *)
LEMMA RemovedStages ==
  ASSUME NEW p, IosInv(p), NEW c \in p.calls, NEW q, Removed(p, c, q)
  PROVE  /\ c.id \in Ids /\ IsListed(p, c.id) /\ Stage(q, c.id) = "over"
         /\ \A i \in Ids \ {c.id} : Stage(q, i) = Stage(p, i)
         /\ \A i \in Ids : IsListed(q, i) <=> IsListed(p, i) /\ i # c.id
         /\ AskingOf(q) = IF ForceDisposition
                          THEN AskingOf(p) \cup {i \in {c.id} : Stage(p, i) = "talking"}
                          ELSE AskingOf(p)
         /\ IF q.calls = {} THEN FocusOf(q) = {}
            ELSE \E i \in Ids : IsListed(q, i) /\ FocusOf(q) = {i}
<1>1. /\ c.id \in Ids /\ IsListed(p, c.id) /\ Keyed(p, c.id) /\ p.endedCalls[c.id] = 0
      /\ p.endedCalls \in [Ids -> Nat]
  BY DEF IosInv, AllKeyed, Sound, Phone, Call, IsListed
<1>2. \A i \in Ids : IsListed(q, i) <=> IsListed(p, i) /\ i # c.id
  BY DEF Removed, Without, IsListed
<1>3. \A i \in Ids : Keyed(q, i) <=> Keyed(p, i)
  BY DEF Removed, Keyed
<1>4. Stage(q, c.id) = "over"
  BY <1>1, <1>2, <1>3, StageFacts
<1>5. \A i \in Ids \ {c.id} : Stage(q, i) = Stage(p, i)
  BY <1>2, <1>3, SameStage DEF Removed
<1>6. Copies(p, c) = IF Stage(p, c.id) = "talking" /\ ForceDisposition THEN 1 ELSE 0
  <2>1. {d \in p.calls : d.id = c.id} = {c}
    BY DEF IosInv, OneObject
  <2>2. Cardinality({c}) = 1
    BY FS_Singleton
  <2>3. Stage(p, c.id) = "talking" <=> IsConnected(p, c)
    BY <1>1, StageFacts DEF IsConnected
  <2> QED BY <2>1, <2>2, <2>3 DEF Copies
<1>7. /\ q.endedCalls[c.id] = Copies(p, c)
      /\ \A i \in Ids \ {c.id} : q.endedCalls[i] = p.endedCalls[i]
  <2>1. Copies(p, c) \in Nat /\ q.endedCalls = [p.endedCalls EXCEPT ![c.id] = @ + Copies(p, c)]
    BY DEF Removed, Counted
  <2> QED BY <1>1, <2>1
<1>8. /\ c.id \in AskingOf(q) <=> Stage(p, c.id) = "talking" /\ ForceDisposition
      /\ c.id \notin AskingOf(p)
      /\ \A i \in Ids \ {c.id} : i \in AskingOf(q) <=> i \in AskingOf(p)
  BY <1>1, <1>6, <1>7 DEF AskingOf
<1>9. AskingOf(q) = IF ForceDisposition
                    THEN AskingOf(p) \cup {i \in {c.id} : Stage(p, i) = "talking"}
                    ELSE AskingOf(p)
  <2>1. AskingOf(p) \subseteq Ids /\ AskingOf(q) \subseteq Ids
    BY DEF AskingOf
  <2> QED BY <1>1, <1>8, <2>1
<1>10. IosInv(q)
  BY RemovedIos
<1>11. CASE q.calls = {}
  <2>1. q.activeCall = NoCall
    BY <1>10, <1>11 DEF IosInv, FocusListed
  <2>2. FocusOf(q) = {}
    BY <2>1 DEF FocusOf
  <2> QED BY <1>1, <1>2, <1>4, <1>5, <1>9, <1>11, <2>2
<1>12. CASE q.calls # {}
  <2>1. q.activeCall \in q.calls
    BY <1>12 DEF Removed
  <2>2. q.activeCall.id \in Ids /\ q.activeCall # NoCall
    BY <1>10, <2>1, NoCallIsNull DEF IosInv, Sound, Phone, Call
  <2>3. FocusOf(q) = {q.activeCall.id} /\ IsListed(q, q.activeCall.id)
    BY <2>1, <2>2 DEF FocusOf, IsListed
  <2> QED BY <1>1, <1>2, <1>4, <1>5, <1>9, <1>12, <2>2, <2>3
<1> QED BY <1>11, <1>12

LEMMA RemovedSteps ==
  ASSUME NEW p, IosInv(p), NEW c \in p.calls, NEW q, Removed(p, c, q)
  PROVE  \E i, j \in Ids : EndsFor(p, q, {i, j})
<1>1. EndsFor(p, q, {c.id, c.id})
  <2>1. {c.id, c.id} = {c.id}
    OBVIOUS
  <2>2. Stage(p, c.id) \in {"waiting", "talking"}
    BY RemovedStages, StageFacts
  <2>3. CASE q.calls = {}
    <3>1. \A i \in Ids : IsListed(p, i) => i \in {c.id}
      BY <2>3, RemovedStages DEF IsListed
    <3> QED BY <2>1, <2>2, <2>3, <3>1, RemovedStages DEF EndsFor
  <2>4. CASE q.calls # {}
    <3>1. \E i \in Ids \ {c.id} : IsListed(p, i) /\ FocusOf(q) = {i}
      BY <2>4, RemovedStages
    <3> QED BY <2>1, <2>2, <3>1, RemovedStages DEF EndsFor
  <2> QED BY <2>3, <2>4
<1> QED BY <1>1, RemovedStages

LEMMA RemovedTwiceSteps ==
  ASSUME NEW p, IosInv(p), NEW a \in p.calls, NEW b \in p.calls, a.id # b.id,
         NEW r, Removed(p, a, r), NEW q, Removed(r, b, q)
  PROVE  \E i, j \in Ids : EndsFor(p, q, {i, j})
<1>1. IosInv(r) /\ b \in r.calls
  BY RemovedIos DEF Removed, Without
<1> DEFINE x == a.id
           y == b.id
           ended == {x, y}
<1>2. /\ x \in Ids /\ y \in Ids /\ IsListed(p, x) /\ IsListed(r, y)
      /\ Stage(r, x) = "over" /\ Stage(q, y) = "over"
      /\ \A i \in Ids \ {x} : Stage(r, i) = Stage(p, i)
      /\ \A i \in Ids \ {y} : Stage(q, i) = Stage(r, i)
      /\ \A i \in Ids : IsListed(r, i) <=> IsListed(p, i) /\ i # x
      /\ \A i \in Ids : IsListed(q, i) <=> IsListed(r, i) /\ i # y
  BY <1>1, RemovedStages
<1>3. \A i \in ended : Stage(p, i) \in {"waiting", "talking"} /\ Stage(q, i) = "over"
  BY <1>2, StageFacts
<1>4. \A i \in Ids \ ended : Stage(q, i) = Stage(p, i)
  BY <1>2
<1>5. \/ (\A i \in Ids : IsListed(p, i) => i \in ended) /\ FocusOf(q) = {}
      \/ \E i \in Ids \ ended : IsListed(p, i) /\ FocusOf(q) = {i}
  <2>1. IF q.calls = {} THEN FocusOf(q) = {}
        ELSE \E i \in Ids : IsListed(q, i) /\ FocusOf(q) = {i}
    BY <1>1, RemovedStages
  <2>2. CASE q.calls = {}
    <3>1. \A i \in Ids : ~IsListed(q, i)
      BY <2>2 DEF IsListed
    <3> QED BY <1>2, <2>1, <2>2, <3>1
  <2>3. CASE q.calls # {}
    BY <1>2, <2>1, <2>3
  <2> QED BY <2>2, <2>3
<1>6. AskingOf(q) = IF ForceDisposition
                    THEN AskingOf(p) \cup {i \in ended : Stage(p, i) = "talking"}
                    ELSE AskingOf(p)
  <2>1. AskingOf(r) = IF ForceDisposition
                      THEN AskingOf(p) \cup {i \in {x} : Stage(p, i) = "talking"}
                      ELSE AskingOf(p)
    BY RemovedStages
  <2>2. AskingOf(q) = IF ForceDisposition
                      THEN AskingOf(r) \cup {i \in {y} : Stage(r, i) = "talking"}
                      ELSE AskingOf(r)
    BY <1>1, RemovedStages
  <2>3. Stage(r, y) = Stage(p, y)
    BY <1>2
  <2> QED BY <2>1, <2>2, <2>3
<1>7. EndsFor(p, q, ended)
  <2> HIDE DEF ended
  <2> QED BY <1>3, <1>4, <1>5, <1>6 DEF EndsFor
<1> QED BY <1>2, <1>7

LEMMA AnnouncedSteps ==
  ASSUME NEW p, IosInv(p), Focused(p), NEW i \in Ids, ~Keyed(p, i),
         NEW q, Announced(p, i, q)
  PROVE  RestsFor(p, q) \/ ArrivesFor(p, q, i)
<1>1. PICK c \in Call :
        /\ c.id = i /\ q.activeCall \in {p.activeCall, c}
        /\ \/ q.calls = p.calls /\ q.created \in {p.created, c.n}
           \/ q.calls = p.calls \cup {c} /\ q.created = c.n /\ Keyed(q, i)
        /\ IsListed(p, i) \/ c \in q.calls \/ Rested(p, q)
  BY DEF Announced
<1>2. ~IsListed(p, i)
  BY DEF IsListed, IosInv, AllKeyed
<1>3. CASE Rested(p, q)
  BY <1>3, RestedSteps
<1>4. CASE ~Rested(p, q)
  <2>1. c \in q.calls /\ q.calls = p.calls \cup {c}
    BY <1>1, <1>2, <1>4 DEF IsListed
  <2>2. Stage(p, i) = "unknown"
    BY <1>2, StageFacts
  <2>3. Stage(q, i) \in {"waiting", "talking"}
    <3>1. IsListed(q, i)
      BY <1>1, <2>1 DEF IsListed
    <3> QED BY <3>1, StageFacts
  <2>4. \A j \in Ids \ {i} : Stage(q, j) = Stage(p, j)
    <3>1. \A j \in Ids \ {i} : IsListed(p, j) <=> IsListed(q, j)
      BY <1>1, <2>1 DEF IsListed
    <3>2. \A j \in Ids \ {i} : /\ Keyed(p, j) <=> Keyed(q, j)
                               /\ j \in p.answerTime <=> j \in q.answerTime
      BY DEF Announced
    <3> QED BY <3>1, <3>2, SameStage
  <2>5. FocusOf(q) \in {FocusOf(p), {i}} \ {{}}
    <3>1. q.activeCall # NoCall
      BY <2>1 DEF Announced, Focused
    <3>2. q.activeCall.id \in FocusOf(q)
      BY <3>1 DEF FocusOf
    <3>3. FocusOf(q) \in {FocusOf(p), {i}}
      BY <1>1, <3>1 DEF FocusOf
    <3> QED BY <3>2, <3>3
  <2>6. AskingOf(q) = AskingOf(p)
    BY DEF Announced, AskingOf
  <2> QED BY <2>2, <2>3, <2>4, <2>5, <2>6 DEF ArrivesFor
<1> QED BY <1>3, <1>4

LEMMA HandledSteps ==
  ASSUME ~Android, NEW p, IosInv(p), Focused(p), NEW q, Handled(p, q)
  PROVE  StepFor(p, q)
<1>1. \A c \in Known(p) : c \in p.calls
  BY DEF Known, IosInv, FocusListed
<1>2. ASSUME Kept(p, q) PROVE StepFor(p, q)
  BY <1>2, RestedSteps, AttendedSteps, SavedSteps DEF Kept, StepFor
<1>3. ASSUME NEW c \in Known(p), Removed(p, c, q) PROVE StepFor(p, q)
  BY <1>1, <1>3, RemovedSteps DEF StepFor
<1>4. ASSUME NEW a \in Known(p), NEW b \in p.calls, NEW r \in Phone,
             a.id # b.id, Removed(p, a, r), Removed(r, b, q)
      PROVE  StepFor(p, q)
  BY <1>1, <1>4, RemovedTwiceSteps DEF StepFor
<1>5. ASSUME NEW i \in Ids, Android \/ ~Keyed(p, i), Announced(p, i, q)
      PROVE  StepFor(p, q)
  BY <1>5, AnnouncedSteps DEF StepFor
<1> QED BY <1>2, <1>3, <1>4, <1>5 DEF Handled, Ended

(* What is shown of a step is a step of CallBook. *)
LEMMA BookSteps ==
  ASSUME StepFor(phone, phone')
  PROVE  Book!Next
<1> DEFINE stg  == [i \in Ids |-> Stage(phone, i)]
           stgN == [i \in Ids |-> Stage(phone', i)]
<1>1. CASE RestsFor(phone, phone')
  BY <1>1 DEF RestsFor, Book!Next, Book!Rests, Book!vars, FocusOf, AskingOf
<1>2. ASSUME NEW i \in Ids, ArrivesFor(phone, phone', i) PROVE Book!Next
  <2>1. stgN = [stg EXCEPT ![i] = Stage(phone', i)]
    BY <1>2 DEF ArrivesFor
  <2> QED BY <1>2, <2>1 DEF ArrivesFor, Book!Next, Book!Arrives, FocusOf, AskingOf
<1>3. ASSUME NEW i \in Ids, AttendsFor(phone, phone', i) PROVE Book!Next
  <2>1. stgN = [stg EXCEPT ![i] = "talking"]
    BY <1>3 DEF AttendsFor
  <2> QED BY <1>3, <2>1
          DEF AttendsFor, Book!Next, Book!Attends, Book!GoingOn, FocusOf, AskingOf
<1>4. ASSUME NEW i \in Ids, SavesFor(phone, phone', i) PROVE Book!Next
  <2>1. stgN = stg
    BY <1>4 DEF SavesFor
  <2> QED BY <1>4, <2>1 DEF SavesFor, Book!Next, Book!Saves, FocusOf, AskingOf
<1>5. ASSUME NEW i \in Ids, NEW j \in Ids, EndsFor(phone, phone', {i, j})
      PROVE  Book!Next
  <2>1. Book!GoingOn = {k \in Ids : IsListed(phone, k)}
    BY StageFacts DEF Book!GoingOn
  <2>2. i \in Book!GoingOn /\ j \in Book!GoingOn
    BY <1>5 DEF EndsFor, Book!GoingOn
  <2>3. stgN = [k \in Ids |-> IF k \in {i, j} THEN "over" ELSE stg[k]]
    BY <1>5 DEF EndsFor
  <2>4. Book!End({i, j})
    BY <1>5, <2>1, <2>2, <2>3 DEF EndsFor, Book!End, FocusOf, AskingOf
  <2> QED BY <2>2, <2>4 DEF Book!Next
<1> QED BY <1>1, <1>2, <1>3, <1>4, <1>5 DEF StepFor

(* On iOS, for every set of calls and uuids, Softphone implements          *)
(* CallBook: no order of announcements, events, taps and buttons brings an *)
(* ended call back, leaves calls without focus, or asks for the            *)
(* disposition of a call nobody answered.                                  *)
THEOREM IosKeepsBook ==
  ASSUME ~Android
  PROVE  Spec => KeepsBook
<1> DEFINE I == IosInv(phone) /\ Focused(phone)
<1>1. Init => I
  BY InitSound, InitIos
<1>2. I /\ [Next]_vars => I'
  <2> SUFFICES ASSUME I, [Next]_vars PROVE I'
    OBVIOUS
  <2>1. Handled(phone, phone')
    BY NextHandled DEF IosInv
  <2> QED BY <2>1, HandledIos, HandledFocused DEF IosInv
<1>3. Init => Book!Init
  <2> SUFFICES ASSUME Init PROVE Book!Init
    OBVIOUS
  <2>1. phone = InitPhone
    BY DEF Init
  <2>2. \A i \in Ids : Stage(phone, i) = "unknown"
    BY <2>1 DEF InitPhone, Stage, IsListed
  <2>3. [i \in Ids |-> Stage(phone, i)] = [i \in Ids |-> "unknown"]
    BY <2>2
  <2>4. phone.activeCall = NoCall /\ phone.endedCalls = [i \in Ids |-> 0]
    BY <2>1 DEF InitPhone
  <2>5. {c.id : c \in {phone.activeCall} \ {NoCall}} = {}
    BY <2>4
  <2>6. {i \in Ids : phone.endedCalls[i] > 0} = {}
    BY <2>4
  <2> QED BY <2>3, <2>5, <2>6 DEF Book!Init
<1>4. I /\ [Next]_vars => [Book!Next]_(Book!vars)
  <2> SUFFICES ASSUME I, [Next]_vars PROVE Book!Next
    OBVIOUS
  <2>1. Handled(phone, phone')
    BY NextHandled DEF IosInv
  <2> QED BY <2>1, HandledSteps, BookSteps
<1> QED BY <1>1, <1>2, <1>3, <1>4, PTL DEF Spec, KeepsBook, Book!Spec

-----------------------------------------------------------------------------
(* What the calls that lose the focus are told.  A method only appends to  *)
(* the commands; if it moves the focus, then among the commands it appends *)
(* there is one to hold each of the other calls it leaves in the list.     *)
Follows(s, t) == Len(s) <= Len(t) /\ \A k \in 1..Len(s) : t[k] = s[k]

ToldToHold(q, n, d) ==
  \E k \in n + 1 .. Len(q.out) :
    q.out[k].op = "lpHold" /\ NativeUuid[d.id] \in q.out[k].to

Tells(p, q) ==
  q.activeCall \notin {NoCall, p.activeCall} =>
    \A d \in q.calls : d.id # q.activeCall.id => ToldToHold(q, Len(p.out), d)

(* A method that lists no new call. *)
Moves(p, q) ==
  Sound(q) /\ q.calls \subseteq p.calls /\ Follows(p.out, q.out) /\ Tells(p, q)

LEMMA OutLength ==
  ASSUME NEW p, Sound(p)
  PROVE  p.out \in Seq(Command) /\ Len(p.out) \in Nat
<1>1. p.out \in Seq(Command)
  BY DEF Sound, Phone
<1> QED
  <2> HIDE DEF Command
  <2> QED BY <1>1

LEMMA MovesTransitive ==
  ASSUME NEW p, NEW q, NEW r, Sound(p), Moves(p, q), Moves(q, r)
  PROVE  Moves(p, r)
<1>1. Len(p.out) \in Nat /\ Len(q.out) \in Nat /\ Len(r.out) \in Nat
  BY OutLength DEF Moves
<1>2. Follows(p.out, r.out)
  BY <1>1 DEF Moves, Follows
<1>3. ASSUME NEW d, ToldToHold(q, Len(p.out), d) PROVE ToldToHold(r, Len(p.out), d)
  BY <1>1, <1>3 DEF Moves, Follows, ToldToHold
<1>4. ASSUME NEW d, ToldToHold(r, Len(q.out), d) PROVE ToldToHold(r, Len(p.out), d)
  BY <1>1, <1>4 DEF Moves, Follows, ToldToHold
<1>5. Tells(p, r)
  BY <1>3, <1>4 DEF Moves, Tells
<1> QED BY <1>2, <1>5 DEF Moves

(* A change of other fields, or the loss of the focus, tells nothing. *)
LEMMA FieldMoves ==
  ASSUME NEW p, Sound(p), NEW q, Sound(q), q.out = p.out, q.calls \subseteq p.calls,
         q.activeCall \in {p.activeCall, NoCall}
  PROVE  Moves(p, q)
BY OutLength DEF Moves, Follows, Tells

LEMMA SendMoves ==
  ASSUME NEW p, Sound(p), NEW cmds \in Seq(Command)
  PROVE  /\ Moves(p, Send(p, cmds)) /\ Send(p, cmds).calls = p.calls
         /\ Send(p, cmds).activeCall = p.activeCall
         /\ \A d : (\E k \in 1..Len(cmds) : cmds[k].op = "lpHold"
                                            /\ NativeUuid[d.id] \in cmds[k].to)
                   => ToldToHold(Send(p, cmds), Len(p.out), d)
<1> DEFINE q == Send(p, cmds)
<1>1. Sound(q) /\ q.calls = p.calls /\ q.activeCall = p.activeCall
  BY SendSound DEF OnlySends, SameList
<1>2. q.out = p.out \o cmds
  BY DEF Send, Sound, Phone
<1>3. p.out \in Seq(Command) /\ Len(p.out) \in Nat
  BY OutLength
<1> HIDE DEF q
<1>4. /\ Len(q.out) = Len(p.out) + Len(cmds) /\ Len(cmds) \in Nat
      /\ \A k \in 1..Len(p.out) : q.out[k] = p.out[k]
      /\ \A k \in 1..Len(cmds) : q.out[Len(p.out) + k] = cmds[k]
  <2> HIDE DEF Command
  <2> QED BY <1>2, <1>3
<1>5. Moves(p, q)
  BY <1>1, <1>3, <1>4 DEF Moves, Follows, Tells
<1>6. ASSUME NEW d, NEW k \in 1..Len(cmds),
             cmds[k].op = "lpHold", NativeUuid[d.id] \in cmds[k].to
      PROVE  ToldToHold(q, Len(p.out), d)
  <2>1. Len(p.out) + k \in Len(p.out) + 1 .. Len(q.out)
    BY <1>3, <1>4
  <2> QED BY <1>4, <1>6, <2>1 DEF ToldToHold
<1> QED BY <1>1, <1>5, <1>6 DEF q

LEMMA HoldCallsMoves ==
  ASSUME NEW p, Sound(p), NEW cs \in SUBSET Call
  PROVE  LET q == HoldCalls(p, cs)
         IN  /\ Moves(p, q) /\ q.calls = p.calls /\ q.activeCall = p.activeCall
             /\ \A d \in cs : ToldToHold(q, Len(p.out), d)
<1>1. OwnUuids(cs) \in SUBSET Uuids /\ DataUuids(p, cs) \in SUBSET Uuids
  BY UuidsType
<1> DEFINE a == Cmd("lpHold", DataUuids(p, cs))
           b == Cmd("lpHold", OwnUuids(cs))
           e == Cmd("setHold", DataUuids(p, cs))
           cmds == OnAndroid(<<a>>) \o <<b, e>>
<1>2. a \in Command /\ b \in Command /\ e \in Command
  BY <1>1 DEF Cmd, Command
<1>3. HoldCalls(p, cs) = IF cs = {} THEN p ELSE Send(p, cmds)
  BY DEF HoldCalls
<1>4. b.op = "lpHold" /\ \A d \in cs : NativeUuid[d.id] \in b.to
  BY DEF Cmd, OwnUuids
<1> HIDE DEF a, b, e
<1>5. cmds \in Seq(Command) /\ \E k \in 1..Len(cmds) : cmds[k] = b
  <2> HIDE DEF Command
  <2>1. CASE Android
    <3>1. cmds = <<a>> \o <<b, e>>
      BY <2>1 DEF OnAndroid
    <3> HIDE DEF cmds
    <3>2. <<a>> \in Seq(Command) /\ <<b, e>> \in Seq(Command)
      BY <1>2
    <3>3. cmds \in Seq(Command) /\ Len(cmds) = 3 /\ cmds[2] = b
      BY <3>1, <3>2
    <3> QED BY <3>3
  <2>2. CASE ~Android
    <3>1. cmds = <<b, e>>
      BY <2>2 DEF OnAndroid
    <3> HIDE DEF cmds
    <3>2. <<b, e>> \in Seq(Command) /\ Len(<<b, e>>) = 2 /\ <<b, e>>[1] = b
      BY <1>2
    <3> QED BY <3>1, <3>2
  <2> QED BY <2>1, <2>2
<1> HIDE DEF cmds
<1>6. CASE cs = {}
  BY <1>3, <1>6, FieldMoves
<1>7. CASE cs # {}
  BY <1>3, <1>4, <1>5, <1>7, SendMoves
<1> QED BY <1>6, <1>7

LEMMA OneCommandMoves ==
  ASSUME NEW p, Sound(p), NEW c \in Call,
         NEW o \in {"lpUnmuteCall", "lpAnswer", "lpEndCall", "lpRefer"}
  PROVE  LET q == Send(p, <<Cmd(o, OwnUuids({c}))>>)
         IN  Moves(p, q) /\ q.calls = p.calls /\ q.activeCall = p.activeCall
<1>1. <<Cmd(o, OwnUuids({c}))>> \in Seq(Command)
  BY UuidsType DEF Cmd, Command
<1> QED BY <1>1, SendMoves

LEMMA UnholdCallMoves ==
  ASSUME NEW p, Sound(p), NEW c \in Call
  PROVE  LET q == UnholdCall(p, c)
         IN  Moves(p, q) /\ q.calls = p.calls /\ q.activeCall = p.activeCall
<1>1. OwnUuids({c}) \in SUBSET Uuids /\ DataUuids(p, {c}) \in SUBSET Uuids
  BY UuidsType
<1> DEFINE cmds == OnAndroid(<<Cmd("lpResume", DataUuids(p, {c}))>>)
                   \o <<Cmd("lpResume", OwnUuids({c})), Cmd("setUnhold", DataUuids(p, {c}))>>
<1>2. cmds \in Seq(Command)
  <2>1. /\ <<Cmd("lpResume", DataUuids(p, {c}))>> \in Seq(Command)
        /\ <<Cmd("lpResume", OwnUuids({c})), Cmd("setUnhold", DataUuids(p, {c}))>>
             \in Seq(Command)
    BY <1>1 DEF Cmd, Command
  <2>2. OnAndroid(<<Cmd("lpResume", DataUuids(p, {c}))>>) \in Seq(Command)
    <3>1. <<>> \in Seq(Command)
      OBVIOUS
    <3> QED BY <2>1, <3>1 DEF OnAndroid
  <2> QED BY <2>1, <2>2
<1>3. UnholdCall(p, c) = Send(p, cmds)
  BY DEF UnholdCall
<1> HIDE DEF cmds
<1> QED BY <1>2, <1>3, SendMoves

(* ReportOutgoing sends at most one command, about the call itself. *)
LEMMA ReportOutgoingMoves ==
  ASSUME NEW p, Sound(p), NEW c \in Call
  PROVE  LET q == ReportOutgoing(p, c)
         IN  Moves(p, q) /\ q.calls = p.calls /\ q.activeCall = p.activeCall
<1> DEFINE m == [p EXCEPT !.isReported = @ \cup {c.id}]
           cmds == <<Cmd("reportOutgoingCall", DataUuids(p, {c}))>>
<1>1. Sound(m) /\ m.calls = p.calls /\ m.activeCall = p.activeCall /\ m.out = p.out
  BY DEF Call, Sound, Phone
<1>2. cmds \in Seq(Command)
  BY UuidsType DEF Cmd, Command
<1>3. ReportOutgoing(p, c) = Send(m, cmds) \/ ReportOutgoing(p, c) = p
  BY Zenon DEF ReportOutgoing
<1> HIDE DEF m, cmds
<1>4. Moves(p, m) /\ Moves(p, p)
  BY <1>1, FieldMoves
<1>5. /\ Moves(m, Send(m, cmds)) /\ Send(m, cmds).calls = m.calls
      /\ Send(m, cmds).activeCall = m.activeCall
  BY <1>1, <1>2, SendMoves
<1> QED BY <1>1, <1>3, <1>4, <1>5, MovesTransitive

LEMMA MakeActiveCallMoves ==
  ASSUME NEW p, Sound(p), NEW c \in Call
  PROVE  Moves(p, MakeActiveCall(p, c)) /\ MakeActiveCall(p, c).calls = p.calls
<1> DEFINE a == [p EXCEPT !.activeCall = c]
           q == ReportOutgoing(a, c)
           others == {d \in p.calls : d.id # c.id}
           r == HoldCalls(q, others)
           s == Send(r, <<Cmd("lpUnmuteCall", OwnUuids({c}))>>)
           t == UnholdCall(s, c)
<1>1. Sound(a) /\ a.calls = p.calls /\ a.activeCall = c /\ a.out = p.out
  BY DEF Sound, Phone
<1>2. others \in SUBSET Call
  BY DEF Sound, Phone
<1>3. MakeActiveCall(p, c) = t
  BY DEF MakeActiveCall
<1> HIDE DEF a
<1>4. Moves(a, q) /\ q.calls = a.calls /\ q.activeCall = a.activeCall
  BY <1>1, ReportOutgoingMoves
<1>5. Sound(q)
  BY <1>4 DEF Moves
<1> HIDE DEF q
<1>6. /\ Moves(q, r) /\ r.calls = q.calls /\ r.activeCall = q.activeCall
      /\ \A d \in others : ToldToHold(r, Len(q.out), d)
  <2> HIDE DEF others
  <2> QED BY <1>2, <1>5, HoldCallsMoves
<1>7. Sound(r)
  BY <1>6 DEF Moves
<1> HIDE DEF r
<1>8. Moves(r, s) /\ s.calls = r.calls /\ s.activeCall = r.activeCall
  BY <1>7, OneCommandMoves
<1>9. Sound(s)
  BY <1>8 DEF Moves
<1> HIDE DEF s
<1>10. Moves(s, t) /\ t.calls = s.calls /\ t.activeCall = s.activeCall
  BY <1>9, UnholdCallMoves
<1> HIDE DEF t
<1>11. Moves(r, t)
  BY <1>7, <1>8, <1>10, MovesTransitive
<1>12. /\ Sound(t) /\ t.calls = p.calls /\ t.activeCall = c
       /\ Follows(p.out, q.out) /\ Follows(q.out, r.out) /\ Follows(r.out, t.out)
  BY <1>1, <1>4, <1>6, <1>8, <1>10, <1>11 DEF Moves
<1>13. /\ Len(p.out) \in Nat /\ Len(q.out) \in Nat /\ Len(r.out) \in Nat
       /\ Len(t.out) \in Nat
  BY <1>5, <1>7, <1>12, OutLength
<1>14. \A d \in others : ToldToHold(t, Len(p.out), d)
  BY <1>6, <1>12, <1>13 DEF ToldToHold, Follows
<1>15. Follows(p.out, t.out)
  BY <1>12, <1>13 DEF Follows
<1> QED BY <1>3, <1>12, <1>14, <1>15 DEF Moves, Tells

LEMMA AnswerCallMoves ==
  ASSUME NEW p, Sound(p), NEW c \in Call
  PROVE  Moves(p, AnswerCall(p, c))
<1> DEFINE b == [p EXCEPT !.callIdsAnswered = @ \ {p.uuid[c.id]}]
           q == Send(b, <<Cmd("lpAnswer", OwnUuids({c}))>>)
           m == MakeActiveCall(q, c)
           r == [m EXCEPT !.answerTime = @ \cup {c.id}]
           report == <<Cmd("answerCall", DataUuids(r, {c}))>>
<1>1. /\ Sound(b) /\ b.calls = p.calls /\ b.activeCall = p.activeCall
      /\ b.out = p.out
  BY DEF Sound, Phone
<1>2. AnswerCall(p, c) = IF IsConnected(p, c) THEN p
                         ELSE IF Android THEN r ELSE Send(r, report)
  BY DEF AnswerCall
<1> HIDE DEF b
<1>3. Moves(p, b) /\ Moves(p, p)
  BY <1>1, FieldMoves
<1>4. Moves(b, q)
  BY <1>1, OneCommandMoves
<1>5. Sound(q)
  BY <1>4 DEF Moves
<1> HIDE DEF q
<1>6. Moves(q, m)
  BY <1>5, MakeActiveCallMoves
<1>7. Sound(m)
  BY <1>6 DEF Moves
<1> HIDE DEF m
<1>8. /\ Sound(r) /\ r.calls = m.calls /\ r.activeCall = m.activeCall
      /\ r.out = m.out
  BY <1>7 DEF Sound, Phone, Call
<1> HIDE DEF r
<1>9. Moves(m, r)
  BY <1>7, <1>8, FieldMoves
<1>10. report \in Seq(Command)
  BY <1>8, UuidsType DEF Cmd, Command
<1> HIDE DEF report
<1>11. Moves(r, Send(r, report))
  BY <1>8, <1>10, SendMoves
<1>12. Moves(p, q) /\ Moves(p, m) /\ Moves(p, r)
  BY <1>1, <1>3, <1>4, <1>5, <1>6, <1>7, <1>9, MovesTransitive
<1> QED BY <1>2, <1>3, <1>11, <1>12, MovesTransitive

LEMMA RefocusMoves ==
  ASSUME NEW p, Sound(p), NEW c \in Call, p.calls # {}
  PROVE  Moves(p, Refocus(p, c))
<1> DEFINE new == Oldest(p.calls)
           m == MakeActiveCall(p, new)
           cmds == <<Cmd("lpResume", OwnUuids({new})),
                     Cmd("lpResume", DataUuids(p, {c})),
                     Cmd("setUnhold", DataUuids(p, {c}))>>
           s == Send(m, cmds)
           r == [s EXCEPT !.state[c.n] = "CONFIRMED", !.answerTime = @ \cup {c.id}]
<1>1. new \in Call
  BY OldestIsMember DEF Sound, Phone
<1>2. Refocus(p, c) = r
  BY DEF Refocus
<1> HIDE DEF new
<1>3. cmds \in Seq(Command)
  <2>1. OwnUuids({new}) \in SUBSET Uuids /\ DataUuids(p, {c}) \in SUBSET Uuids
    BY <1>1, UuidsType
  <2> QED BY <2>1 DEF Cmd, Command
<1> HIDE DEF cmds
<1>4. Moves(p, m)
  BY <1>1, MakeActiveCallMoves
<1>5. Sound(m)
  BY <1>4 DEF Moves
<1> HIDE DEF m
<1>6. Moves(m, s)
  BY <1>3, <1>5, SendMoves
<1>7. Sound(s)
  BY <1>6 DEF Moves
<1> HIDE DEF s
<1>8. r.calls = s.calls /\ r.activeCall = s.activeCall /\ r.out = s.out
  BY <1>7 DEF Sound, Phone
<1>9. Sound(r)
  BY <1>2, RefocusSound
<1> HIDE DEF r
<1>10. Moves(s, r)
  BY <1>7, <1>8, <1>9, FieldMoves
<1> QED BY <1>2, <1>4, <1>5, <1>6, <1>7, <1>10, MovesTransitive

LEMMA RemoveCallMoves ==
  ASSUME NEW p, Sound(p), NEW c \in Call
  PROVE  Moves(p, RemoveCall(p, c))
<1> DEFINE e == Send(p, EndCommands(p, c))
           q == Unlist(e, c)
           r == IF q.calls = {} THEN q ELSE Refocus(q, c)
           t == [r EXCEPT !.assistedTransferInit = FALSE]
<1>1. RemoveCall(p, c) = t
  BY DEF RemoveCall
<1>2. EndCommands(p, c) \in Seq(Command)
  <2>1. DataUuids(p, {c}) \in SUBSET Uuids
    BY UuidsType
  <2>2. /\ <<Cmd("lpEndCall", DataUuids(p, {c}))>> \in Seq(Command)
        /\ <<Cmd("lpEndCall", DataUuids(p, {c})), Cmd("endCall", DataUuids(p, {c}))>>
             \in Seq(Command)
    BY <2>1 DEF Cmd, Command
  <2> QED BY <2>2 DEF EndCommands
<1>3. Moves(p, e)
  BY <1>2, SendMoves
<1>4. Sound(e)
  BY <1>3 DEF Moves
<1> HIDE DEF e
<1>5. Sound(q) /\ q.calls \subseteq e.calls /\ q.activeCall \in {e.activeCall, NoCall}
  BY <1>4, UnlistSound DEF Without
<1>6. q.out = e.out
  BY <1>4 DEF Unlist, Sound, Phone
<1> HIDE DEF q
<1>7. Moves(e, q) /\ Moves(q, q)
  BY <1>4, <1>5, <1>6, FieldMoves
<1>8. Moves(q, r)
  BY <1>5, <1>7, RefocusMoves
<1>9. Sound(r)
  BY <1>8 DEF Moves
<1> HIDE DEF r
<1>10. Sound(t) /\ t.calls = r.calls /\ t.activeCall = r.activeCall /\ t.out = r.out
  BY <1>9 DEF Sound, Phone
<1> HIDE DEF t
<1>11. Moves(r, t)
  BY <1>9, <1>10, FieldMoves
<1> QED BY <1>1, <1>3, <1>4, <1>5, <1>7, <1>8, <1>9, <1>11, MovesTransitive

LEMMA HangUpMoves ==
  ASSUME NEW p, Sound(p), NEW c \in Call
  PROVE  Moves(p, HangUp(p, c)) /\ Moves(p, Transfer(p, c))
<1>1. ASSUME NEW o \in {"lpEndCall", "lpRefer"}
      PROVE  Moves(p, RemoveCall(Send(p, <<Cmd(o, OwnUuids({c}))>>), c))
  <2> DEFINE q == Send(p, <<Cmd(o, OwnUuids({c}))>>)
  <2>1. Moves(p, q)
    BY OneCommandMoves
  <2>2. Sound(q)
    BY <2>1 DEF Moves
  <2> HIDE DEF q
  <2>3. Moves(p, RemoveCall(q, c))
    BY <2>1, <2>2, RemoveCallMoves, MovesTransitive
  <2> QED BY <2>3 DEF q
<1> QED BY <1>1 DEF HangUp, Transfer

LEMMA CompleteAssistedTransferMoves ==
  ASSUME NEW p, Sound(p), NEW a \in Call, NEW b \in Call
  PROVE  Moves(p, CompleteAssistedTransfer(p, a, b))
<1> DEFINE i == [p EXCEPT !.assistedTransferInit = FALSE]
           q == Send(i, <<Cmd("lpAssistedTransfer", DataUuids(p, {a, b}))>>)
           r == RemoveCall(q, a)
<1>1. Sound(i) /\ i.calls = p.calls /\ i.activeCall = p.activeCall /\ i.out = p.out
  BY DEF Sound, Phone
<1>2. <<Cmd("lpAssistedTransfer", DataUuids(p, {a, b}))>> \in Seq(Command)
  BY UuidsType DEF Cmd, Command
<1>3. CompleteAssistedTransfer(p, a, b) = RemoveCall(r, b)
  BY DEF CompleteAssistedTransfer
<1> HIDE DEF i
<1>4. Moves(p, i)
  BY <1>1, FieldMoves
<1>5. Moves(i, q)
  BY <1>1, <1>2, SendMoves
<1>6. Sound(q)
  BY <1>5 DEF Moves
<1> HIDE DEF q
<1>7. Moves(q, r)
  BY <1>6, RemoveCallMoves
<1>8. Sound(r)
  BY <1>7 DEF Moves
<1> HIDE DEF r
<1>9. Moves(r, RemoveCall(r, b))
  BY <1>8, RemoveCallMoves
<1> QED BY <1>1, <1>3, <1>4, <1>5, <1>6, <1>7, <1>8, <1>9, MovesTransitive

LEMMA SetLpCallStateMoves ==
  ASSUME NEW p, Sound(p), NEW c \in Call, NEW s \in CallState
  PROVE  Moves(p, SetLpCallState(p, c, s))
<1> DEFINE st == [p.state EXCEPT ![c.n] = s]
           q == [p EXCEPT !.state = st]
           confirmed == [q EXCEPT !.answerTime = @ \cup {c.id}]
           report == <<Cmd("reportConnectedOutgoingCall", DataUuids(q, {c}))>>
<1>1. SetLpCallState(p, c, s) \in {RemoveCall(q, c), confirmed, Send(q, report), q}
  BY DEF SetLpCallState, Sound, Phone
<1>2. st \in [1..MaxObjects -> CallState]
  BY DEF Sound, Phone, Call
<1> HIDE DEF st
<1>3. Sound(q) /\ q.calls = p.calls /\ q.activeCall = p.activeCall /\ q.out = p.out
  BY <1>2 DEF Sound, Phone
<1> HIDE DEF q
<1>4. /\ Sound(confirmed) /\ confirmed.calls = q.calls
      /\ confirmed.activeCall = q.activeCall /\ confirmed.out = q.out
  BY <1>3 DEF Sound, Phone, Call
<1>5. report \in Seq(Command)
  BY <1>3, UuidsType DEF Cmd, Command
<1> HIDE DEF confirmed, report
<1>6. Moves(p, q) /\ Moves(q, confirmed)
  BY <1>3, <1>4, FieldMoves
<1>7. Moves(q, Send(q, report)) /\ Moves(q, RemoveCall(q, c))
  BY <1>3, <1>5, SendMoves, RemoveCallMoves
<1> QED BY <1>1, <1>3, <1>6, <1>7, MovesTransitive

-----------------------------------------------------------------------------
(* An announcement lists the call before it moves the focus.               *)
LEMMA ListedThenMoves ==
  ASSUME NEW p, Sound(p), NEW l, Sound(l), l.out = p.out, l.activeCall = p.activeCall,
         NEW q, Moves(l, q)
  PROVE  Follows(p.out, q.out) /\ Tells(p, q)
BY DEF Moves, Tells

LEMMA AddCallTells ==
  ASSUME NEW p, Sound(p), NEW c \in Call
  PROVE  \E l : /\ Sound(l) /\ l.out = p.out /\ l.activeCall = p.activeCall
                /\ Moves(l, AddCall(p, c))
<1> DEFINE k == [p EXCEPT !.calls = @ \cup {c}]
           l == IF IsListed(p, c.id) THEN p ELSE k
           r == IF IsListed(p, c.id) THEN p
                ELSE IF p.activeCall = NoCall \/ c.direction = "OUTGOING"
                     THEN MakeActiveCall(k, c) ELSE k
<1>1. AddCall(p, c) = IF r.uuid[c.id] \in r.callIdsAnswered THEN AnswerCall(r, c) ELSE r
  BY DEF AddCall
<1>2. r = l \/ r = MakeActiveCall(l, c)
  OBVIOUS
<1>3. IsFiniteSet(p.calls \cup {c})
  BY FS_AddElement DEF Sound
<1>4. Sound(k) /\ k.activeCall = p.activeCall /\ k.out = p.out
  BY <1>3 DEF Sound, Phone
<1> HIDE DEF k
<1>5. Sound(l) /\ l.activeCall = p.activeCall /\ l.out = p.out
  BY <1>4
<1> HIDE DEF l, r
<1>6. Moves(l, r)
  BY <1>2, <1>5, FieldMoves, MakeActiveCallMoves
<1>7. Sound(r)
  BY <1>6 DEF Moves
<1>8. Moves(r, AnswerCall(r, c))
  BY <1>7, AnswerCallMoves
<1>9. Moves(l, AnswerCall(r, c))
  BY <1>5, <1>6, <1>8, MovesTransitive
<1> QED BY <1>1, <1>5, <1>6, <1>9

LEMMA KeepMoves ==
  ASSUME NEW p, Sound(p), NEW c \in Call
  PROVE  Moves(p, Keep(p, c))
<1> DEFINE k == Keep(p, c)
<1>1. Sound(k) /\ k.calls = p.calls /\ k.activeCall = p.activeCall
  BY KeepSound
<1>2. k.out = p.out
  BY DEF Keep, Sound, Phone
<1> HIDE DEF k
<1>3. Moves(p, k)
  BY <1>1, <1>2, FieldMoves
<1> QED BY <1>3 DEF k

LEMMA LinkSame ==
  ASSUME NEW p, Sound(p), NEW i \in Ids, NEW u \in Uuids
  PROVE  LET q == LinkLnCallWithUuid(p, i, u)
         IN  Sound(q) /\ q.out = p.out /\ q.activeCall = p.activeCall
<1>1. LinkLnCallWithUuid(p, i, u).out = p.out
  BY DEF LinkLnCallWithUuid, Sound, Phone
<1> QED BY <1>1, LinkSound

LEMMA AddTells ==
  ASSUME NEW p, Sound(p), p.created < MaxObjects, NEW i \in Ids, NEW u \in Uuids,
         NEW dir \in {"INCOMING", "OUTGOING"}
  PROVE  LET c == NewCall(p, i, dir)
             a == AddCall(LinkLnCallWithUuid(p, i, u), c)
         IN  /\ Follows(p.out, Keep(a, c).out) /\ Tells(p, Keep(a, c))
             /\ Follows(p.out, Keep(AnswerCall(a, c), c).out)
             /\ Tells(p, Keep(AnswerCall(a, c), c))
<1> DEFINE c == NewCall(p, i, dir)
           k == LinkLnCallWithUuid(p, i, u)
           a == AddCall(k, c)
<1>1. c \in Call
  BY NewCallFresh DEF Fresh
<1> HIDE DEF c
<1>2. Sound(k) /\ k.out = p.out /\ k.activeCall = p.activeCall
  BY LinkSame
<1> HIDE DEF k
<1>3. PICK l : Sound(l) /\ l.out = k.out /\ l.activeCall = k.activeCall /\ Moves(l, a)
  BY <1>1, <1>2, AddCallTells
<1>4. Sound(a)
  BY <1>3 DEF Moves
<1> HIDE DEF a
<1>5. Moves(a, AnswerCall(a, c))
  BY <1>1, <1>4, AnswerCallMoves
<1>6. Sound(AnswerCall(a, c))
  BY <1>5 DEF Moves
<1>7. Moves(l, Keep(a, c)) /\ Moves(l, Keep(AnswerCall(a, c), c))
  BY <1>1, <1>3, <1>4, <1>5, <1>6, KeepMoves, MovesTransitive
<1>8. /\ Follows(p.out, Keep(a, c).out) /\ Tells(p, Keep(a, c))
      /\ Follows(p.out, Keep(AnswerCall(a, c), c).out)
      /\ Tells(p, Keep(AnswerCall(a, c), c))
  BY <1>2, <1>3, <1>7, ListedThenMoves
<1> QED BY <1>8 DEF a, c, k

LEMMA AnsweredWhileOnCallTells ==
  ASSUME NEW p, Sound(p), p.created < MaxObjects, NEW i \in Ids, NEW u \in Uuids
  PROVE  Tells(p, AnsweredWhileOnCall(p, i, u))
<1> DEFINE c == NewCall(p, i, "INCOMING")
           k == LinkLnCallWithUuid(p, i, u)
           q == [k EXCEPT !.calls = @ \cup {c}]
           r == IF q.activeCall = NoCall THEN MakeActiveCall(q, c) ELSE q
           t == [r EXCEPT !.answerTime = @ \cup {i}]
           cmds == <<Cmd("lpHold", OwnUuids({c}))>>
           s == Send(t, cmds)
<1>1. c \in Call
  BY NewCallFresh DEF Fresh
<1>2. cmds \in Seq(Command)
  <2> HIDE DEF c
  <2> QED BY <1>1, UuidsType DEF Cmd, Command
<1>3. AnsweredWhileOnCall(p, i, u) = IF Android THEN Keep(s, c) ELSE p
  BY DEF AnsweredWhileOnCall
<1> HIDE DEF c, cmds
<1>4. Sound(k) /\ k.out = p.out /\ k.activeCall = p.activeCall
  BY LinkSame
<1> HIDE DEF k
<1>5. Sound(q) /\ q.out = p.out /\ q.activeCall = p.activeCall
  <2>1. IsFiniteSet(k.calls \cup {c})
    BY <1>4, FS_AddElement DEF Sound
  <2> QED BY <1>1, <1>4, <2>1 DEF Sound, Phone
<1> HIDE DEF q
<1>6. Moves(q, r)
  BY <1>1, <1>5, MakeActiveCallMoves, FieldMoves
<1>7. Sound(r)
  BY <1>6 DEF Moves
<1> HIDE DEF r
<1>8. Sound(t) /\ t.calls = r.calls /\ t.activeCall = r.activeCall /\ t.out = r.out
  BY <1>7 DEF Sound, Phone
<1> HIDE DEF t
<1>9. Moves(r, t)
  BY <1>7, <1>8, FieldMoves
<1>10. Moves(t, s)
  BY <1>2, <1>8, SendMoves
<1>11. Sound(s)
  BY <1>10 DEF Moves
<1> HIDE DEF s
<1>12. Moves(s, Keep(s, c))
  BY <1>1, <1>11, KeepMoves
<1>13. Moves(q, Keep(s, c))
  BY <1>5, <1>6, <1>7, <1>8, <1>9, <1>10, <1>11, <1>12, MovesTransitive
<1>14. Tells(p, Keep(s, c))
  BY <1>5, <1>13, ListedThenMoves
<1>15. Tells(p, p)
  BY DEF Tells
<1> QED BY <1>3, <1>14, <1>15

LEMMA AnswerButtonMoves ==
  ASSUME NEW p, Sound(p), NEW u \in Uuids
  PROVE  Moves(p, AnswerButtonPressed(p, u))
<1> DEFINE q == [p EXCEPT !.callIdsAnswered = @ \cup {u}]
           a == q.activeCall
           us == [q.uuid EXCEPT ![a.id] = u]
           adopted == [q EXCEPT !.uuid = us]
           r == IF /\ CallByUuid(q, u) = NoCall
                   /\ a # NoCall
                   /\ q.state[a.n] = "PROGRESS"
                THEN adopted ELSE q
           c == CallByUuid(r, u)
<1>1. Sound(q) /\ q.calls = p.calls /\ q.activeCall = p.activeCall /\ q.out = p.out
  BY DEF Sound, Phone
<1>2. AnswerButtonPressed(p, u) = IF c = NoCall THEN r ELSE AnswerCall(r, c)
  BY DEF AnswerButtonPressed, Sound, Phone
<1> HIDE DEF q
<1>3. us \in [Ids -> Uuids \cup {NoUuid}]
  BY <1>1 DEF Sound, Phone
<1> HIDE DEF us
<1>4. /\ Sound(adopted) /\ adopted.calls = q.calls
      /\ adopted.activeCall = q.activeCall /\ adopted.out = q.out
  BY <1>1, <1>3 DEF Sound, Phone
<1> HIDE DEF adopted
<1>5. Sound(r) /\ r.calls = p.calls /\ r.activeCall = p.activeCall /\ r.out = p.out
  BY <1>1, <1>4
<1> HIDE DEF r
<1>6. c # NoCall => c \in Call
  BY <1>5, LookupFindsListed DEF Sound, Phone
<1> HIDE DEF c
<1>7. Moves(p, r)
  BY <1>5, FieldMoves
<1>8. c # NoCall => Moves(r, AnswerCall(r, c))
  BY <1>5, <1>6, AnswerCallMoves
<1> QED BY <1>2, <1>5, <1>7, <1>8, MovesTransitive

(* With native code to take them, commands stay until it does.             *)
LEMMA NextTells ==
  ASSUME MaxPending # 0, Sound(phone), [Next]_vars
  PROVE  Tells(phone, phone')
<1> DEFINE a == phone.activeCall
<1>1. ASSUME NEW q, Do(q) PROVE phone' = q
  BY <1>1 DEF Do
<1>2. /\ \A q : Moves(phone, q) /\ Do(q) => Tells(phone, phone')
      /\ \A q : Tells(phone, q) /\ Do(q) => Tells(phone, phone')
  BY <1>1 DEF Moves
<1>3. \A q : OnlySends(phone, q) => Tells(phone, q)
  BY DEF OnlySends, Tells
<1>4. a # NoCall => a \in Call
  BY DEF Sound, Phone
<1>5. \A u \in Uuids : CallByUuid(phone, u) # NoCall => CallByUuid(phone, u) \in Call
  BY LookupFindsListed DEF Sound, Phone
<1>6. \A c \in IncomingPopup \cup ConnectedRows : c \in Call
  BY DEF IncomingPopup, Waiting, ConnectedRows, Sound, Phone
<1>7. ASSUME NEW i \in Ids, CallAnnounced(i) PROVE Tells(phone, phone')
  <2>1. NativeUuid[i] \in Uuids /\ phone.created < MaxObjects
    BY <1>7, SoftphoneAssumption DEF CallAnnounced, Announce
  <2>2. ASSUME NEW q, Announce(i, q), Tells(phone, q) PROVE Tells(phone, phone')
    BY <1>2, <2>2 DEF Announce
  <2>3. Tells(phone, phone)
    BY DEF Tells
  <2>4. /\ Tells(phone, OutgoingInit(phone, i, NativeUuid[i]))
        /\ Tells(phone, IncomingReceived(phone, i, NativeUuid[i]))
        /\ Tells(phone, AnsweredFromNotification(phone, i, NativeUuid[i]))
        /\ Tells(phone, AnsweredWhileOnCall(phone, i, NativeUuid[i]))
    BY <2>1, <2>3, AddTells, AnsweredWhileOnCallTells
       DEF OutgoingInit, IncomingReceived, AnsweredFromNotification
  <2> QED BY <1>7, <2>2, <2>4 DEF CallAnnounced
<1>8. ASSUME NEW u \in Uuids, NEW s \in CallState, LinphoneState(u, s)
      PROVE  Tells(phone, phone')
  BY <1>2, <1>5, <1>8, SetLpCallStateMoves DEF LinphoneState
<1>9. ASSUME NEW u \in Uuids, CallKitButton(u) PROVE Tells(phone, phone')
  <2> DEFINE c == CallByUuid(phone, u)
  <2>1. ASSUME NEW b \in BOOLEAN, c # NoCall,
               Do(SetHold(phone, c, b, FALSE)) \/ Do(SetMute(phone, c, b, FALSE))
        PROVE  Tells(phone, phone')
    BY <1>2, <1>3, <1>5, <2>1, SetHoldSound, SetMuteSound
  <2> QED BY <1>2, <1>5, <1>9, <2>1, AnswerButtonMoves, HangUpMoves DEF CallKitButton
<1>10. CASE TapAnswer \/ TapHangUp \/ TapRow \/ TapTransfer
  BY <1>2, <1>4, <1>6, <1>10, AnswerCallMoves, HangUpMoves, MakeActiveCallMoves
     DEF TapAnswer, TapHangUp, TapRow, TapTransfer, ActiveConnected
<1>11. CASE TapHold \/ TapMute
  <2>1. ASSUME NEW b \in BOOLEAN, a # NoCall,
               Do(SetHold(phone, a, b, TRUE)) \/ Do(SetMute(phone, a, b, TRUE))
        PROVE  Tells(phone, phone')
    BY <1>2, <1>3, <1>4, <2>1, SetHoldSound, SetMuteSound
  <2> QED BY <1>11, <2>1 DEF TapHold, TapMute, ActiveConnected
<1>12. CASE TapCompleteTransfer
  BY <1>2, <1>4, <1>6, <1>12, CompleteAssistedTransferMoves DEF TapCompleteTransfer
<1>13. CASE Dial \/ AssistedTransfer \/ \E i \in Ids : SaveDisposition(i)
  <2>1. phone'.activeCall = phone.activeCall
    BY <1>1, <1>13 DEF Dial, AssistedTransfer, SaveDisposition, Send, Sound, Phone
  <2> QED BY <2>1 DEF Tells
<1>14. CASE UNCHANGED vars
  BY <1>14 DEF vars, Tells
<1> QED BY <1>7, <1>8, <1>9, <1>10, <1>11, <1>12, <1>13, <1>14 DEF Next, User

(* Where native code takes the commands, whenever the focus moves to       *)
(* another call, every other listed call is told to hold in the same step  *)
(* (softphone.dart 883-917).                                               *)
THEOREM SoftphoneHoldsOthers ==
  ASSUME MaxPending # 0
  PROVE  Spec => FocusHoldsTheOthers
<1> DEFINE I == Sound(phone)
<1>1. Init => I
  BY InitSound
<1>2. I /\ [Next]_vars => I'
  BY NextHandled DEF Handled, Ended, Kept, Removed, Announced
<1>3. I /\ [Next]_vars => Tells(phone, phone')
  BY NextTells
<1>4. Tells(phone, phone') =>
        (phone'.activeCall \notin {NoCall, phone.activeCall} =>
           \A d \in phone'.calls : d.id # phone'.activeCall.id =>
             \E k \in Len(phone.out) + 1 .. Len(phone'.out) :
               phone'.out[k].op = "lpHold" /\ NativeUuid[d.id] \in phone'.out[k].to)
  BY DEF Tells, ToldToHold
<1> QED BY <1>1, <1>2, <1>3, <1>4, PTL DEF Spec, FocusHoldsTheOthers

-----------------------------------------------------------------------------
(* The states of calls.  The objects Softphone refers to are numbered      *)
(* apart, so an event or a tap that is about one object leaves the state   *)
(* of every other one that stays alone.                                    *)
Numbered(p) ==
  /\ \A c, d \in Known(p) : c.n = d.n => c = d
  /\ \A c \in Known(p) : c.n <= p.created
  /\ \A n \in 1..MaxObjects : n > p.created => p.state[n] = "NONE"

KeepsStates(p, q) ==
  /\ Sound(q) /\ Numbered(q) /\ q.calls \subseteq p.calls
  /\ \A d \in q.calls : q.state[d.n] = p.state[d.n]

LEMMA InitNumbered == Numbered(InitPhone)
BY DEF Numbered, Known, InitPhone

LEMMA RemovedNumbered ==
  ASSUME NEW p, Sound(p), Numbered(p), NEW c \in Known(p), NEW q, Removed(p, c, q)
  PROVE  KeepsStates(p, q)
<1>1. /\ q.calls = {d \in p.calls : d.id # c.id} /\ q.created = p.created /\ Sound(q)
      /\ \A n \in 1..MaxObjects \ {c.n} : q.state[n] = p.state[n]
      /\ q.activeCall \in q.calls \cup {NoCall, p.activeCall}
  BY DEF Removed, Without
<1>2. Known(q) \subseteq Known(p) /\ q.calls \subseteq Known(p) /\ Known(p) \subseteq Call
  BY <1>1, KnownIsCall DEF Known
<1>3. ASSUME NEW d \in q.calls PROVE q.state[d.n] = p.state[d.n]
  <2>1. d # c /\ d \in Known(p) /\ d.n \in 1..MaxObjects
    BY <1>1, <1>2 DEF Call
  <2>2. d.n # c.n
    BY <2>1 DEF Numbered
  <2> QED BY <1>1, <2>1, <2>2
<1>4. c.n \in 1..MaxObjects /\ c.n <= p.created /\ p.created \in Nat
  BY <1>2 DEF Numbered, Call, Sound, Phone
<1>5. ASSUME NEW n \in 1..MaxObjects, n > q.created PROVE q.state[n] = "NONE"
  <2>1. n # c.n
    BY <1>1, <1>4, <1>5
  <2> QED BY <1>1, <1>5, <2>1 DEF Numbered
<1> QED BY <1>1, <1>2, <1>3, <1>5 DEF KeepsStates, Numbered

LEMMA KeepsStatesTransitive ==
  ASSUME NEW p, NEW q, NEW r, KeepsStates(p, q), KeepsStates(q, r)
  PROVE  KeepsStates(p, r)
BY DEF KeepsStates

LEMMA ActedNumbered ==
  ASSUME NEW p, Sound(p), Numbered(p), NEW q, Acted(p, q)
  PROVE  KeepsStates(p, q)
<1>1. ASSUME Kept(p, q), q.state = p.state PROVE KeepsStates(p, q)
  <2>1. /\ Sound(q) /\ q.calls = p.calls /\ q.created = p.created
        /\ q.activeCall \in Known(p) \cup {NoCall, p.activeCall}
    BY <1>1 DEF Kept, Rested, Attended, Saved, SameList
  <2>2. Known(q) \subseteq Known(p)
    BY <2>1 DEF Known
  <2> QED BY <1>1, <2>1, <2>2 DEF KeepsStates, Numbered
<1>2. ASSUME NEW a \in Known(p), NEW b \in p.calls, NEW r,
             a.id # b.id, Removed(p, a, r), Removed(r, b, q)
      PROVE  KeepsStates(p, q)
  <2>1. KeepsStates(p, r)
    BY <1>2, RemovedNumbered
  <2>2. b \in Known(r)
    BY <1>2 DEF Removed, Without, Known
  <2>3. KeepsStates(r, q)
    BY <1>2, <2>1, <2>2, RemovedNumbered DEF KeepsStates
  <2> QED BY <2>1, <2>3, KeepsStatesTransitive
<1> QED BY <1>1, <1>2, RemovedNumbered DEF Acted, Ended

(* An event sets the state of its call and of no other.                    *)
LEMMA ToldNumbered ==
  ASSUME NEW p, Sound(p), Numbered(p), NEW c \in p.calls, NEW s \in CallState
  PROVE  LET q == SetLpCallState(p, c, s)
         IN  /\ Sound(q) /\ Numbered(q) /\ q.calls \subseteq p.calls
             /\ \A d \in q.calls : q.state[d.n] = IF d = c THEN s ELSE p.state[d.n]
             /\ s = "ENDED" => ~IsListed(q, c.id)
<1> DEFINE q == SetLpCallState(p, c, s)
<1>1. c \in Known(p) /\ c \in Call /\ Known(p) \subseteq Call
  BY KnownIsCall DEF Known
<1>2. IF s = "ENDED" THEN Removed(p, c, q)
      ELSE /\ Sound(q) /\ SameList(p, q) /\ q.activeCall = p.activeCall
           /\ q.state = [p.state EXCEPT ![c.n] = s]
  BY <1>1, SetLpCallStateSound
<1> HIDE DEF q
<1>3. CASE s = "ENDED"
  <2>1. KeepsStates(p, q)
    BY <1>1, <1>2, <1>3, RemovedNumbered
  <2>2. \A d \in q.calls : d.id # c.id
    BY <1>2, <1>3 DEF Removed, Without
  <2> QED BY <2>1, <2>2 DEF KeepsStates, IsListed, q
<1>4. CASE s # "ENDED"
  <2>1. /\ Sound(q) /\ q.calls = p.calls /\ q.created = p.created /\ Known(q) = Known(p)
        /\ q.state = [p.state EXCEPT ![c.n] = s]
    BY <1>2, <1>4 DEF SameList, Known
  <2>2. /\ p.state \in [1..MaxObjects -> CallState] /\ c.n \in 1..MaxObjects
        /\ c.n <= p.created /\ p.created \in Nat
    BY <1>1 DEF Sound, Phone, Numbered, Call
  <2>3. ASSUME NEW d \in q.calls PROVE q.state[d.n] = IF d = c THEN s ELSE p.state[d.n]
    <3>1. d \in Known(p) /\ d.n \in 1..MaxObjects
      BY <1>1, <2>1 DEF Known, Call
    <3>2. d # c => d.n # c.n
      BY <1>1, <3>1 DEF Numbered
    <3> QED BY <2>1, <2>2, <3>1, <3>2
  <2>4. ASSUME NEW n \in 1..MaxObjects, n > q.created PROVE q.state[n] = "NONE"
    <3>1. n # c.n
      BY <2>1, <2>2, <2>4
    <3> QED BY <2>1, <2>2, <2>4, <3>1 DEF Numbered
  <2>5. Numbered(q)
    BY <2>1, <2>4 DEF Numbered
  <2> QED BY <1>4, <2>1, <2>3, <2>5 DEF q
<1> QED BY <1>3, <1>4

(* An announced call is shown in no state yet.                             *)
LEMMA AnnouncedNumbered ==
  ASSUME NEW p, Sound(p), Numbered(p), NEW i \in Ids, NEW q, Announced(p, i, q)
  PROVE  /\ Sound(q) /\ Numbered(q) /\ q.state = p.state
         /\ \A d \in q.calls : d \in p.calls \/ (d.id = i /\ q.state[d.n] = "NONE")
<1>1. Sound(q) /\ q.state = p.state
  BY DEF Announced
<1>2. PICK c \in Call :
        /\ c.id = i /\ c.n = p.created + 1
        /\ q.activeCall = p.activeCall \/ (q.activeCall = c /\ q.created = c.n)
        /\ \/ q.calls = p.calls /\ q.created \in {p.created, c.n}
           \/ q.calls = p.calls \cup {c} /\ q.created = c.n
  BY DEF Announced
<1>3. /\ Known(q) \subseteq Known(p) \cup {c} /\ (c \in Known(q) => c \in Known(p) \/ q.created = c.n)
      /\ q.created \in {p.created, c.n} /\ Known(p) \subseteq Call
  BY <1>2, KnownIsCall DEF Known
<1>4. /\ p.created \in Nat /\ c.n \in 1..MaxObjects /\ c.n > p.created /\ p.created < c.n
      /\ \A d \in Known(p) : d.n \in Nat /\ d.n <= p.created /\ d.n # c.n /\ d.n <= c.n
  <2>1. p.created \in Nat /\ c.n \in 1..MaxObjects /\ \A d \in Known(p) : d.n \in Nat
    BY <1>3 DEF Sound, Phone, Call
  <2> QED BY <1>2, <2>1 DEF Numbered
<1>5. c \notin Known(p)
  BY <1>4
<1>6. Numbered(q)
  <2>1. \A a, b \in Known(q) : a.n = b.n => a = b
    BY <1>3, <1>4 DEF Numbered
  <2>2. \A d \in Known(q) : d.n <= q.created
    BY <1>3, <1>4, <1>5
  <2>3. \A n \in 1..MaxObjects : n > q.created => q.state[n] = "NONE"
    BY <1>1, <1>3, <1>4 DEF Numbered
  <2> QED BY <2>1, <2>2, <2>3 DEF Numbered
<1>7. q.state[c.n] = "NONE"
  BY <1>1, <1>4 DEF Numbered
<1> QED BY <1>1, <1>2, <1>6, <1>7

(* A call announced again by native code is not listed again.              *)
LEMMA AnnouncedAgain ==
  ASSUME NEW p, Sound(p), p.created < MaxObjects, NEW i \in Ids, NEW u \in Uuids,
         IsListed(p, i)
  PROVE  OutgoingInit(p, i, u).calls = p.calls /\ IncomingReceived(p, i, u).calls = p.calls
BY AddAnnounced DEF OutgoingInit, IncomingReceived

(* So it stays listed once.                                                *)
LEMMA AnnouncedOnceListed ==
  ASSUME NEW p, NEW i \in Ids, NEW q, OneObject(p), Announced(p, i, q),
         IsListed(p, i) => q.calls = p.calls
  PROVE  OneObject(q)
<1>1. PICK c \in Call : c.id = i /\ (q.calls = p.calls \/ q.calls = p.calls \cup {c})
  BY DEF Announced
<1> QED BY <1>1 DEF OneObject, IsListed

=============================================================================
