---------------------------- MODULE IosCalls_proofs ----------------------------
(***************************************************************************)
(* Proofs about IosCalls for every set of calls and of pushes and any      *)
(* number of messages on their way: no call goes on unseen, and the        *)
(* Softphone object is the one of Softphone_proofs.  As on Android a       *)
(* method accounts for the calls it takes off the list; but here the       *)
(* answer of the system's screen may give a call another's uuid, so the    *)
(* account is one of the uuid it has.  Further on: a listed call is shown  *)
(* as it is, and the answer of the system's screen is never lost.          *)
(***************************************************************************)
EXTENDS IosCalls, TLAPS, SequenceTheorems, FiniteSetTheorems, LeastElements

(* What the methods need of a Softphone object; the other fields may hold  *)
(* anything.  A listed call has been linked to some uuid.                  *)
Linked(p) ==
  /\ DOMAIN p = DOMAIN S!InitPhone
  /\ p.calls \in SUBSET S!Call /\ p.activeCall \in S!Call \cup {NoCall}
  /\ p.created \in Nat
  /\ p.uuid \in [Ids -> Uuids \cup {NoUuid}]
  /\ p.keys \in Seq(Ids)
  /\ \A c \in p.calls : p.uuid[c.id] # NoUuid
  /\ p.out \in Seq(S!Command)

Grows(s, t) == Len(s) <= Len(t) /\ \A k \in 1..Len(s) : t[k] = s[k]

EndIn(out, i) == \E k \in 1..Len(out) : out[k].op = "lpEndCall" /\ i \in out[k].to

LEMMA ObjectsAreFinite == MaxObjects \in Nat /\ IsFiniteSet(Ids) /\ IsFiniteSet(1..MaxObjects)
<1>1. IsFiniteSet(Ids)
  BY IosCallsAssumption, FS_Subset DEF Uuids
<1>2. MaxObjects \in Nat
  BY <1>1, IosCallsAssumption, FS_CardinalityType
<1> QED BY <1>1, <1>2, FS_Interval

(* Call i may be off the list: its end is sent, or it has not its uuid.    *)
Accounted(p, i) == S!IsListed(p, i) \/ EndIn(p.out, i) \/ p.uuid[i] \notin {i, NoUuid}

(* What leaves the list is told to end by the uuid it has, and the uuid of *)
(* what is not listed stays.                                               *)
Accounts(p, q) ==
  /\ Linked(q) /\ Grows(p.out, q.out)
  /\ \A i \in Ids : Accounted(q, i) \/ (~S!IsListed(p, i) /\ q.uuid[i] = p.uuid[i])

(* What most methods do: nothing to the list. *)
Rests(p, q) ==
  /\ Linked(q) /\ Grows(p.out, q.out) /\ q.calls = p.calls /\ q.uuid = p.uuid
  /\ q.keys = p.keys

-----------------------------------------------------------------------------
LEMMA GrowsTransitive ==
  ASSUME NEW T, NEW s \in Seq(T), NEW t \in Seq(T), NEW u \in Seq(T), Grows(s, t), Grows(t, u)
  PROVE  Grows(s, u)
<1>1. Len(s) \in Nat /\ Len(t) \in Nat /\ Len(u) \in Nat
  BY LenProperties
<1> QED BY <1>1 DEF Grows

LEMMA GrowsKeepsEnd ==
  ASSUME NEW T, NEW s \in Seq(T), NEW t \in Seq(T), Grows(s, t), NEW i, EndIn(s, i)
  PROVE  EndIn(t, i)
<1>1. Len(s) \in Nat /\ Len(t) \in Nat
  BY LenProperties
<1> QED BY <1>1 DEF Grows, EndIn

LEMMA ConcatGrows ==
  ASSUME NEW T, NEW s \in Seq(T), NEW t \in Seq(T)
  PROVE  /\ s \o t \in Seq(T) /\ Grows(s, s \o t)
         /\ \A k \in 1..Len(t) : Len(s) + k \in 1..Len(s \o t) /\ (s \o t)[Len(s) + k] = t[k]
<1>1. Len(s) \in Nat /\ Len(t) \in Nat
  BY LenProperties
<1>2. /\ s \o t \in Seq(T) /\ Len(s \o t) = Len(s) + Len(t)
      /\ \A k \in 1..Len(s) + Len(t) :
           (s \o t)[k] = IF k <= Len(s) THEN s[k] ELSE t[k - Len(s)]
  BY ConcatProperties
<1> HIDE DEF Grows
<1>3. ASSUME NEW k \in 1..Len(t)
      PROVE  Len(s) + k \in 1..Len(s \o t) /\ (s \o t)[Len(s) + k] = t[k]
  <2>1. Len(s) + k \in 1..Len(s) + Len(t) /\ ~(Len(s) + k <= Len(s)) /\ Len(s) + k - Len(s) = k
    BY <1>1
  <2> QED BY <1>2, <2>1
<1>4. Grows(s, s \o t)
  BY <1>1, <1>2 DEF Grows
<1> QED BY <1>2, <1>3, <1>4

LEMMA RestsAccounts ==
  ASSUME NEW p, NEW q, Rests(p, q)
  PROVE  Accounts(p, q)
BY DEF Rests, Accounts, Accounted, S!IsListed

LEMMA RestsListed ==
  ASSUME NEW p, NEW q, Rests(p, q), NEW i
  PROVE  S!IsListed(q, i) <=> S!IsListed(p, i)
BY DEF Rests, S!IsListed

LEMMA RestsItself ==
  ASSUME NEW p, Linked(p)
  PROVE  Rests(p, p)
<1>1. Len(p.out) \in Nat
  BY LenProperties DEF Linked
<1> QED BY <1>1 DEF Rests, Grows

LEMMA RestsTransitive ==
  ASSUME NEW p, NEW q, NEW r, Linked(p), Rests(p, q), Rests(q, r)
  PROVE  Rests(p, r)
<1>1. p.out \in Seq(S!Command) /\ q.out \in Seq(S!Command) /\ r.out \in Seq(S!Command)
  BY DEF Rests, Linked
<1>2. Grows(p.out, q.out) /\ Grows(q.out, r.out)
  BY DEF Rests
<1>3. Grows(p.out, r.out)
  <2> HIDE DEF S!Command
  <2> QED BY <1>1, <1>2, GrowsTransitive
<1> QED BY <1>3 DEF Rests

LEMMA AccountsTransitive ==
  ASSUME NEW p, NEW q, NEW r, Linked(p), Accounts(p, q), Accounts(q, r)
  PROVE  Accounts(p, r)
<1>1. p.out \in Seq(S!Command) /\ q.out \in Seq(S!Command) /\ r.out \in Seq(S!Command)
  BY DEF Accounts, Linked
<1>2. Grows(p.out, q.out) /\ Grows(q.out, r.out)
  BY DEF Accounts
<1>3. Grows(p.out, r.out)
  <2> HIDE DEF S!Command
  <2> QED BY <1>1, <1>2, GrowsTransitive
<1>4. \A i : EndIn(q.out, i) => EndIn(r.out, i)
  <2> HIDE DEF S!Command
  <2> QED BY <1>1, <1>2, GrowsKeepsEnd
<1>5. ASSUME NEW i \in Ids
      PROVE  Accounted(r, i) \/ (~S!IsListed(p, i) /\ r.uuid[i] = p.uuid[i])
  <2>1. Accounted(q, i) \/ (~S!IsListed(p, i) /\ q.uuid[i] = p.uuid[i])
    BY DEF Accounts
  <2>2. Accounted(r, i) \/ (~S!IsListed(q, i) /\ r.uuid[i] = q.uuid[i])
    BY DEF Accounts
  <2> QED BY <1>4, <2>1, <2>2 DEF Accounted
<1> QED BY <1>3, <1>5 DEF Accounts

(* A field that no method here reads may change.                           *)
LEMMA OtherField ==
  ASSUME NEW p, Linked(p), NEW v,
         NEW f \in {"state", "answerTime", "muted", "isReported",
                    "callIdsAnswered", "endedCalls", "assistedTransferInit"}
  PROVE  Rests(p, [p EXCEPT ![f] = v])
<1> DEFINE q == [p EXCEPT ![f] = v]
<1>1. /\ DOMAIN q = DOMAIN p /\ q.calls = p.calls /\ q.activeCall = p.activeCall
      /\ q.created = p.created /\ q.uuid = p.uuid /\ q.keys = p.keys
      /\ q.out = p.out
  BY DEF Linked, S!InitPhone
<1> HIDE DEF q
<1>2. Linked(q)
  BY <1>1 DEF Linked
<1>3. Grows(p.out, q.out)
  BY <1>1, RestsItself DEF Rests
<1> QED BY <1>1, <1>2, <1>3 DEF Rests, q

LEMMA ActiveField ==
  ASSUME NEW p, Linked(p), NEW c \in S!Call \cup {NoCall}
  PROVE  Rests(p, [p EXCEPT !.activeCall = c])
<1> DEFINE q == [p EXCEPT !.activeCall = c]
<1>1. /\ DOMAIN q = DOMAIN p /\ q.calls = p.calls /\ q.activeCall = c
      /\ q.created = p.created /\ q.uuid = p.uuid /\ q.keys = p.keys
      /\ q.out = p.out
  BY DEF Linked, S!InitPhone
<1> HIDE DEF q
<1>2. Linked(q)
  BY <1>1 DEF Linked
<1>3. Grows(p.out, q.out)
  BY <1>1, RestsItself DEF Rests
<1> QED BY <1>1, <1>2, <1>3 DEF Rests, q

LEMMA SendRests ==
  ASSUME NEW p, Linked(p), NEW cmds \in Seq(S!Command)
  PROVE  /\ Rests(p, S!Send(p, cmds))
         /\ \A k \in 1..Len(cmds) : \E l \in 1..Len(S!Send(p, cmds).out) :
              S!Send(p, cmds).out[l] = cmds[k]
<1> DEFINE q == S!Send(p, cmds)
<1>1. /\ DOMAIN q = DOMAIN p /\ q.calls = p.calls /\ q.activeCall = p.activeCall
      /\ q.created = p.created /\ q.uuid = p.uuid /\ q.keys = p.keys
      /\ q.out = p.out \o cmds
  BY DEF Linked, S!InitPhone, S!Send
<1> HIDE DEF q
<1>2. p.out \in Seq(S!Command)
  BY DEF Linked
<1>3. /\ q.out \in Seq(S!Command) /\ Grows(p.out, q.out)
      /\ \A k \in 1..Len(cmds) : Len(p.out) + k \in 1..Len(q.out) /\ q.out[Len(p.out) + k] = cmds[k]
  <2> HIDE DEF S!Command
  <2> QED BY <1>1, <1>2, ConcatGrows
<1>4. Linked(q)
  BY <1>1, <1>3 DEF Linked
<1> QED BY <1>1, <1>3, <1>4 DEF Rests, q

LEMMA UuidsType ==
  ASSUME NEW p, Linked(p), NEW cs \in SUBSET S!Call
  PROVE  S!OwnUuids(cs) \in SUBSET Uuids /\ S!DataUuids(p, cs) \in SUBSET Uuids
<1>1. \A c \in cs : c.id \in Ids
  BY DEF S!Call
<1>2. S!OwnUuids(cs) \in SUBSET Uuids
  BY <1>1 DEF S!OwnUuids, Uuids
<1>3. S!DataUuids(p, cs) \in SUBSET Uuids
  BY <1>1 DEF S!DataUuids, Linked
<1> QED BY <1>2, <1>3

Ops == {"lpStartCall", "lpAnswer", "lpEndCall", "lpHold", "lpResume", "lpMuteCall",
        "lpUnmuteCall", "reportOutgoingCall", "reportConnectedOutgoingCall",
        "answerCall", "endCall", "setHold", "setUnhold"}

LEMMA CmdType ==
  ASSUME NEW o \in Ops, NEW us \in SUBSET Uuids
  PROVE  S!Cmd(o, us) \in S!Command /\ S!Cmd(o, us).op = o /\ S!Cmd(o, us).to = us
BY DEF Ops, S!Cmd, S!Command

LEMMA TwoCommands ==
  ASSUME NEW p, Linked(p), NEW a \in S!Command, NEW b \in S!Command
  PROVE  Rests(p, S!Send(p, <<a, b>>)) /\ Rests(p, S!Send(p, <<>> \o <<a, b>>))
<1>1. <<a, b>> \in Seq(S!Command) /\ <<>> \o <<a, b>> \in Seq(S!Command)
  <2> HIDE DEF S!Command
  <2> QED OBVIOUS
<1> QED BY <1>1, SendRests

LEMMA HoldCallsRests ==
  ASSUME NEW p, Linked(p), NEW cs \in SUBSET S!Call
  PROVE  Rests(p, S!HoldCalls(p, cs))
<1>1. S!OwnUuids(cs) \in SUBSET Uuids /\ S!DataUuids(p, cs) \in SUBSET Uuids
  BY UuidsType
<1> DEFINE a == S!Cmd("lpHold", S!OwnUuids(cs))
           b == S!Cmd("setHold", S!DataUuids(p, cs))
<1>2. a \in S!Command /\ b \in S!Command
  BY <1>1, CmdType DEF Ops
<1>3. S!HoldCalls(p, cs) = IF cs = {} THEN p ELSE S!Send(p, <<>> \o <<a, b>>)
  BY DEF S!HoldCalls, S!OnAndroid
<1> HIDE DEF a, b
<1> QED BY <1>2, <1>3, TwoCommands, RestsItself

LEMMA UnholdCallRests ==
  ASSUME NEW p, Linked(p), NEW c \in S!Call
  PROVE  Rests(p, S!UnholdCall(p, c))
<1>1. S!OwnUuids({c}) \in SUBSET Uuids /\ S!DataUuids(p, {c}) \in SUBSET Uuids
  BY UuidsType
<1> DEFINE a == S!Cmd("lpResume", S!OwnUuids({c}))
           b == S!Cmd("setUnhold", S!DataUuids(p, {c}))
<1>2. a \in S!Command /\ b \in S!Command
  BY <1>1, CmdType DEF Ops
<1>3. S!UnholdCall(p, c) = S!Send(p, <<>> \o <<a, b>>)
  BY DEF S!UnholdCall, S!OnAndroid
<1> HIDE DEF a, b
<1> QED BY <1>2, <1>3, TwoCommands

LEMMA OneCommand ==
  ASSUME NEW p, Linked(p), NEW o \in Ops, NEW us \in SUBSET Uuids
  PROVE  Rests(p, S!Send(p, <<S!Cmd(o, us)>>))
<1>1. S!Cmd(o, us) \in S!Command
  BY CmdType
<1>2. <<S!Cmd(o, us)>> \in Seq(S!Command)
  <2> HIDE DEF S!Command
  <2> QED BY <1>1
<1> QED BY <1>2, SendRests

LEMMA ReportOutgoingRests ==
  ASSUME NEW p, Linked(p), NEW c \in S!Call
  PROVE  Rests(p, S!ReportOutgoing(p, c))
<1> DEFINE q == [p EXCEPT !.isReported = @ \cup {c.id}]
           us == S!DataUuids(p, {c})
           r == S!Send(q, <<S!Cmd("reportOutgoingCall", us)>>)
<1>1. S!ReportOutgoing(p, c) \in {p, r}
  BY DEF S!ReportOutgoing
<1>2. us \in SUBSET Uuids
  BY UuidsType
<1> HIDE DEF us
<1>3. Rests(p, q) /\ Linked(q)
  BY OtherField DEF Rests
<1> HIDE DEF q
<1>4. Rests(q, r)
  BY <1>2, <1>3, OneCommand DEF Ops
<1> QED BY <1>1, <1>3, <1>4, RestsItself, RestsTransitive

LEMMA MakeActiveCallRests ==
  ASSUME NEW p, Linked(p), NEW c \in S!Call
  PROVE  Rests(p, S!MakeActiveCall(p, c))
<1> DEFINE q == [p EXCEPT !.activeCall = c]
           others == {d \in p.calls : d.id # c.id}
           e == S!ReportOutgoing(q, c)
           r == S!HoldCalls(e, others)
           t == S!Send(r, <<S!Cmd("lpUnmuteCall", S!OwnUuids({c}))>>)
<1>1. Rests(p, q) /\ Linked(q)
  BY ActiveField DEF Rests
<1>2. others \in SUBSET S!Call
  BY DEF Linked
<1>3. S!MakeActiveCall(p, c) = S!UnholdCall(t, c)
  BY DEF S!MakeActiveCall
<1> HIDE DEF q, others
<1>4. Rests(q, e) /\ Linked(e)
  BY <1>1, ReportOutgoingRests DEF Rests
<1> HIDE DEF e
<1>8. Rests(e, r) /\ Linked(r)
  BY <1>2, <1>4, HoldCallsRests DEF Rests
<1> HIDE DEF r
<1>5. S!OwnUuids({c}) \in SUBSET Uuids
  BY <1>1, UuidsType
<1>6. Rests(r, t) /\ Linked(t)
  BY <1>5, <1>8, OneCommand DEF Ops, Rests
<1> HIDE DEF t
<1>7. Rests(t, S!UnholdCall(t, c))
  BY <1>6, UnholdCallRests
<1>9. Rests(p, r)
  BY <1>1, <1>4, <1>8, RestsTransitive
<1> QED BY <1>3, <1>6, <1>7, <1>9, RestsTransitive

LEMMA AnswerCallRests ==
  ASSUME NEW p, Linked(p), NEW c \in S!Call
  PROVE  Rests(p, S!AnswerCall(p, c))
<1> DEFINE a == [p EXCEPT !.callIdsAnswered = @ \ {p.uuid[c.id]}]
           q == S!Send(a, <<S!Cmd("lpAnswer", S!OwnUuids({c}))>>)
           m == S!MakeActiveCall(q, c)
           r == [m EXCEPT !.answerTime = @ \cup {c.id}]
           t == S!Send(r, <<S!Cmd("answerCall", S!DataUuids(r, {c}))>>)
<1>1. S!AnswerCall(p, c) = IF S!IsConnected(p, c) THEN p ELSE t
  BY DEF S!AnswerCall
<1>2. Rests(p, a) /\ Linked(a)
  BY OtherField DEF Rests
<1> HIDE DEF a
<1>3. S!OwnUuids({c}) \in SUBSET Uuids
  BY UuidsType
<1>4. Rests(a, q) /\ Linked(q)
  BY <1>2, <1>3, OneCommand DEF Ops, Rests
<1> HIDE DEF q
<1>5. Rests(q, m) /\ Linked(m)
  BY <1>4, MakeActiveCallRests DEF Rests
<1> HIDE DEF m
<1>6. Rests(m, r) /\ Linked(r)
  BY <1>5, OtherField DEF Rests
<1> HIDE DEF r
<1>7. Rests(r, t)
  <2>1. S!DataUuids(r, {c}) \in SUBSET Uuids
    BY <1>6, UuidsType
  <2> QED BY <1>6, <2>1, OneCommand DEF Ops
<1> HIDE DEF t
<1>8. Rests(p, m)
  BY <1>2, <1>4, <1>5, RestsTransitive
<1> QED BY <1>1, <1>6, <1>7, <1>8, RestsItself, RestsTransitive

LEMMA OldestIsMember ==
  ASSUME NEW cs \in SUBSET S!Call, cs # {}
  PROVE  S!Oldest(cs) \in cs
<1> DEFINE T == {c.n : c \in cs}
<1>1. T \subseteq 1..MaxObjects /\ T # {} /\ T \subseteq Nat
  BY DEF S!Call
<1>2. IsFiniteSet(T)
  <2>1. IsFiniteSet(1..MaxObjects)
    BY ObjectsAreFinite
  <2> HIDE DEF T
  <2> QED BY <1>1, <2>1, FS_Subset
<1>3. PICK x \in T : \A y \in T : x <= y
  <2> HIDE DEF T
  <2> QED BY <1>1, <1>2, LeastElement
<1>4. PICK c \in cs : c.n = x
  OBVIOUS
<1>5. \A d \in cs : c.n <= d.n
  BY <1>3, <1>4
<1> QED BY <1>5 DEF S!Oldest

LEMMA LookupFindsListed ==
  ASSUME NEW p, Linked(p), NEW u
  PROVE  S!CallByUuid(p, u) \in p.calls \cup {NoCall}
<1>1. ASSUME NEW i PROVE S!CallById(p, i) \in p.calls \cup {NoCall}
  <2>1. CASE S!IsListed(p, i)
    <3> DEFINE cs == {c \in p.calls : c.id = i}
    <3>1. cs # {} /\ cs \in SUBSET S!Call
      BY <2>1 DEF S!IsListed, Linked
    <3>2. S!Oldest(cs) \in cs
      <4> HIDE DEF cs
      <4> QED BY <3>1, OldestIsMember
    <3> QED BY <2>1, <3>2 DEF S!CallById
  <2>2. CASE ~S!IsListed(p, i)
    BY <2>2 DEF S!CallById
  <2> QED BY <2>1, <2>2
<1> QED BY <1>1 DEF S!CallByUuid

-----------------------------------------------------------------------------
(* Removing a call: its end is sent with it. *)

LEMMA UnlistAccounts ==
  ASSUME NEW p, Linked(p), NEW c \in S!Call
  PROVE  LET q == S!Unlist(S!Send(p, S!EndCommands(p, c)), c)
         IN  Accounts(p, q) /\ q.uuid = p.uuid /\ q.calls = {d \in p.calls : d.id # c.id}
<1> DEFINE us == S!DataUuids(p, {c})
           cmds == <<S!Cmd("lpEndCall", us), S!Cmd("endCall", us)>>
           e == S!Send(p, cmds)
           q == S!Unlist(e, c)
<1>1. us \in SUBSET Uuids
  BY UuidsType
<1>2. /\ S!Cmd("lpEndCall", us) \in S!Command /\ S!Cmd("endCall", us) \in S!Command
      /\ S!Cmd("lpEndCall", us).op = "lpEndCall" /\ S!Cmd("lpEndCall", us).to = us
  <2>1. "lpEndCall" \in Ops /\ "endCall" \in Ops
    BY DEF Ops
  <2> HIDE DEF us
  <2> QED BY <1>1, <2>1, CmdType
<1>3. p.uuid[c.id] = c.id => c.id \in us
  <2>1. c.id \in Ids
    BY DEF S!Call
  <2> QED BY <2>1, IosCallsAssumption DEF S!DataUuids, Uuids
<1>4. S!EndCommands(p, c) = cmds
  BY DEF S!EndCommands
<1>5. cmds \in Seq(S!Command) /\ Len(cmds) = 2 /\ cmds[1] = S!Cmd("lpEndCall", us)
  <2> HIDE DEF S!Command
  <2> QED BY <1>2
<1> HIDE DEF cmds
<1>6. /\ Rests(p, e) /\ Linked(e)
      /\ \E l \in 1..Len(e.out) : e.out[l] = S!Cmd("lpEndCall", us)
  <2> HIDE DEF S!Command, us, q
  <2>1. /\ Rests(p, e)
        /\ \A k \in 1..Len(cmds) : \E l \in 1..Len(e.out) : e.out[l] = cmds[k]
    BY <1>5, SendRests
  <2> HIDE DEF e
  <2>2. 1 \in 1..Len(cmds)
    BY <1>5
  <2>3. \E l \in 1..Len(e.out) : e.out[l] = cmds[1]
    BY <2>1, <2>2
  <2>4. Linked(e)
    BY <2>1 DEF Rests
  <2> QED BY <1>5, <2>1, <2>3, <2>4
<1> HIDE DEF us, e
<1>7. p.uuid[c.id] = c.id => EndIn(e.out, c.id)
  BY <1>2, <1>3, <1>6 DEF EndIn
<1>8. e.calls = p.calls /\ e.uuid = p.uuid /\ DOMAIN e = DOMAIN S!InitPhone
  BY <1>6 DEF Rests, Linked
<1>9. /\ DOMAIN q = DOMAIN e /\ q.calls = {d \in p.calls : d.id # c.id}
      /\ q.activeCall \in {e.activeCall, NoCall} /\ q.uuid = e.uuid /\ q.out = e.out
      /\ q.created = e.created /\ q.keys = e.keys
  BY <1>8 DEF S!Unlist, S!InitPhone
<1> HIDE DEF q
<1>10. Linked(q)
  BY <1>6, <1>9, <1>8 DEF Linked
<1>11. Grows(p.out, q.out)
  BY <1>6, <1>9 DEF Rests
<1>12. ASSUME NEW i \in Ids
       PROVE  Accounted(q, i) \/ (~S!IsListed(p, i) /\ q.uuid[i] = p.uuid[i])
  <2>2. CASE i = c.id
    <3>1. i \notin {c.id} \/ EndIn(q.out, i) \/ p.uuid[i] # i
      BY <1>7, <1>9, <2>2
    <3> QED BY <1>8, <1>9, <2>2, <3>1 DEF Accounted, Linked, S!IsListed
  <2>3. CASE i # c.id
    BY <1>8, <1>9, <2>3 DEF S!IsListed, Accounted
  <2> QED BY <2>2, <2>3
<1>13. q = S!Unlist(S!Send(p, S!EndCommands(p, c)), c)
  BY <1>4 DEF q, e
<1> QED BY <1>8, <1>9, <1>10, <1>11, <1>12, <1>13 DEF Accounts

LEMMA RefocusRests ==
  ASSUME NEW p, Linked(p), NEW c \in S!Call, p.calls # {}
  PROVE  Rests(p, S!Refocus(p, c))
<1> DEFINE newActive == S!Oldest(p.calls)
           m == S!MakeActiveCall(p, newActive)
           x == S!Cmd("lpResume", S!OwnUuids({newActive}))
           y == S!Cmd("lpResume", S!DataUuids(p, {c}))
           z == S!Cmd("setUnhold", S!DataUuids(p, {c}))
           q == S!Send(m, <<x, y, z>>)
           s == [q EXCEPT !.state = [@ EXCEPT ![c.n] = "CONFIRMED"]]
           r == [s EXCEPT !.answerTime = @ \cup {c.id}]
<1>1. S!Refocus(p, c) = r
  BY DEF S!Refocus
<1>2. newActive \in S!Call
  BY OldestIsMember DEF Linked
<1> HIDE DEF newActive
<1>3. Rests(p, m) /\ Linked(m)
  BY <1>2, MakeActiveCallRests DEF Rests
<1> HIDE DEF m
<1>4. x \in S!Command /\ y \in S!Command /\ z \in S!Command
  <2>1. S!OwnUuids({newActive}) \in SUBSET Uuids /\ S!DataUuids(p, {c}) \in SUBSET Uuids
    BY <1>2, UuidsType
  <2> QED BY <2>1, CmdType DEF Ops
<1> HIDE DEF x, y, z
<1>5. <<x, y, z>> \in Seq(S!Command)
  <2> HIDE DEF S!Command
  <2> QED BY <1>4, SMTT(30)
<1>6. Rests(m, q) /\ Linked(q)
  BY <1>3, <1>5, SendRests DEF Rests
<1> HIDE DEF q
<1>7. Rests(q, s) /\ Linked(s)
  BY <1>6, OtherField DEF Rests
<1> HIDE DEF s
<1>8. Rests(s, r)
  BY <1>7, OtherField
<1> HIDE DEF r
<1> QED BY <1>1, <1>3, <1>6, <1>7, <1>8, RestsTransitive

(* A method that takes calls off the list and adds none.                   *)
Sheds(p, q) == Accounts(p, q) /\ q.calls \subseteq p.calls /\ q.uuid = p.uuid

LEMMA RestsSheds ==
  ASSUME NEW p, NEW q, Rests(p, q)
  PROVE  Sheds(p, q)
BY RestsAccounts DEF Rests, Sheds

LEMMA ShedsTransitive ==
  ASSUME NEW p, NEW q, NEW r, Linked(p), Sheds(p, q), Sheds(q, r)
  PROVE  Sheds(p, r)
BY AccountsTransitive DEF Sheds

LEMMA RemoveCallAccounts ==
  ASSUME NEW p, Linked(p), NEW c \in S!Call
  PROVE  Sheds(p, S!RemoveCall(p, c))
<1> DEFINE q == S!Unlist(S!Send(p, S!EndCommands(p, c)), c)
           r == IF q.calls = {} THEN q ELSE S!Refocus(q, c)
           s == [r EXCEPT !.assistedTransferInit = FALSE]
<1>1. S!RemoveCall(p, c) = s
  BY DEF S!RemoveCall
<1>2. Sheds(p, q) /\ Linked(q)
  BY UnlistAccounts DEF Accounts, Sheds
<1> HIDE DEF q
<1>3. Rests(q, r) /\ Linked(r)
  BY <1>2, RefocusRests, RestsItself DEF Rests
<1> HIDE DEF r
<1>4. Rests(r, s)
  BY <1>3, OtherField
<1> HIDE DEF s
<1> QED BY <1>1, <1>2, <1>3, <1>4, RestsSheds, ShedsTransitive

LEMMA HangUpAccounts ==
  ASSUME NEW p, Linked(p), NEW c \in S!Call
  PROVE  Sheds(p, S!HangUp(p, c))
<1> DEFINE q == S!Send(p, <<S!Cmd("lpEndCall", S!OwnUuids({c}))>>)
<1>1. S!OwnUuids({c}) \in SUBSET Uuids
  BY UuidsType
<1>2. Rests(p, q) /\ Linked(q)
  BY <1>1, OneCommand DEF Rests, Ops
<1>3. S!HangUp(p, c) = S!RemoveCall(q, c)
  BY DEF S!HangUp
<1> HIDE DEF q
<1>4. Sheds(q, S!RemoveCall(q, c))
  BY <1>2, RemoveCallAccounts
<1> QED BY <1>2, <1>3, <1>4, RestsSheds, ShedsTransitive

LEMMA SetLpCallStateAccounts ==
  ASSUME NEW p, Linked(p), NEW c \in S!Call, NEW s
  PROVE  Sheds(p, S!SetLpCallState(p, c, s))
<1> DEFINE q == [p EXCEPT !.state = [@ EXCEPT ![c.n] = s]]
           r == [q EXCEPT !.answerTime = @ \cup {c.id}]
           t == S!Send(q, <<S!Cmd("reportConnectedOutgoingCall", S!DataUuids(q, {c}))>>)
<1>1. S!SetLpCallState(p, c, s) \in {S!RemoveCall(q, c), q, r, t}
  BY DEF S!SetLpCallState
<1>2. Rests(p, q) /\ Linked(q)
  BY OtherField DEF Rests
<1> HIDE DEF q
<1>3. Sheds(q, S!RemoveCall(q, c))
  BY <1>2, RemoveCallAccounts
<1>4. Rests(q, r)
  BY <1>2, OtherField
<1> HIDE DEF r
<1>5. Rests(q, t)
  <2>1. S!DataUuids(q, {c}) \in SUBSET Uuids
    BY <1>2, UuidsType
  <2> QED BY <1>2, <2>1, OneCommand DEF Ops
<1> HIDE DEF t
<1>6. Sheds(p, q) /\ Sheds(q, r) /\ Sheds(q, t)
  BY <1>2, <1>4, <1>5, RestsSheds
<1> QED BY <1>1, <1>3, <1>6, ShedsTransitive

-----------------------------------------------------------------------------
(* What an announcement of call i does: it is listed, all others stay.     *)
Announced(p, q, i) ==
  /\ Linked(q) /\ Grows(p.out, q.out) /\ S!IsListed(q, i)
  /\ \A j \in Ids \ {i} : /\ S!IsListed(q, j) <=> S!IsListed(p, j)
                          /\ q.uuid[j] = p.uuid[j]

LEMMA AnnouncedThenRests ==
  ASSUME NEW p, Linked(p), NEW q, NEW r, NEW i, Announced(p, q, i), Rests(q, r)
  PROVE  Announced(p, r, i)
<1>1. p.out \in Seq(S!Command) /\ q.out \in Seq(S!Command) /\ r.out \in Seq(S!Command)
  BY DEF Rests, Announced, Linked
<1>2. Grows(p.out, r.out)
  <2>1. Grows(p.out, q.out) /\ Grows(q.out, r.out)
    BY DEF Rests, Announced
  <2> HIDE DEF S!Command
  <2> QED BY <1>1, <2>1, GrowsTransitive
<1> QED BY <1>2, RestsListed DEF Announced, Rests

LEMMA LinkedCall ==
  ASSUME NEW p, Linked(p), NEW i \in Ids
  PROVE  LET q == S!LinkLnCallWithUuid(p, i, i)
         IN  /\ Linked(q) /\ q.calls = p.calls /\ q.out = p.out
             /\ q.uuid = [p.uuid EXCEPT ![i] = i]
<1> DEFINE q == S!LinkLnCallWithUuid(p, i, i)
           ks == IF \E k \in DOMAIN p.keys : p.keys[k] = i THEN p.keys ELSE Append(p.keys, i)
<1>1. /\ DOMAIN q = DOMAIN p /\ q.calls = p.calls /\ q.activeCall = p.activeCall
      /\ q.created = p.created /\ q.uuid = [p.uuid EXCEPT ![i] = i] /\ q.out = p.out
      /\ q.keys = ks
  BY DEF Linked, S!InitPhone, S!LinkLnCallWithUuid
<1>2. i \in Uuids /\ i # NoUuid
  BY IosCallsAssumption DEF Uuids
<1>3. ks \in Seq(Ids)
  <2>1. p.keys \in Seq(Ids)
    BY DEF Linked
  <2> QED BY <2>1, AppendProperties
<1> HIDE DEF ks, q
<1>4. /\ q.uuid \in [Ids -> Uuids \cup {NoUuid}]
      /\ \A j \in Ids : q.uuid[j] = IF j = i THEN i ELSE p.uuid[j]
  BY <1>1, <1>2 DEF Linked
<1>5. \A c \in q.calls : q.uuid[c.id] # NoUuid
  <2>1. \A c \in q.calls : c.id \in Ids /\ p.uuid[c.id] # NoUuid
    BY <1>1 DEF Linked, S!Call
  <2> QED BY <1>2, <1>4, <2>1
<1>6. Linked(q)
  BY <1>1, <1>3, <1>4, <1>5 DEF Linked
<1> QED BY <1>1, <1>6 DEF q

LEMMA ListedCall ==
  ASSUME NEW p, Linked(p), NEW c \in S!Call, p.uuid[c.id] # NoUuid
  PROVE  LET q == [p EXCEPT !.calls = @ \cup {c}]
         IN  Linked(q) /\ q.out = p.out /\ q.uuid = p.uuid /\ q.calls = p.calls \cup {c}
<1> DEFINE q == [p EXCEPT !.calls = @ \cup {c}]
<1>1. /\ DOMAIN q = DOMAIN p /\ q.calls = p.calls \cup {c} /\ q.activeCall = p.activeCall
      /\ q.created = p.created /\ q.uuid = p.uuid /\ q.keys = p.keys
      /\ q.out = p.out
  BY DEF Linked, S!InitPhone
<1> HIDE DEF q
<1>2. Linked(q)
  BY <1>1 DEF Linked
<1> QED BY <1>1, <1>2 DEF q

LEMMA KeepRests ==
  ASSUME NEW p, Linked(p), NEW c \in S!Call
  PROVE  Rests(p, S!Keep(p, c))
<1> DEFINE q == [p EXCEPT !.created = c.n]
<1>1. /\ DOMAIN q = DOMAIN p /\ q.calls = p.calls /\ q.activeCall = p.activeCall
      /\ q.created = c.n /\ q.uuid = p.uuid /\ q.keys = p.keys
      /\ q.out = p.out
  BY DEF Linked, S!InitPhone
<1>2. S!Keep(p, c) \in {p, q}
  BY DEF S!Keep
<1> HIDE DEF q
<1>3. c.n \in Nat
  BY ObjectsAreFinite DEF S!Call
<1>4. Linked(q)
  BY <1>1, <1>3 DEF Linked
<1>5. Grows(p.out, q.out)
  BY <1>1, RestsItself DEF Rests
<1>6. Rests(p, q)
  BY <1>1, <1>4, <1>5 DEF Rests
<1> QED BY <1>2, <1>6, RestsItself

LEMMA AddCallAnnounced ==
  ASSUME NEW p, Linked(p), NEW i \in Ids, NEW c \in S!Call, c.id = i
  PROVE  Announced(p, S!AddCall(S!LinkLnCallWithUuid(p, i, i), c), i)
<1> DEFINE l == S!LinkLnCallWithUuid(p, i, i)
           q == [l EXCEPT !.calls = @ \cup {c}]
           r == IF S!IsListed(l, c.id) THEN l
                ELSE IF l.activeCall = NoCall \/ c.direction = "OUTGOING"
                     THEN S!MakeActiveCall(q, c) ELSE q
           s == IF r.uuid[c.id] \in r.callIdsAnswered THEN S!AnswerCall(r, c) ELSE r
<1>1. S!AddCall(l, c) = s
  BY DEF S!AddCall
<1>2. /\ Linked(l) /\ l.calls = p.calls /\ l.out = p.out
      /\ l.uuid = [p.uuid EXCEPT ![i] = i]
  BY LinkedCall
<1>3. /\ l.uuid[i] # NoUuid /\ Grows(p.out, l.out)
      /\ \A j \in Ids \ {i} : l.uuid[j] = p.uuid[j]
  <2>1. Grows(p.out, p.out)
    BY RestsItself DEF Rests
  <2>2. i \in Uuids
    BY DEF Uuids
  <2> QED BY <1>2, <2>1, <2>2, IosCallsAssumption DEF Linked
<1> HIDE DEF l
<1>4. Linked(q) /\ q.out = l.out /\ q.uuid = l.uuid /\ q.calls = l.calls \cup {c}
  <2>1. Linked(l) /\ l.uuid[c.id] # NoUuid
    BY <1>2, <1>3
  <2> QED BY <2>1, ListedCall
<1> HIDE DEF q
<1>5. Announced(p, q, i)
  BY <1>2, <1>3, <1>4 DEF Announced, S!IsListed
<1>6. Announced(p, r, i) /\ Linked(r)
  <2>1. CASE S!IsListed(l, c.id)
    BY <1>2, <1>3, <2>1 DEF Announced, S!IsListed
  <2>2. CASE ~S!IsListed(l, c.id)
    <3>1. Announced(p, S!MakeActiveCall(q, c), i)
      BY <1>4, <1>5, MakeActiveCallRests, AnnouncedThenRests
    <3>2. Announced(p, r, i)
      BY <1>5, <2>2, <3>1
    <3> QED BY <3>2 DEF Announced
  <2> QED BY <2>1, <2>2
<1> HIDE DEF r
<1>7. Announced(p, S!AnswerCall(r, c), i)
  BY <1>6, AnswerCallRests, AnnouncedThenRests
<1> QED BY <1>1, <1>6, <1>7 DEF l

LEMMA CallAddedAnnounced ==
  ASSUME NEW p, Linked(p), p.created < MaxObjects, NEW i \in Ids
  PROVE  /\ Announced(p, S!OutgoingInit(p, i, i), i)
         /\ Announced(p, S!IncomingReceived(p, i, i), i)
<1>1. ASSUME NEW dir \in {"INCOMING", "OUTGOING"}
      PROVE  LET c == S!NewCall(p, i, dir)
             IN  Announced(p, S!Keep(S!AddCall(S!LinkLnCallWithUuid(p, i, i), c), c), i)
  <2> DEFINE c == S!NewCall(p, i, dir)
             q == S!AddCall(S!LinkLnCallWithUuid(p, i, i), c)
  <2>1. c \in S!Call /\ c.id = i
    BY ObjectsAreFinite DEF S!NewCall, S!Call, Linked
  <2> HIDE DEF c
  <2>2. Announced(p, q, i) /\ Linked(q)
    BY <2>1, AddCallAnnounced DEF Announced
  <2> HIDE DEF q
  <2>3. Announced(p, S!Keep(q, c), i)
    BY <2>1, <2>2, KeepRests, AnnouncedThenRests
  <2> QED BY <2>3 DEF c, q
<1> QED BY <1>1 DEF S!OutgoingInit, S!IncomingReceived

LEMMA AnnouncedAccounts ==
  ASSUME NEW p, NEW q, NEW i, Announced(p, q, i)
  PROVE  Accounts(p, q)
BY DEF Announced, Accounts, Accounted

-----------------------------------------------------------------------------
(* The answer of the system's screen may give its uuid to the active call, *)
(* which is listed.                                                        *)
LEMMA AnswerButtonAccounts ==
  ASSUME NEW p, Linked(p), p.activeCall \in p.calls \cup {NoCall}, NEW u \in Uuids
  PROVE  LET q == S!AnswerButtonPressed(p, u)
         IN  Accounts(p, q) /\ q.calls = p.calls
<1> DEFINE q == [p EXCEPT !.callIdsAnswered = @ \cup {u}]
           a == q.activeCall
           adopted == [q EXCEPT !.uuid = [@ EXCEPT ![a.id] = u]]
           adopt == S!CallByUuid(q, u) = NoCall /\ a # NoCall /\ q.state[a.n] = "PROGRESS"
           r == IF adopt THEN adopted ELSE q
           c == S!CallByUuid(r, u)
<1>1. S!AnswerButtonPressed(p, u) = IF c = NoCall THEN r ELSE S!AnswerCall(r, c)
  BY DEF S!AnswerButtonPressed
<1>2. Rests(p, q) /\ Linked(q) /\ a \in q.calls \cup {NoCall}
  <2>1. q.activeCall = p.activeCall
    BY DEF Linked, S!InitPhone
  <2> QED BY <2>1, OtherField DEF Rests
<1> HIDE DEF q
<1>3. ASSUME a # NoCall
      PROVE  Accounts(q, adopted) /\ adopted.calls = q.calls
  <2>1. a \in q.calls /\ a.id \in Ids
    BY <1>2, <1>3 DEF Linked, S!Call
  <2>2. /\ DOMAIN adopted = DOMAIN q /\ adopted.calls = q.calls
        /\ adopted.activeCall = q.activeCall /\ adopted.created = q.created
        /\ adopted.uuid = [q.uuid EXCEPT ![a.id] = u] /\ adopted.keys = q.keys
        /\ adopted.out = q.out
    BY <1>2 DEF Linked, S!InitPhone
  <2> HIDE DEF adopted
  <2>3. /\ adopted.uuid \in [Ids -> Uuids \cup {NoUuid}] /\ adopted.uuid[a.id] = u
        /\ \A j \in Ids \ {a.id} : adopted.uuid[j] = q.uuid[j]
    BY <1>2, <2>1, <2>2 DEF Linked
  <2>4. \A d \in adopted.calls : adopted.uuid[d.id] # NoUuid
    <3>1. \A d \in q.calls : d.id \in Ids /\ q.uuid[d.id] # NoUuid
      BY <1>2 DEF Linked, S!Call
    <3> QED BY <2>2, <2>3, <3>1, IosCallsAssumption
  <2>5. Linked(adopted)
    BY <1>2, <2>2, <2>3, <2>4 DEF Linked
  <2>6. Grows(q.out, adopted.out)
    BY <1>2, <2>2, RestsItself DEF Rests
  <2>7. \A i \in Ids : S!IsListed(adopted, i) \/ (~S!IsListed(q, i) /\ adopted.uuid[i] = q.uuid[i])
    BY <2>1, <2>2, <2>3 DEF S!IsListed
  <2> QED BY <2>2, <2>5, <2>6, <2>7 DEF Accounts, Accounted
<1>4. Accounts(q, r) /\ r.calls = q.calls /\ Linked(r)
  <2>1. Accounts(q, q) /\ (adopt => a # NoCall)
    BY <1>2, RestsItself, RestsAccounts
  <2> HIDE DEF adopted
  <2>2. Accounts(q, r) /\ r.calls = q.calls
    BY <1>3, <2>1
  <2> HIDE DEF r
  <2> QED BY <2>2 DEF Accounts
<1> HIDE DEF r
<1>5. c \in r.calls \cup {NoCall} /\ r.calls \in SUBSET S!Call
  BY <1>4, LookupFindsListed DEF Linked
<1> HIDE DEF c
<1>6. c # NoCall => Rests(r, S!AnswerCall(r, c))
  BY <1>4, <1>5, AnswerCallRests
<1>7. Accounts(p, r) /\ r.calls = p.calls
  BY <1>2, <1>4, RestsAccounts, AccountsTransitive DEF Rests
<1> QED BY <1>1, <1>6, <1>7, RestsAccounts, AccountsTransitive DEF Rests

-----------------------------------------------------------------------------
(* What Dart does on an event or a tap.                                    *)

LEMMA SetHoldRests ==
  ASSUME NEW p, Linked(p), NEW c \in S!Call, NEW hold \in BOOLEAN
  PROVE  Rests(p, S!SetHold(p, c, hold, FALSE))
<1>1. S!OwnUuids({c}) \in SUBSET Uuids
  BY UuidsType
<1>2. \E o \in Ops : S!SetHold(p, c, hold, FALSE) = S!Send(p, <<S!Cmd(o, S!OwnUuids({c}))>>)
  BY DEF S!SetHold, Ops
<1> QED BY <1>1, <1>2, OneCommand

LEMMA HandleAccounts ==
  ASSUME Linked(phone), phone.activeCall \in phone.calls \cup {NoCall}, NEW e \in Event,
         e.op \in Announcements => phone.created < MaxObjects /\ e.id \in Ids
  PROVE  /\ e.op \in Announcements => Announced(phone, Handle(e), e.id)
         /\ e.op \notin Announcements => Accounts(phone, Handle(e)) /\ Handle(e).calls \subseteq phone.calls
<1>1. e.id \in Uuids
  BY DEF Event
<1>2. CASE e.op \in Announcements
  <2>1. CASE e.op = "lnOutgoingInit"
    <3>1. Handle(e) = S!OutgoingInit(phone, e.id, e.id)
      BY <2>1, SMTT(30) DEF Handle, Announcements, ShownAs
    <3> QED BY <1>2, <3>1, CallAddedAnnounced
  <2>2. CASE e.op = "lnIncomingReceived"
    <3>1. Handle(e) = S!IncomingReceived(phone, e.id, e.id)
      BY <2>2, SMTT(30) DEF Handle, Announcements, ShownAs
    <3> QED BY <1>2, <3>1, CallAddedAnnounced
  <2> QED BY <1>2, <2>1, <2>2 DEF Announcements
<1>3. CASE e.op = "answerButtonPressed"
  <2>1. e.op \notin Announcements
    BY <1>3 DEF Announcements
  <2>2. Handle(e) = S!AnswerButtonPressed(phone, e.id)
    BY <1>3, <2>1, SMTT(30) DEF Handle, Announcements, ShownAs
  <2> QED BY <1>1, <2>1, <2>2, AnswerButtonAccounts
<1>4. CASE e.op \notin Announcements \cup {"answerButtonPressed"}
  <2> DEFINE c == S!CallByUuid(phone, e.id)
  <2>1. c \in S!Call \cup {NoCall}
    BY LookupFindsListed DEF Linked
  <2>2. CASE c = NoCall
    <3>1. Handle(e) = phone
      BY <1>4, <2>2 DEF Handle, Announcements
    <3> QED BY <1>4, <3>1, RestsItself, RestsAccounts
  <2>3. CASE c # NoCall
    <3>1. \/ Handle(e) = S!HangUp(phone, c)
          \/ \E hold \in BOOLEAN : Handle(e) = S!SetHold(phone, c, hold, FALSE)
          \/ \E s : Handle(e) = S!SetLpCallState(phone, c, s)
      <4>1. e.op \in DOMAIN ShownAs \cup {"endButtonPressed", "holdButtonPressed", "unholdButtonPressed"}
        BY <1>4 DEF Event, Buttons
      <4>2. CASE e.op \in DOMAIN ShownAs
        BY <1>4, <2>3, <4>2 DEF Handle, Announcements, ShownAs
      <4>3. CASE e.op \notin DOMAIN ShownAs
        BY <1>4, <2>3, <4>1, <4>3 DEF Handle, Announcements
      <4> QED BY <4>2, <4>3
    <3>2. c \in S!Call
      BY <2>1, <2>3
    <3> HIDE DEF c
    <3>3. Sheds(phone, Handle(e))
      BY <3>1, <3>2, HangUpAccounts, SetHoldRests, SetLpCallStateAccounts, RestsSheds
    <3> QED BY <1>4, <3>3 DEF Sheds
  <2> QED BY <2>2, <2>3
<1> QED BY <1>2, <1>3, <1>4

LEMMA DoIs ==
  ASSUME NEW q, S!Do(q)
  PROVE  phone' = q
BY IosCallsAssumption DEF S!Do

LEMMA UserAccounts ==
  ASSUME Linked(phone), User
  PROVE  Sheds(phone, phone')
<1>1. phone.activeCall \in S!Call \cup {NoCall} /\ phone.calls \in SUBSET S!Call
  BY DEF Linked
<1>2. S!ConnectedRows \in SUBSET S!Call /\ S!IncomingPopup \in SUBSET S!Call
  BY <1>1 DEF S!ConnectedRows, S!IncomingPopup, S!Waiting
<1>3. "lpStartCall" \in Ops /\ {} \in SUBSET Uuids
  BY DEF Ops
<1>4. CASE S!Dial
  <2>1. phone' = S!Send(phone, <<S!Cmd("lpStartCall", {})>>)
    BY <1>4, DoIs DEF S!Dial
  <2> QED BY <1>3, <2>1, OneCommand, RestsSheds
<1>5. CASE S!TapAnswer
  <2>1. \E c \in S!Call : phone' = S!AnswerCall(phone, c)
    BY <1>1, <1>2, <1>5, DoIs DEF S!TapAnswer
  <2> QED BY <2>1, AnswerCallRests, RestsSheds
<1>6. CASE S!TapHangUp
  <2>1. \E c \in S!Call : phone' = S!HangUp(phone, c)
    BY <1>1, <1>2, <1>6, DoIs DEF S!TapHangUp
  <2> QED BY <2>1, HangUpAccounts
<1>7. CASE S!TapHold
  <2>1. phone.activeCall \in S!Call
    BY <1>1, <1>7 DEF S!TapHold, S!ActiveConnected
  <2>2. phone' \in {S!HoldCalls(phone, {phone.activeCall}), S!UnholdCall(phone, phone.activeCall)}
    BY <1>7, DoIs DEF S!TapHold, S!SetHold
  <2> QED BY <2>1, <2>2, HoldCallsRests, UnholdCallRests, RestsSheds
<1>8. CASE S!TapRow
  <2>1. \E c \in S!Call : phone' = S!MakeActiveCall(phone, c)
    BY <1>2, <1>8, DoIs DEF S!TapRow
  <2> QED BY <2>1, MakeActiveCallRests, RestsSheds
<1>9. ASSUME NEW i \in Ids, S!SaveDisposition(i) PROVE Sheds(phone, phone')
  <2>1. phone' = [phone EXCEPT !.endedCalls = [@ EXCEPT ![i] = 0]]
    BY <1>9, DoIs DEF S!SaveDisposition
  <2> QED BY <2>1, OtherField, RestsSheds
<1> QED BY <1>4, <1>5, <1>6, <1>7, <1>8, <1>9 DEF User


-----------------------------------------------------------------------------
(* What native code reports and asks of CallKit.                           *)

EventOp == Announcements \cup DOMAIN ShownAs

LEMMA ReportsType ==
  ASSUME NEW s \in CoreState
  PROVE  /\ Reports[s] \in Seq(EventOp) /\ Len(Reports[s]) \in Nat
         /\ s \in {"incoming", "outgoing"} =>
              Len(Reports[s]) >= 1 /\ Reports[s][1] \in Announcements
         /\ \A k \in 1..Len(Reports[s]) : Reports[s][k] \in Announcements =>
              k = 1 /\ s \in {"incoming", "outgoing"}
<1> DEFINE a == "lnIncomingReceived"
           b == "lnOutgoingInit"
           d == "lnOutgoingProgress"
           e == "lnCallConnected"
           f == "lnCallStreamsRunning"
           g == "lnCallPaused"
           h == "lnCallPausedByRemote"
           l == "lnCallReleased"
           others == {e, f, g, h, l}
<1>1. /\ a \in EventOp /\ b \in EventOp /\ d \in EventOp
      /\ \A o \in others : o \in EventOp /\ o \notin Announcements
      /\ a \in Announcements /\ b \in Announcements /\ d \notin Announcements
  BY DEF EventOp, Announcements, ShownAs
<1>2. \/ s = "incoming" /\ Reports[s] = <<a>>
      \/ s = "outgoing" /\ Reports[s] = <<b, d>>
      \/ s \notin {"incoming", "outgoing"} /\ \E o \in others : Reports[s] \in {<<>>, <<o>>}
  BY DEF Reports, CoreState
<1> HIDE DEF a, b, d, others, EventOp, Announcements
<1>3. CASE s = "incoming" /\ Reports[s] = <<a>>
  BY <1>1, <1>3
<1>4. CASE s = "outgoing" /\ Reports[s] = <<b, d>>
  BY <1>1, <1>4
<1>5. CASE s \notin {"incoming", "outgoing"} /\ \E o \in others : Reports[s] \in {<<>>, <<o>>}
  <2>1. PICK o \in others : Reports[s] \in {<<>>, <<o>>}
    BY <1>5
  <2>2. CASE Reports[s] = <<>>
    BY <1>5, <2>2
  <2>3. CASE Reports[s] = <<o>>
    BY <1>1, <1>5, <2>3
  <2> QED BY <2>1, <2>2, <2>3
<1> QED BY <1>2, <1>3, <1>4, <1>5

LEMMA EvType ==
  ASSUME NEW o \in EventOp \cup Buttons, NEW u \in Uuids
  PROVE  Ev(o, u) \in Event /\ Ev(o, u).op = o /\ Ev(o, u).id = u
BY DEF Ev, Event, EventOp

Announces(e, i) == e.id = i /\ e.op \in Announcements

LEMMA EventsOfType ==
  ASSUME NEW i \in Ids, NEW s \in CoreState
  PROVE  /\ EventsOf(i, s) \in Seq(Event) /\ Len(EventsOf(i, s)) \in Nat
         /\ s \in {"incoming", "outgoing"} =>
              Len(EventsOf(i, s)) >= 1 /\ Announces(EventsOf(i, s)[1], i)
         /\ \A k \in 1..Len(EventsOf(i, s)) :
              EventsOf(i, s)[k].op \in Announcements =>
                /\ k = 1 /\ s \in {"incoming", "outgoing"}
                /\ EventsOf(i, s)[k].id = i
<1> DEFINE r == Reports[s]
           v == [k \in DOMAIN r |-> Ev(r[k], i)]
<1>1. /\ r \in Seq(EventOp) /\ Len(r) \in Nat
      /\ s \in {"incoming", "outgoing"} => Len(r) >= 1 /\ r[1] \in Announcements
      /\ \A k \in 1..Len(r) : r[k] \in Announcements =>
           k = 1 /\ s \in {"incoming", "outgoing"}
  BY ReportsType
<1>2. EventsOf(i, s) = v
  BY DEF EventsOf
<1> HIDE DEF r, EventOp
<1>3. DOMAIN r = 1..Len(r) /\ \A k \in 1..Len(r) : r[k] \in EventOp
  BY <1>1, LenProperties, ElementOfSeq
<1>4. i \in Uuids
  BY DEF Uuids
<1>5. \A k \in 1..Len(r) : v[k] \in Event /\ v[k].op = r[k] /\ v[k].id = i
  BY <1>3, <1>4, EvType
<1>6. v \in [1..Len(r) -> Event]
  BY <1>3, <1>5
<1>7. v \in Seq(Event) /\ Len(v) = Len(r)
  <2> HIDE DEF v
  <2> QED BY <1>1, <1>6, IsASeq, LenProperties
<1> HIDE DEF v
<1>8. s \in {"incoming", "outgoing"} => Len(v) >= 1 /\ Announces(v[1], i)
  BY <1>1, <1>5, <1>7 DEF Announces
<1> QED BY <1>1, <1>2, <1>5, <1>7, <1>8

(* A finite set is listed by some sequence.                                *)
LEMMA ListingType ==
  ASSUME NEW T, NEW X \in SUBSET T, IsFiniteSet(X)
  PROVE  SetToSeq(X) \in Seq(T)
<1> DEFINE n == Cardinality(X)
<1>1. n \in Nat /\ ExistsBijection(1..n, X)
  BY FS_CardinalityType
<1>2. \E f \in [1..n -> X] : IsInjective(f)
  <2> HIDE DEF n
  <2> QED BY <1>1 DEF ExistsBijection, Bijection, Injection, IsInjective
<1>3. SetToSeq(X) \in [1..n -> X]
  BY <1>2 DEF SetToSeq
<1>4. SetToSeq(X) \in [1..n -> T]
  <2> HIDE DEF n
  <2> QED BY <1>3
<1> HIDE DEF n
<1> QED BY <1>1, <1>4, IsASeq

LEMMA AsksType ==
  ASSUME NEW c \in S!Command
  PROVE  Asks(c) \in Seq(Action)
<1> DEFINE each(o, us) == SetToSeq({[op |-> o, to |-> u] : u \in us})
<1>1. c.to \in SUBSET Uuids /\ IsFiniteSet(Uuids)
  BY IosCallsAssumption DEF S!Command
<1>2. ASSUME NEW o \in {"start", "answer", "end", "hold", "unhold"}, NEW us \in SUBSET Uuids
      PROVE  each(o, us) \in Seq(Action)
  <2> DEFINE X == {[op |-> o, to |-> u] : u \in us}
             f == [u \in us |-> [op |-> o, to |-> u]]
  <2>1. X \in SUBSET Action
    BY DEF Action
  <2>2. f \in Surjection(us, X)
    BY DEF Surjection
  <2>3. IsFiniteSet(us)
    BY <1>1, FS_Subset
  <2> HIDE DEF X, f
  <2>4. IsFiniteSet(X)
    BY <2>2, <2>3, FS_Surjection
  <2>5. SetToSeq(X) \in Seq(Action)
    BY <2>1, <2>4, ListingType
  <2> QED BY <2>5 DEF X
<1> DEFINE answered == c.to \cap DOMAIN answeredUuids
<1>3. answered \in SUBSET Uuids
  BY <1>1
<1> HIDE DEF answered
<1>4. /\ each("start", c.to) \in Seq(Action) /\ each("answer", c.to) \in Seq(Action)
      /\ each("end", c.to) \in Seq(Action) /\ each("hold", answered) \in Seq(Action)
      /\ each("unhold", answered) \in Seq(Action) /\ <<>> \in Seq(Action)
  BY <1>1, <1>2, <1>3, EmptySeq
<1>5. each("start", c.to) \o each("start", c.to) \in Seq(Action)
  <2> HIDE DEF each, Action
  <2> QED BY <1>4, ConcatProperties
<1>6. Asks(c) \in {each("start", c.to) \o each("start", c.to), each("answer", c.to),
                   each("end", c.to), each("hold", answered), each("unhold", answered), <<>>}
  <2> HIDE DEF each
  <2> QED BY DEF Asks, answered, each
<1> HIDE DEF each, Action
<1> QED BY <1>4, <1>5, <1>6

-----------------------------------------------------------------------------
(* The core starts at most one call in a step, and then reports no other;  *)
(* a call that has begun never begins again.                               *)
CoreStep(c) ==
  /\ c \in [Ids -> CoreState]
  /\ \A i \in Ids : c[i] = "none" => core[i] = "none"
  /\ \A i \in Ids : core[i] = "released" => c[i] = "released"
  /\ \A i \in Ids :
       c[i] \in {"incoming", "outgoing"} /\ c[i] # core[i]
         => core[i] = "none" /\ \A j \in Ids \ {i} : c[j] = core[j] \/ c[j] = "pausing"
  /\ \A i \in Ids : core[i] = "none" => c[i] \in {"none", "incoming", "outgoing"}

LEMMA TakingSteps ==
  ASSUME core \in [Ids -> CoreState], NEW i \in Ids, NEW s \in CoreState,
         \/ core[i] = "none" /\ s \in {"incoming", "outgoing"}
         \/ core[i] \notin {"none", "released"} /\ s \notin {"none", "incoming", "outgoing"}
  PROVE  CoreStep(Taking(i, s))
<1> DEFINE c == Taking(i, s)
<1>1. /\ c \in [Ids -> CoreState] /\ c[i] = s
      /\ \A j \in Ids \ {i} : c[j] = core[j] \/ (core[j] = "streaming" /\ c[j] = "pausing")
  BY DEF Taking, CoreState
<1> HIDE DEF c
<1>2. CoreStep(c)
  BY <1>1 DEF CoreStep
<1> QED BY <1>2 DEF c

LEMMA CoreSteps ==
  ASSUME core \in [Ids -> CoreState]
  PROVE  /\ CoreStep(core)
         /\ \A i \in InState("none") : CoreStep(Invite(i))
         /\ \A i \in Ids : CoreStep(Accept(i)) /\ CoreStep(Resume(i))
         /\ \A is \in SUBSET Ids : CoreStep(Hold(is)) /\ CoreStep(Terminate(is))
<1>1. CoreStep(core)
  BY DEF CoreStep
<1>2. ASSUME NEW i \in InState("none")
      PROVE  CoreStep(Invite(i))
  <2>1. i \in Ids /\ core[i] = "none" /\ "outgoing" \in CoreState
    BY DEF InState, CoreState
  <2> QED BY <1>1, <2>1, TakingSteps DEF Invite
<1>3. ASSUME NEW i \in Ids
      PROVE  CoreStep(Accept(i)) /\ CoreStep(Resume(i))
  <2>1. "connected" \in CoreState /\ "resuming" \in CoreState
    BY DEF CoreState
  <2>2. CoreStep(Accept(i))
    BY <1>1, <2>1, TakingSteps DEF Accept
  <2>3. CoreStep(Resume(i))
    BY <1>1, <2>1, TakingSteps DEF Resume
  <2> QED BY <2>2, <2>3
<1>4. ASSUME NEW is \in SUBSET Ids
      PROVE  CoreStep(Hold(is)) /\ CoreStep(Terminate(is))
  <2>1. "pausing" \in CoreState /\ "released" \in CoreState
    BY DEF CoreState
  <2>2. Hold(is) \in [Ids -> CoreState] /\ Terminate(is) \in [Ids -> CoreState]
    BY <2>1 DEF Hold, PauseFrom, Terminate
  <2>3. \A i \in Ids : Hold(is)[i] = core[i] \/ (core[i] = "streaming" /\ Hold(is)[i] = "pausing")
    BY DEF Hold, PauseFrom
  <2>4. \A i \in Ids : \/ Terminate(is)[i] = core[i]
                       \/ core[i] # "none" /\ Terminate(is)[i] = "released"
    BY DEF Terminate, LiveCalls
  <2> HIDE DEF Hold, Terminate
  <2>5. CoreStep(Hold(is))
    BY <2>2, <2>3 DEF CoreStep
  <2>6. CoreStep(Terminate(is))
    BY <2>2, <2>4 DEF CoreStep
  <2> QED BY <2>5, <2>6
<1> QED BY <1>1, <1>2, <1>3, <1>4

LEMMA OwnCoreSteps ==
  ASSUME core \in [Ids -> CoreState], NEW i \in Ids, NEW step \in OwnSteps, core[i] = step[1]
  PROVE  CoreStep([core EXCEPT ![i] = step[2]])
<1> DEFINE c == [core EXCEPT ![i] = step[2]]
<1>1. /\ step[2] \in CoreState \ {"none", "released", "outgoing"}
      /\ core[i] \notin {"released"} /\ (core[i] = "none" <=> step[2] = "incoming")
  BY DEF OwnSteps, CoreState
<1>2. c \in [Ids -> CoreState] /\ c[i] = step[2] /\ \A j \in Ids \ {i} : c[j] = core[j]
  BY <1>1
<1> HIDE DEF c
<1>3. CoreStep(c)
  BY <1>1, <1>2 DEF CoreStep
<1> QED BY <1>3 DEF c

-----------------------------------------------------------------------------
(* The screen of CallKit and the dictionary of answered calls. *)
KitTyped(k, answered) ==
  /\ k \in [Uuids -> KitState] /\ DOMAIN answered \subseteq Uuids
  /\ \A u \in DOMAIN answered : answered[u] = TRUE

(* What is added to the events when the core comes to c: no announcement   *)
(* but the one of a call that starts, which is there and first.            *)
Reported(c, r) ==
  /\ \A k \in 1..Len(r) : r[k].op \in Announcements =>
       /\ k = 1 /\ r[k].id \in Ids /\ core[r[k].id] = "none"
       /\ c[r[k].id] # "none"
  /\ \A i \in Ids : core[i] = "none" /\ c[i] # "none" =>
       \E k \in 1..Len(r) : Announces(r[k], i)

LEMMA TimerKeepsKit ==
  ASSUME NEW k, KitTyped(k, answeredUuids), NEW u, RingingDidTimeout(k, u)
  PROVE  KitTyped(kit', answeredUuids')
BY DEF KitTyped, RingingDidTimeout

LEMMA ReactReports ==
  ASSUME core \in [Ids -> CoreState], NEW c, CoreStep(c), NEW k, React(c, k),
         KitTyped(k, answeredUuids), toDart \in Seq(Event)
  PROVE  /\ core' = c /\ KitTyped(kit', answeredUuids')
         /\ \E r \in Seq(Event) : toDart' = toDart \o r /\ Reported(c, r)
<1> DEFINE told == {i \in Ids : c[i] # core[i] /\ Reports[c[i]] # <<>>}
<1>1. core' = c /\ c \in [Ids -> CoreState]
  BY DEF React, CoreStep
<1>2. ASSUME NEW i \in Ids, core[i] = "none", c[i] # "none"
      PROVE  told = {i} /\ c[i] \in {"incoming", "outgoing"}
  <2>1. /\ c[i] \in {"incoming", "outgoing"}
        /\ \A j \in Ids \ {i} : c[j] = core[j] \/ c[j] = "pausing"
    BY <1>2 DEF CoreStep
  <2>2. Reports[c[i]] # <<>>
    BY <2>1 DEF Reports
  <2>3. Reports["pausing"] = <<>>
    BY DEF Reports
  <2> QED BY <1>2, <2>1, <2>2, <2>3
<1>3. \/ told = {} /\ toDart' = toDart /\ kit' = k /\ answeredUuids' = answeredUuids
      \/ \E i \in told : /\ toDart' = toDart \o EventsOf(i, c[i])
                         /\ \/ RingingDidTimeout(k, i)
                            \/ kit' = k /\ answeredUuids' = answeredUuids
  BY DEF React
<1>4. KitTyped(kit', answeredUuids')
  <2> HIDE DEF told
  <2> QED BY <1>3, TimerKeepsKit
<1>5. told \in SUBSET Ids /\ \A i \in told : c[i] # core[i]
  OBVIOUS
<1> HIDE DEF told
<1>6. CASE told = {} /\ toDart' = toDart
  <2>1. <<>> \in Seq(Event) /\ toDart' = toDart \o <<>> /\ Len(<<>>) = 0
    <3> HIDE DEF Event
    <3> QED BY <1>6, EmptySeq, ConcatEmptySeq
  <2>2. Reported(c, <<>>)
    BY <1>2, <1>6, <2>1 DEF Reported
  <2> QED BY <1>1, <1>4, <2>1, <2>2
<1>7. ASSUME NEW i \in told, toDart' = toDart \o EventsOf(i, c[i])
      PROVE  \E r \in Seq(Event) : toDart' = toDart \o r /\ Reported(c, r)
  <2> DEFINE v == EventsOf(i, c[i])
  <2>1. /\ v \in Seq(Event) /\ Len(v) \in Nat
        /\ c[i] \in {"incoming", "outgoing"} => Len(v) >= 1 /\ Announces(v[1], i)
        /\ \A l \in 1..Len(v) : v[l].op \in Announcements =>
             l = 1 /\ c[i] \in {"incoming", "outgoing"} /\ v[l].id = i
    BY <1>1, <1>5, EventsOfType
  <2>2. c[i] \in {"incoming", "outgoing"} => core[i] = "none" /\ c[i] # "none"
    BY <1>5 DEF CoreStep
  <2> HIDE DEF v
  <2>3. ASSUME NEW j \in Ids, core[j] = "none", c[j] # "none"
        PROVE  \E l \in 1..Len(v) : Announces(v[l], j)
    <3>1. j = i /\ c[i] \in {"incoming", "outgoing"}
      BY <1>2, <2>3
    <3>2. 1 \in 1..Len(v) /\ Announces(v[1], j)
      BY <2>1, <3>1
    <3> QED BY <3>2
  <2>4. Reported(c, v)
    BY <1>5, <2>1, <2>2, <2>3 DEF Reported
  <2> QED BY <1>7, <2>1, <2>4 DEF v
<1> QED BY <1>1, <1>3, <1>4, <1>6, <1>7

(* What a command makes of the core: a step of it, which ends every call   *)
(* that is to end.                                                         *)
LEMMA CommandReacts ==
  ASSUME core \in [Ids -> CoreState], NEW c \in S!Command, KitTyped(kit, answeredUuids),
         toDart \in Seq(Event), Perform(c)
  PROVE  \/ /\ \E u \in Uuids : toDart' = Append(toDart, Ev("lnCallConnected", u))
            /\ c.op = "lpResume" /\ UNCHANGED <<core, kit, answeredUuids>>
         \/ \E after : /\ CoreStep(after) /\ React(after, KitAfter(c))
                       /\ c.op = "lpEndCall" => after = Terminate(Found(c))
<1>1. /\ Found(c) \in SUBSET Ids
      /\ {j \in InState("none") \ incoming : kit[j] = "none"} \in SUBSET InState("none")
  BY DEF Found, Known
<1>2. CASE ResumesAgain(c)
  BY <1>1, <1>2 DEF Perform, ResumesAgain, Uuids
<1>3. CASE ~ResumesAgain(c)
  <2>1. PICK after \in CoreAfter(c) \cup (IF CoreAfter(c) = {} THEN {core} ELSE {}) :
          React(after, KitAfter(c))
    BY <1>3 DEF Perform
  <2>2. CASE c.op = "lpStartCall"
    <3>1. after = core \/ \E i \in InState("none") : after = Invite(i)
      BY <1>1, <2>1, <2>2 DEF CoreAfter
    <3> QED BY <2>1, <2>2, <3>1, CoreSteps
  <2>3. CASE c.op \in {"lpAnswer", "lpResume"}
    <3>1. after = core \/ \E i \in Ids : after = Accept(i) \/ after = Resume(i)
      BY <1>1, <2>1, <2>3 DEF CoreAfter
    <3> QED BY <2>1, <2>3, <3>1, CoreSteps
  <2>4. CASE c.op = "lpEndCall"
    <3>1. after = Terminate(Found(c))
      BY <2>1, <2>4 DEF CoreAfter
    <3> QED BY <1>1, <2>1, <3>1, CoreSteps
  <2>5. CASE c.op \notin {"lpStartCall", "lpAnswer", "lpResume", "lpEndCall"}
    <3>1. after = core \/ after = Hold(Found(c))
      BY <2>1, <2>5 DEF CoreAfter
    <3> QED BY <1>1, <2>1, <2>5, <3>1, CoreSteps
  <2> QED BY <2>2, <2>3, <2>4, <2>5
<1> QED BY <1>2, <1>3

LEMMA KitAfterTyped ==
  ASSUME NEW c, KitTyped(kit, answeredUuids)
  PROVE  KitTyped(KitAfter(c), answeredUuids)
BY DEF KitTyped, KitAfter, KitState

-----------------------------------------------------------------------------
(* The Softphone of this module is the one of Softphone_proofs.            *)
P == INSTANCE Softphone_proofs WITH
       NativeUuid <- [i \in Ids |-> i], Android <- FALSE

LEMMA FiniteIsFinite == \A s : P!IsFiniteSet(s) = IsFiniteSet(s)
BY DEF IsFiniteSet, P!IsFiniteSet

LEMMA SoftphoneAssumed == P!SoftphoneAssumption
<1>1. [i \in Ids |-> i] \in [Ids -> Uuids]
  BY DEF Uuids
<1>2. MaxObjects \in Nat /\ IsFiniteSet(Ids)
  BY ObjectsAreFinite
<1> QED BY <1>1, <1>2, FiniteIsFinite, IosCallsAssumption DEF P!SoftphoneAssumption

LEMMA NullAssumed == P!NoCallIsNull
BY NoCallIsNull DEF P!NoCallIsNull, P!Call, S!Call

LEMMA SamePhones == S!Phone = P!Phone /\ S!InitPhone = P!InitPhone
BY DEF S!Phone, P!Phone, S!InitPhone, P!InitPhone, S!Call, P!Call, S!Command, P!Command,
       S!CallState, P!CallState

(* Looking calls up. *)
LEMMA SameLookUps ==
  /\ \A p, i : S!IsListed(p, i) = P!IsListed(p, i)
  /\ \A cs : S!Oldest(cs) = P!Oldest(cs)
  /\ \A p, i : S!CallById(p, i) = P!CallById(p, i)
  /\ \A p, u : S!KeysWithUuid(p, u) = P!KeysWithUuid(p, u)
  /\ \A p, u : S!CallByUuid(p, u) = P!CallByUuid(p, u)
  /\ \A p, c : S!IsConnected(p, c) = P!IsConnected(p, c)
<1>1. \A p, i : S!IsListed(p, i) = P!IsListed(p, i)
  BY DEF S!IsListed, P!IsListed
<1>2. \A cs : S!Oldest(cs) = P!Oldest(cs)
  BY DEF S!Oldest, P!Oldest
<1>3. \A p, i : S!CallById(p, i) = P!CallById(p, i)
  BY <1>1, <1>2 DEF S!CallById, P!CallById
<1>4. \A p, u : S!KeysWithUuid(p, u) = P!KeysWithUuid(p, u)
  BY DEF S!KeysWithUuid, P!KeysWithUuid
<1>5. \A p, u : S!CallByUuid(p, u) = P!CallByUuid(p, u)
  BY <1>3 DEF S!CallByUuid, P!CallByUuid, S!KeysWithUuid, P!KeysWithUuid
<1>6. \A p, c : S!IsConnected(p, c) = P!IsConnected(p, c)
  BY DEF S!IsConnected, P!IsConnected
<1> QED BY <1>1, <1>2, <1>3, <1>4, <1>5, <1>6

(* Commands. *)
LEMMA SameCommands ==
  /\ \A p, cmds : S!Send(p, cmds) = P!Send(p, cmds)
  /\ \A o, us : S!Cmd(o, us) = P!Cmd(o, us)
  /\ \A cs : S!OwnUuids(cs) = P!OwnUuids(cs)
  /\ \A p, cs : S!DataUuids(p, cs) = P!DataUuids(p, cs)
  /\ \A cmds : S!OnAndroid(cmds) = P!OnAndroid(cmds)
  /\ \A p, cs : S!HoldCalls(p, cs) = P!HoldCalls(p, cs)
  /\ \A p, c : S!UnholdCall(p, c) = P!UnholdCall(p, c)
  /\ \A p, c, hold, fromUi : S!SetHold(p, c, hold, fromUi) = P!SetHold(p, c, hold, fromUi)
  /\ \A p, c, mute, fromUi : S!SetMute(p, c, mute, fromUi) = P!SetMute(p, c, mute, fromUi)
<1>1. \A p, cmds : S!Send(p, cmds) = P!Send(p, cmds)
  BY DEF S!Send, P!Send
<1>2. \A o, us : S!Cmd(o, us) = P!Cmd(o, us)
  BY DEF S!Cmd, P!Cmd
<1>3. \A cs : S!OwnUuids(cs) = P!OwnUuids(cs)
  BY DEF S!OwnUuids, P!OwnUuids
<1>4. \A p, cs : S!DataUuids(p, cs) = P!DataUuids(p, cs)
  BY DEF S!DataUuids, P!DataUuids
<1>5. \A cmds : S!OnAndroid(cmds) = P!OnAndroid(cmds)
  BY DEF S!OnAndroid, P!OnAndroid
<1>6. \A p, cs : S!HoldCalls(p, cs) = P!HoldCalls(p, cs)
  BY <1>1, <1>2, <1>3, <1>4, <1>5 DEF S!HoldCalls, P!HoldCalls
<1>7. \A p, c : S!UnholdCall(p, c) = P!UnholdCall(p, c)
  BY <1>1, <1>2, <1>3, <1>4, <1>5 DEF S!UnholdCall, P!UnholdCall
<1>8. \A p, c, hold, fromUi : S!SetHold(p, c, hold, fromUi) = P!SetHold(p, c, hold, fromUi)
  BY <1>6, <1>7, <1>1, <1>2, <1>3 DEF S!SetHold, P!SetHold
<1>9. \A p, c, mute, fromUi : S!SetMute(p, c, mute, fromUi) = P!SetMute(p, c, mute, fromUi)
  BY <1>1, <1>2, <1>3, <1>4 DEF S!SetMute, P!SetMute
<1> QED BY <1>1, <1>2, <1>3, <1>4, <1>5, <1>6, <1>7, <1>8, <1>9

(* The focus and the end of calls. *)
LEMMA SameFocus ==
  /\ \A p, c : S!ReportOutgoing(p, c) = P!ReportOutgoing(p, c)
  /\ \A p, c : S!MakeActiveCall(p, c) = P!MakeActiveCall(p, c)
  /\ \A p, c : S!AnswerCall(p, c) = P!AnswerCall(p, c)
  /\ \A p, c : S!EndCommands(p, c) = P!EndCommands(p, c)
  /\ \A p, c : S!Unlist(p, c) = P!Unlist(p, c)
  /\ \A p, c : S!Refocus(p, c) = P!Refocus(p, c)
  /\ \A p, c : S!RemoveCall(p, c) = P!RemoveCall(p, c)
  /\ \A p, c : S!HangUp(p, c) = P!HangUp(p, c)
  /\ \A p, c : S!Transfer(p, c) = P!Transfer(p, c)
  /\ \A p, a, b : S!CompleteAssistedTransfer(p, a, b) = P!CompleteAssistedTransfer(p, a, b)
  /\ \A p, c, s : S!SetLpCallState(p, c, s) = P!SetLpCallState(p, c, s)
<1>1. \A p, c : S!ReportOutgoing(p, c) = P!ReportOutgoing(p, c)
  BY SameCommands DEF S!ReportOutgoing, P!ReportOutgoing
<1>2. \A p, c : S!MakeActiveCall(p, c) = P!MakeActiveCall(p, c)
  BY <1>1, SameCommands DEF S!MakeActiveCall, P!MakeActiveCall
<1>3. \A p, c : S!AnswerCall(p, c) = P!AnswerCall(p, c)
  <2> TAKE p, c
  <2> QED BY SameLookUps, SameCommands, <1>2, SMTT(30) DEF S!AnswerCall,
     P!AnswerCall
<1>4. \A p, c : S!EndCommands(p, c) = P!EndCommands(p, c)
  BY SameCommands DEF S!EndCommands, P!EndCommands
<1>5. \A p, c : S!Unlist(p, c) = P!Unlist(p, c)
  <2>1. \A s : S!Cardinality(s) = P!Cardinality(s)
    BY DEF S!Cardinality, P!Cardinality
  <2> QED BY <2>1 DEF S!Unlist, P!Unlist, S!IsConnected, P!IsConnected
<1>6. \A p, c : S!Refocus(p, c) = P!Refocus(p, c)
  BY SameLookUps, SameCommands, <1>2 DEF S!Refocus, P!Refocus
<1>7. \A p, c : S!RemoveCall(p, c) = P!RemoveCall(p, c)
  BY <1>5, SameCommands, <1>4, <1>6 DEF S!RemoveCall, P!RemoveCall
<1>8. \A p, c : S!HangUp(p, c) = P!HangUp(p, c)
  BY <1>7, SameCommands DEF S!HangUp, P!HangUp
<1>9. \A p, c : S!Transfer(p, c) = P!Transfer(p, c)
  BY <1>7, SameCommands DEF S!Transfer, P!Transfer
<1>10. \A p, a, b : S!CompleteAssistedTransfer(p, a, b) = P!CompleteAssistedTransfer(p, a, b)
  BY <1>7, SameCommands DEF S!CompleteAssistedTransfer,
     P!CompleteAssistedTransfer
<1>11. \A p, c, s : S!SetLpCallState(p, c, s) = P!SetLpCallState(p, c, s)
  BY <1>7, SameCommands DEF S!SetLpCallState, P!SetLpCallState
<1> QED BY <1>1, <1>2, <1>3, <1>4, <1>5, <1>6, <1>7, <1>8, <1>9, <1>10, <1>11

(* Arriving calls and answers. *)
LEMMA SameArrivals ==
  /\ \A p, i, dir : S!NewCall(p, i, dir) = P!NewCall(p, i, dir)
  /\ \A p, c : S!Keep(p, c) = P!Keep(p, c)
  /\ \A p, i, u : S!LinkLnCallWithUuid(p, i, u) = P!LinkLnCallWithUuid(p, i, u)
  /\ \A p, c : S!AddCall(p, c) = P!AddCall(p, c)
  /\ \A p, i, u : S!OutgoingInit(p, i, u) = P!OutgoingInit(p, i, u)
  /\ \A p, i, u : S!IncomingReceived(p, i, u) = P!IncomingReceived(p, i, u)
  /\ \A p, i, u : S!AnsweredFromNotification(p, i, u) = P!AnsweredFromNotification(p, i, u)
  /\ \A p, i, u : S!AnsweredWhileOnCall(p, i, u) = P!AnsweredWhileOnCall(p, i, u)
  /\ \A p, u : S!AnswerButtonPressed(p, u) = P!AnswerButtonPressed(p, u)
  /\ \A q : S!Do(q) = P!Do(q)
<1>1. \A p, i, dir : S!NewCall(p, i, dir) = P!NewCall(p, i, dir)
  BY DEF S!NewCall, P!NewCall
<1>2. \A p, c : S!Keep(p, c) = P!Keep(p, c)
  BY DEF S!Keep, P!Keep
<1>3. \A p, i, u : S!LinkLnCallWithUuid(p, i, u) = P!LinkLnCallWithUuid(p, i, u)
  BY DEF S!LinkLnCallWithUuid, P!LinkLnCallWithUuid
<1>4. \A p, c : S!AddCall(p, c) = P!AddCall(p, c)
  BY SameLookUps, SameFocus DEF S!AddCall, P!AddCall
<1>5. \A p, i, u : S!OutgoingInit(p, i, u) = P!OutgoingInit(p, i, u)
  BY <1>1, <1>2, <1>4, <1>3 DEF S!OutgoingInit, P!OutgoingInit
<1>6. \A p, i, u : S!IncomingReceived(p, i, u) = P!IncomingReceived(p, i, u)
  BY <1>1, <1>2, <1>4, <1>3 DEF S!IncomingReceived, P!IncomingReceived
<1>7. \A p, i, u : S!AnsweredFromNotification(p, i, u) = P!AnsweredFromNotification(p, i, u)
  BY <1>1, <1>2, SameFocus, <1>4, <1>3 DEF S!AnsweredFromNotification,
     P!AnsweredFromNotification
<1>8. \A p, i, u : S!AnsweredWhileOnCall(p, i, u) = P!AnsweredWhileOnCall(p, i, u)
  <2> TAKE p, i, u
  <2> QED BY <1>1, <1>2, <1>3, SameFocus, SameCommands, SMTT(30) DEF
     S!AnsweredWhileOnCall, P!AnsweredWhileOnCall
<1>9. \A p, u : S!AnswerButtonPressed(p, u) = P!AnswerButtonPressed(p, u)
  BY SameLookUps, SameFocus DEF S!AnswerButtonPressed, P!AnswerButtonPressed
<1>10. \A q : S!Do(q) = P!Do(q)
  BY DEF S!Do, P!Do
<1> QED BY <1>1, <1>2, <1>3, <1>4, <1>5, <1>6, <1>7, <1>8, <1>9, <1>10

LEMMA SameTaps ==
  /\ S!Dial \/ S!AssistedTransfer \/ S!TapTransfer => P!Dial \/ P!AssistedTransfer \/ P!TapTransfer
  /\ S!TapAnswer \/ S!TapHangUp \/ S!TapRow => P!TapAnswer \/ P!TapHangUp \/ P!TapRow
  /\ S!TapHold \/ S!TapMute => P!TapHold \/ P!TapMute
  /\ S!TapCompleteTransfer => P!TapCompleteTransfer
  /\ \A i : S!SaveDisposition(i) => P!SaveDisposition(i)
<1>1. /\ S!ConnectedRows = P!ConnectedRows /\ S!IncomingPopup = P!IncomingPopup
      /\ S!ActiveRinging = P!ActiveRinging /\ S!ActiveConnected = P!ActiveConnected
      /\ S!HoldState = P!HoldState /\ S!Dialled = P!Dialled
  <2>1. S!ConnectedRows = P!ConnectedRows
    BY DEF S!ConnectedRows, P!ConnectedRows, S!IsConnected, P!IsConnected
  <2>2. S!Waiting = P!Waiting
    BY DEF S!Waiting, P!Waiting, S!IsConnected, P!IsConnected
  <2>3. S!IncomingPopup = P!IncomingPopup
    BY <2>2 DEF S!IncomingPopup, P!IncomingPopup
  <2>4. S!ActiveRinging = P!ActiveRinging /\ S!ActiveConnected = P!ActiveConnected
    BY SameLookUps DEF S!ActiveRinging, P!ActiveRinging, S!ActiveConnected, P!ActiveConnected
  <2>5. S!HoldState = P!HoldState /\ S!Dialled = P!Dialled
    BY SameCommands DEF S!HoldState, P!HoldState, S!Dialled, P!Dialled
  <2> QED BY <2>1, <2>3, <2>4, <2>5
<1>2. S!Dial \/ S!AssistedTransfer \/ S!TapTransfer => P!Dial \/ P!AssistedTransfer \/ P!TapTransfer
  BY <1>1, SameCommands, SameFocus, SameArrivals
     DEF S!Dial, P!Dial, S!AssistedTransfer, P!AssistedTransfer, S!TapTransfer, P!TapTransfer
<1>3. S!TapAnswer \/ S!TapHangUp \/ S!TapRow => P!TapAnswer \/ P!TapHangUp \/ P!TapRow
  BY <1>1, SameFocus, SameArrivals
     DEF S!TapAnswer, P!TapAnswer, S!TapHangUp, P!TapHangUp, S!TapRow, P!TapRow
<1>4. S!TapHold \/ S!TapMute => P!TapHold \/ P!TapMute
  BY <1>1, SameCommands, SameArrivals DEF S!TapHold, P!TapHold, S!TapMute, P!TapMute
<1>5. S!TapCompleteTransfer => P!TapCompleteTransfer
  BY <1>1, SameFocus, SameArrivals DEF S!TapCompleteTransfer, P!TapCompleteTransfer
<1>6. \A i : S!SaveDisposition(i) => P!SaveDisposition(i)
  BY SameArrivals DEF S!SaveDisposition, P!SaveDisposition
<1> QED BY <1>2, <1>3, <1>4, <1>5, <1>6

(* Every step of the one instance is a step of the other. *)
LEMMA SameSteps == S!Next => P!Next
<1>1. ASSUME NEW i \in Ids, S!CallAnnounced(i) PROVE P!CallAnnounced(i)
  BY <1>1, SameArrivals DEF S!CallAnnounced, P!CallAnnounced, S!Announce, P!Announce
<1>2. ASSUME NEW u, NEW s, S!LinphoneState(u, s) PROVE P!LinphoneState(u, s)
  BY <1>2, SameLookUps, SameFocus, SameArrivals DEF S!LinphoneState, P!LinphoneState
<1>3. ASSUME NEW u, S!CallKitButton(u) PROVE P!CallKitButton(u)
  BY <1>3, SameLookUps, SameCommands, SameFocus, SameArrivals
     DEF S!CallKitButton, P!CallKitButton
<1>4. S!User => P!User
  BY SameTaps DEF S!User, P!User
<1> QED BY <1>1, <1>2, <1>3, <1>4 DEF S!Next, P!Next, S!CallState, P!CallState

-----------------------------------------------------------------------------
(* Dart never hears of a call before it begins, nor twice: what is to be   *)
(* announced has begun and is not a key of callData yet.                   *)
AnnouncedOnce ==
  /\ \A k \in 1..Len(toDart) : toDart[k].op \in Announcements =>
       /\ toDart[k].id \in Ids /\ core[toDart[k].id] # "none"
       /\ ~P!Keyed(phone, toDart[k].id)
       /\ \A l \in 1..Len(toDart) : Announces(toDart[l], toDart[k].id) => l = k
  /\ \A i \in Ids : core[i] = "none" => ~P!Keyed(phone, i)

KeyedIds(p) == {i \in Ids : P!Keyed(p, i)}

(* No call goes on unseen, for each call that has its own uuid. *)
Watched(i) ==
  phone.uuid[i] \in {i, NoUuid} =>
    S!IsListed(phone, i) \/ Pending(Announcements, i) \/ EndIn(phone.out, i)

(* What the Softphone object alone has to fulfil. *)
PhoneInv(p) == Linked(p) /\ P!IosInv(p) /\ p.created <= Cardinality(KeyedIds(p))

Seen ==
  /\ PhoneInv(phone) /\ core \in [Ids -> CoreState]
  /\ toDart \in Seq(Event) /\ requests \in Seq(Action)
  /\ KitTyped(kit, answeredUuids)
  /\ AnnouncedOnce
  /\ \A i \in LiveCalls : Watched(i)

-----------------------------------------------------------------------------
(* The object of Softphone. *)
LEMMA InitPhoneInv == PhoneInv(S!InitPhone)
<1> DEFINE p == S!InitPhone
<1>1. /\ p.calls = {} /\ p.activeCall = NoCall /\ p.created = 0
      /\ p.uuid = [i \in Ids |-> NoUuid] /\ p.out = <<>> /\ p.keys = <<>>
      /\ p.endedCalls = [i \in Ids |-> 0]
  BY DEF S!InitPhone
<1>2. <<>> \in Seq(S!Command) /\ <<>> \in Seq(Ids)
  <2> HIDE DEF S!Command
  <2> QED OBVIOUS
<1>3. Linked(p)
  <2> HIDE DEF p
  <2>1. DOMAIN p = DOMAIN S!InitPhone
    BY DEF p
  <2> QED BY <1>1, <1>2, <2>1 DEF Linked
<1>4. p \in S!Phone
  <2>1. 0 \in 0..MaxObjects
    BY ObjectsAreFinite
  <2> QED BY <1>2, <2>1 DEF S!InitPhone, S!Phone, S!CallState
<1> HIDE DEF p
<1>5. P!Sound(p)
  <2>1. IsFiniteSet(p.calls)
    BY <1>1, FS_EmptySet
  <2> QED BY <1>4, <2>1, SamePhones, FiniteIsFinite DEF P!Sound
<1>6. P!IosInv(p)
  BY <1>1, <1>5 DEF P!IosInv, P!OneObject, P!FocusListed, P!AllKeyed, P!Keyed
<1>7. p.created <= Cardinality(KeyedIds(p))
  <2>1. KeyedIds(p) = {}
    BY <1>1 DEF KeyedIds, P!Keyed
  <2> QED BY <1>1, <2>1, FS_EmptySet
<1> QED BY <1>3, <1>6, <1>7 DEF PhoneInv, p

LEMMA KeyedAreFinite ==
  ASSUME NEW p
  PROVE  /\ IsFiniteSet(KeyedIds(p)) /\ Cardinality(KeyedIds(p)) \in Nat
         /\ KeyedIds(p) \in SUBSET Ids
<1>1. KeyedIds(p) \in SUBSET Ids
  BY DEF KeyedIds
<1> QED BY <1>1, ObjectsAreFinite, FS_Subset, FS_CardinalityType

(* There is an object left for a call that is not a key of callData. *)
LEMMA ObjectIsLeft ==
  ASSUME PhoneInv(phone), NEW i \in Ids, ~P!Keyed(phone, i)
  PROVE  phone.created < MaxObjects
<1> DEFINE K == KeyedIds(phone)
<1>1. /\ IsFiniteSet(K) /\ Cardinality(K) \in Nat /\ K \in SUBSET Ids /\ i \notin K
  BY KeyedAreFinite DEF KeyedIds
<1> HIDE DEF K
<1>2. Cardinality(K) <= Cardinality(Ids) /\ (Cardinality(Ids) = Cardinality(K) => Ids = K)
  BY <1>1, ObjectsAreFinite, FS_Subset
<1>3. Cardinality(K) < MaxObjects
  BY <1>1, <1>2, ObjectsAreFinite, IosCallsAssumption
<1>4. phone.created <= Cardinality(K) /\ phone.created \in Nat
  BY DEF K, PhoneInv, Linked
<1> QED BY <1>1, <1>3, <1>4, ObjectsAreFinite

(* Of the keys of callData a step adds only that of a call it announces. *)
LEMMA StepOfPhone ==
  ASSUME P!IosInv(phone), S!Next \/ phone' = phone
  PROVE  /\ P!Handled(phone, phone') /\ P!IosInv(phone')
<1>1. [P!Next]_(P!vars) /\ P!Sound(phone)
  BY SameSteps DEF P!vars, P!IosInv
<1>2. P!Handled(phone, phone')
  BY <1>1, SoftphoneAssumed, NullAssumed, P!NextHandled
<1>3. P!IosInv(phone')
  BY <1>2, SoftphoneAssumed, NullAssumed, P!HandledIos
<1> QED BY <1>2, <1>3

LEMMA CreatedAreKeyed ==
  ASSUME PhoneInv(phone), P!Handled(phone, phone'), P!IosInv(phone')
  PROVE  phone'.created <= Cardinality(KeyedIds(phone'))
<1> DEFINE K == KeyedIds(phone)
           L == KeyedIds(phone')
<1>1. phone.created <= Cardinality(K) /\ phone.created \in Nat
  BY DEF PhoneInv, Linked
<1>2. Cardinality(K) \in Nat /\ IsFiniteSet(K)
  BY KeyedAreFinite
<1>3. ASSUME phone'.created = phone.created, phone'.keys = phone.keys
      PROVE  phone'.created <= Cardinality(L)
  <2>1. K = L
    BY <1>3 DEF KeyedIds, P!Keyed
  <2> QED BY <1>1, <1>3, <2>1
<1>4. ASSUME NEW i \in Ids, ~P!Keyed(phone, i), P!Announced(phone, i, phone')
      PROVE  phone'.created <= Cardinality(L)
  <2>1. /\ \A j \in Ids : P!Keyed(phone, j) => P!Keyed(phone', j)
        /\ \A j \in Ids \ {i} : P!Keyed(phone', j) => P!Keyed(phone, j)
    BY <1>4 DEF P!Announced
  <2>2. L = K \/ L = K \cup {i}
    BY <2>1 DEF KeyedIds
  <2>3. i \notin K
    BY <1>4 DEF KeyedIds
  <2>4. ~P!IsListed(phone, i)
    BY <1>4 DEF P!IsListed, PhoneInv, P!IosInv, P!AllKeyed
  <2>5. PICK c \in P!Call :
          /\ c.id = i /\ c.n = phone.created + 1
          /\ phone'.created \in {phone.created, c.n}
          /\ c \in phone'.calls \/ P!Rested(phone, phone')
    BY <1>4, <2>4 DEF P!Announced
  <2>6. CASE P!Rested(phone, phone')
    BY <1>3, <2>6 DEF P!Rested, P!SameList
  <2>7. CASE c \in phone'.calls
    <3>1. P!Keyed(phone', i)
      BY <2>5, <2>7 DEF P!IosInv, P!AllKeyed
    <3>2. L = K \cup {i}
      BY <2>2, <2>3, <3>1 DEF KeyedIds
    <3> HIDE DEF K, L
    <3>3. Cardinality(L) = Cardinality(K) + 1
      BY <1>2, <2>3, <3>2, FS_AddElement
    <3> QED BY <1>1, <1>2, <2>5, <3>3
  <2> QED BY <2>5, <2>6, <2>7
<1>5. CASE P!Kept(phone, phone')
  BY <1>3, <1>5 DEF P!Kept, P!Rested, P!Attended, P!Saved, P!SameList
<1>6. CASE \E c \in P!Known(phone) : P!Removed(phone, c, phone')
  BY <1>3, <1>6 DEF P!Removed
<1>7. CASE \E a \in P!Known(phone), b \in phone.calls, r \in P!Phone :
             a.id # b.id /\ P!Removed(phone, a, r) /\ P!Removed(r, b, phone')
  BY <1>3, <1>7 DEF P!Removed
<1> QED BY <1>4, <1>5, <1>6, <1>7 DEF P!Handled, P!Ended

LEMMA AnnouncedKeys ==
  ASSUME PhoneInv(phone), NEW i \in Ids, Announced(phone, phone', i),
         P!Handled(phone, phone')
  PROVE  \A j \in Ids \ {i} : P!Keyed(phone', j) => P!Keyed(phone, j)
<1>1. ASSUME phone'.keys = phone.keys
      PROVE  \A j : P!Keyed(phone', j) => P!Keyed(phone, j)
  BY <1>1 DEF P!Keyed
<1>2. ASSUME NEW k \in Ids, ~P!Keyed(phone, k), P!Announced(phone, k, phone')
      PROVE  \A j \in Ids \ {i} : P!Keyed(phone', j) => P!Keyed(phone, j)
  <2>1. \A j \in Ids \ {k} : P!Keyed(phone', j) => P!Keyed(phone, j)
    BY <1>2 DEF P!Announced
  <2>2. CASE k = i
    BY <2>1, <2>2
  <2>3. CASE k # i
    <3>1. \A c \in phone.calls : c.id # k
      BY <1>2 DEF PhoneInv, P!IosInv, P!AllKeyed
    <3>2. \A c \in phone'.calls : c.id # k
      BY <2>3, <3>1 DEF Announced, S!IsListed
    <3>3. P!Rested(phone, phone')
      BY <1>2, <3>1, <3>2 DEF P!Announced, P!IsListed
    <3> QED BY <1>1, <3>3 DEF P!Rested, P!SameList
  <2> QED BY <2>2, <2>3
<1> QED BY <1>1, <1>2 DEF P!Handled, P!Ended, P!Kept, P!Rested, P!Attended, P!Saved, P!SameList, P!Removed

(* A step that lists no call links none. *)
LEMMA KeysStay ==
  ASSUME PhoneInv(phone), P!Handled(phone, phone'), phone'.calls \subseteq phone.calls
  PROVE  phone'.keys = phone.keys
<1>1. ASSUME NEW i \in Ids, ~P!Keyed(phone, i), P!Announced(phone, i, phone')
      PROVE  phone'.keys = phone.keys
  <2>1. \A c \in phone.calls : c.id # i
    BY <1>1 DEF PhoneInv, P!IosInv, P!AllKeyed
  <2>2. P!Rested(phone, phone')
    BY <1>1, <2>1 DEF P!Announced, P!IsListed
  <2> QED BY <2>2 DEF P!Rested, P!SameList
<1> QED BY <1>1 DEF P!Handled, P!Ended, P!Kept, P!Rested, P!Attended, P!Saved, P!SameList, P!Removed

LEMMA TakenKeeps ==
  ASSUME PhoneInv(phone), phone.out # <<>>, phone' = [phone EXCEPT !.out = Tail(@)]
  PROVE  /\ PhoneInv(phone') /\ phone'.calls = phone.calls /\ phone'.uuid = phone.uuid
         /\ phone'.keys = phone.keys /\ phone'.out = Tail(phone.out)
<1> DEFINE t == Tail(phone.out)
<1>1. phone.out \in Seq(S!Command) /\ t \in Seq(S!Command)
  <2>1. phone.out \in Seq(S!Command)
    BY DEF PhoneInv, Linked
  <2> HIDE DEF S!Command
  <2> QED BY <2>1, HeadTailProperties
<1>2. phone \in S!Phone
  BY SamePhones DEF PhoneInv, P!IosInv, P!Sound
<1>3. /\ DOMAIN phone' = DOMAIN phone /\ phone'.calls = phone.calls
      /\ phone'.activeCall = phone.activeCall /\ phone'.created = phone.created
      /\ phone'.uuid = phone.uuid /\ phone'.keys = phone.keys /\ phone'.out = t
      /\ phone'.endedCalls = phone.endedCalls
  BY DEF PhoneInv, Linked, S!InitPhone
<1>4. phone' \in S!Phone
  <2> HIDE DEF t
  <2>1. phone' = [phone EXCEPT !.out = t]
    BY DEF t
  <2> QED BY <1>1, <1>2, <2>1 DEF S!Phone
<1> HIDE DEF t
<1>5. Linked(phone')
  BY <1>1, <1>3 DEF PhoneInv, Linked
<1>6. P!IosInv(phone')
  BY <1>3, <1>4, SamePhones DEF PhoneInv, P!IosInv, P!Sound, P!OneObject, P!FocusListed,
     P!AllKeyed, P!Keyed
<1>7. KeyedIds(phone') = KeyedIds(phone)
  BY <1>3 DEF KeyedIds, P!Keyed
<1> QED BY <1>3, <1>5, <1>6, <1>7 DEF PhoneInv, t

-----------------------------------------------------------------------------
(* The core and CallKit move; of Dart at most the channel does.            *)
LEMMA ConcatSplits ==
  ASSUME NEW T, NEW s \in Seq(T), NEW t \in Seq(T)
  PROVE  /\ s \o t \in Seq(T) /\ Len(s) \in Nat /\ Len(t) \in Nat
         /\ Len(s \o t) = Len(s) + Len(t)
         /\ \A k \in 1..Len(s \o t) :
              \/ k \in 1..Len(s) /\ (s \o t)[k] = s[k]
              \/ k - Len(s) \in 1..Len(t) /\ (s \o t)[k] = t[k - Len(s)]
<1>1. Len(s) \in Nat /\ Len(t) \in Nat
  BY LenProperties
<1>2. /\ s \o t \in Seq(T) /\ Len(s \o t) = Len(s) + Len(t)
      /\ \A k \in 1..Len(s) + Len(t) :
           (s \o t)[k] = IF k <= Len(s) THEN s[k] ELSE t[k - Len(s)]
  BY ConcatProperties
<1>3. ASSUME NEW k \in 1..Len(s) + Len(t)
      PROVE  k \in 1..Len(s) \/ (~(k <= Len(s)) /\ k - Len(s) \in 1..Len(t))
  BY <1>1
<1> QED BY <1>1, <1>2, <1>3

LEMMA PendingGrows ==
  ASSUME toDart \in Seq(Event), toDart' \in Seq(Event), Grows(toDart, toDart'),
         NEW ops, NEW i, Pending(ops, i)
  PROVE  Pending(ops, i)'
<1>1. /\ Len(toDart) \in Nat /\ Len(toDart') \in Nat
      /\ DOMAIN toDart = 1..Len(toDart) /\ DOMAIN toDart' = 1..Len(toDart')
  BY LenProperties
<1> QED BY <1>1 DEF Pending, Grows

LEMMA AnnouncedOnceReact ==
  ASSUME AnnouncedOnce, toDart \in Seq(Event), NEW c, CoreStep(c), core' = c,
         NEW r \in Seq(Event), toDart' = toDart \o r, Reported(c, r),
         phone'.keys = phone.keys
  PROVE  AnnouncedOnce'
<1> DEFINE n == Len(toDart)
<1>1. /\ toDart' \in Seq(Event) /\ n \in Nat /\ Len(r) \in Nat
      /\ \A k \in 1..Len(toDart') :
           \/ k \in 1..n /\ toDart'[k] = toDart[k]
           \/ k - n \in 1..Len(r) /\ toDart'[k] = r[k - n]
  <2> HIDE DEF Event
  <2> QED BY ConcatSplits
<1>2. \A i : P!Keyed(phone', i) <=> P!Keyed(phone, i)
  BY DEF P!Keyed
<1>3. \A i \in Ids : core'[i] = "none" => core[i] = "none"
  BY DEF CoreStep
<1>4. ASSUME NEW k \in 1..Len(toDart'), toDart'[k].op \in Announcements
      PROVE  LET i == toDart'[k].id
             IN  /\ i \in Ids /\ core'[i] # "none" /\ ~P!Keyed(phone', i)
                 /\ \A l \in 1..Len(toDart') : Announces(toDart'[l], i) => l = k
  <2> DEFINE i == toDart'[k].id
  <2>1. CASE k \in 1..n /\ toDart'[k] = toDart[k]
    <3>1. /\ i \in Ids /\ core[i] # "none" /\ ~P!Keyed(phone, i)
          /\ \A l \in 1..n : Announces(toDart[l], i) => l = k
      BY <1>4, <2>1 DEF AnnouncedOnce
    <3>2. \A l \in 1..Len(r) : ~Announces(r[l], i)
      BY <3>1 DEF Reported, Announces
    <3> HIDE DEF n
    <3>3. \A l \in 1..Len(toDart') : Announces(toDart'[l], i) => l = k
      BY <1>1, <3>1, <3>2
    <3> QED BY <1>2, <1>3, <3>1, <3>3
  <2>2. CASE k - n \in 1..Len(r) /\ toDart'[k] = r[k - n]
    <3>1. k - n = 1 /\ i \in Ids /\ core[i] = "none" /\ c[i] # "none"
      BY <1>4, <2>2 DEF Reported
    <3>2. \A l \in 1..n : ~Announces(toDart[l], i)
      BY <3>1 DEF AnnouncedOnce, Announces
    <3>3. \A l \in 1..Len(r) : Announces(r[l], i) => l = 1
      BY DEF Reported, Announces
    <3>4. ~P!Keyed(phone, i)
      BY <3>1 DEF AnnouncedOnce
    <3> HIDE DEF n, i
    <3>5. \A l \in 1..Len(toDart') : Announces(toDart'[l], i) => l = k
      <4> TAKE l \in 1..Len(toDart')
      <4> HAVE Announces(toDart'[l], i)
      <4>1. l - n \in 1..Len(r) /\ toDart'[l] = r[l - n]
        BY <1>1, <3>2
      <4>2. l - n = 1
        BY <3>3, <4>1
      <4> QED BY <1>1, <3>1, <4>2
    <3> QED BY <1>2, <3>1, <3>4, <3>5 DEF i
  <2> QED BY <1>1, <2>1, <2>2
<1>5. \A i \in Ids : core'[i] = "none" => ~P!Keyed(phone', i)
  BY <1>2, <1>3 DEF AnnouncedOnce
<1> QED BY <1>4, <1>5 DEF AnnouncedOnce

LEMMA SeenReact ==
  ASSUME Seen, NEW c, CoreStep(c), core' = c,
         NEW r \in Seq(Event), toDart' = toDart \o r, Reported(c, r),
         PhoneInv(phone'), phone'.calls = phone.calls, phone'.uuid = phone.uuid,
         phone'.keys = phone.keys,
         \A i \in LiveCalls' : EndIn(phone.out, i) => EndIn(phone'.out, i),
         requests' \in Seq(Action), KitTyped(kit', answeredUuids')
  PROVE  Seen'
<1>1. toDart \in Seq(Event) /\ AnnouncedOnce
  BY DEF Seen
<1>2. AnnouncedOnce'
  BY <1>1, AnnouncedOnceReact
<1>3. /\ toDart' \in Seq(Event) /\ Grows(toDart, toDart')
      /\ \A k \in 1..Len(r) : Len(toDart) + k \in 1..Len(toDart') /\ toDart'[Len(toDart) + k] = r[k]
  <2> HIDE DEF Event
  <2> QED BY <1>1, ConcatGrows
<1>4. DOMAIN toDart' = 1..Len(toDart')
  BY <1>3, LenProperties
<1>5. ASSUME NEW i \in LiveCalls'
      PROVE  Watched(i)'
  <2>1. i \in Ids /\ c[i] \notin {"none", "released"} /\ core[i] # "released"
    BY <1>5 DEF LiveCalls, CoreStep
  <2>2. CASE core[i] = "none"
    <3>1. PICK k \in 1..Len(r) : Announces(r[k], i)
      BY <2>1, <2>2 DEF Reported
    <3>2. Pending(Announcements, i)'
      BY <1>3, <1>4, <3>1 DEF Pending, Announces
    <3> QED BY <3>2 DEF Watched
  <2>3. CASE core[i] # "none"
    <3>1. Watched(i)
      BY <2>1, <2>3 DEF Seen, LiveCalls
    <3>2. S!IsListed(phone, i) => S!IsListed(phone', i)
      BY DEF S!IsListed
    <3>3. Pending(Announcements, i) => Pending(Announcements, i)'
      BY <1>1, <1>3, PendingGrows
    <3> QED BY <1>5, <3>1, <3>2, <3>3 DEF Watched
  <2> QED BY <2>2, <2>3
<1>6. core' \in [Ids -> CoreState]
  BY DEF CoreStep
<1> QED BY <1>2, <1>3, <1>5, <1>6 DEF Seen

(* CallKit or native code tells Dart at most one thing that is no          *)
(* announcement.                                                           *)
LEMMA SeenTells ==
  ASSUME Seen, UNCHANGED core, requests' \in Seq(Action), KitTyped(kit', answeredUuids'),
         PhoneInv(phone'), phone'.calls = phone.calls, phone'.uuid = phone.uuid,
         phone'.keys = phone.keys,
         \A i \in LiveCalls' : EndIn(phone.out, i) => EndIn(phone'.out, i),
         \/ toDart' = toDart
         \/ \E e \in Event : e.op \notin Announcements /\ toDart' = Append(toDart, e)
  PROVE  Seen'
<1>1. CoreStep(core) /\ toDart \in Seq(Event)
  BY CoreSteps DEF Seen
<1>2. ASSUME NEW r \in Seq(Event), \A k \in 1..Len(r) : r[k].op \notin Announcements
      PROVE  Reported(core, r)
  BY <1>2 DEF Reported
<1>3. CASE toDart' = toDart
  <2>1. /\ <<>> \in Seq(Event) /\ toDart' = toDart \o <<>>
        /\ \A k \in 1..Len(<<>>) : <<>>[k].op \notin Announcements
    <3> HIDE DEF Event
    <3> QED BY <1>1, <1>3, EmptySeq, ConcatEmptySeq
  <2>2. Reported(core, <<>>)
    BY <1>2, <2>1
  <2> QED BY <1>1, <2>1, <2>2, SeenReact
<1>4. CASE \E e \in Event : e.op \notin Announcements /\ toDart' = Append(toDart, e)
  <2>1. PICK e \in Event : e.op \notin Announcements /\ toDart' = Append(toDart, e)
    BY <1>4
  <2>2. /\ <<e>> \in Seq(Event) /\ toDart' = toDart \o <<e>>
        /\ Len(<<e>>) = 1 /\ <<e>>[1] = e
    <3> HIDE DEF Event
    <3> QED BY <1>1, <2>1, AppendIsConcat
  <2>3. \A k \in 1..Len(<<e>>) : <<e>>[k].op \notin Announcements
    BY <2>1, <2>2
  <2>4. Reported(core, <<e>>)
    BY <1>2, <2>2, <2>3
  <2> QED BY <1>1, <2>2, <2>4, SeenReact
<1> QED BY <1>3, <1>4

LEMMA SeenPerforms ==
  ASSUME Seen, NEW o, NEW u \in Uuids, Performs(o, u) \/ Refuses(o, u),
         UNCHANGED <<phone, core, answeredUuids>>, requests' \in Seq(Action)
  PROVE  Seen'
<1>1. kit' \in [Uuids -> KitState]
  <2>1. kit \in [Uuids -> KitState]
    BY DEF Seen, KitTyped
  <2> QED BY <2>1 DEF Performs, Refuses, KitState
<1>2. \/ toDart' = toDart
      \/ \E b \in Buttons : toDart' = Append(toDart, Ev(b, u))
  BY DEF Performs, Refuses, Buttons
<1>3. \A b \in Buttons : Ev(b, u) \in Event /\ Ev(b, u).op \notin Announcements
  BY EvType DEF Buttons, Announcements
<1>4. KitTyped(kit', answeredUuids')
  BY <1>1 DEF Seen, KitTyped
<1>5. PhoneInv(phone')
  BY DEF Seen
<1>6. \/ toDart' = toDart
      \/ \E e \in Event : e.op \notin Announcements /\ toDart' = Append(toDart, e)
  BY <1>2, <1>3
<1> QED BY <1>4, <1>5, <1>6, SeenTells

LEMMA SeenKit ==
  ASSUME Seen, \/ KitPerforms
               \/ \E u \in Uuids : SystemButton(u) \/ CallChanged(u) \/ PushArrives(u)
                                     \/ RingingTimer(u)
  PROVE  Seen'
<1>1. CASE KitPerforms
  <2>1. requests \in Seq(Action) /\ requests # <<>>
    BY <1>1 DEF Seen, KitPerforms
  <2>2. Head(requests) \in Action /\ Tail(requests) \in Seq(Action)
    <3> HIDE DEF Action
    <3> QED BY <2>1, HeadTailProperties
  <2> DEFINE a == Head(requests)
  <2>3. a.to \in Uuids /\ (Performs(a.op, a.to) \/ Refuses(a.op, a.to))
    BY <1>1, <2>2 DEF Action, KitPerforms
  <2>4. UNCHANGED <<phone, core, answeredUuids>> /\ requests' \in Seq(Action)
    BY <1>1, <2>2 DEF KitPerforms
  <2> QED BY <2>3, <2>4, SeenPerforms
<1>2. ASSUME NEW u \in Uuids, SystemButton(u) PROVE Seen'
  <2>1. \E o : Performs(o, u)
    BY <1>2 DEF SystemButton
  <2>2. UNCHANGED <<phone, core, answeredUuids>> /\ requests' \in Seq(Action)
    BY <1>2 DEF SystemButton, Seen
  <2> QED BY <2>1, <2>2, SeenPerforms
<1>3. ASSUME NEW u \in Uuids, CallChanged(u) \/ PushArrives(u) \/ RingingTimer(u)
      PROVE  Seen'
  <2>1. KitTyped(kit, answeredUuids)
    BY DEF Seen
  <2>2. KitTyped(kit', answeredUuids')
    <3>1. CASE CallChanged(u)
      BY <2>1, <3>1 DEF CallChanged, KitTyped
    <3>2. CASE PushArrives(u)
      BY <2>1, <3>2 DEF PushArrives, KitTyped, KitState
    <3>3. CASE RingingTimer(u)
      BY <2>1, <3>3, TimerKeepsKit DEF RingingTimer
    <3> QED BY <1>3, <3>1, <3>2, <3>3
  <2>3. UNCHANGED <<phone, core, toDart, requests>>
    BY <1>3 DEF CallChanged, PushArrives, RingingTimer
  <2>4. PhoneInv(phone') /\ requests' \in Seq(Action)
    BY <2>3 DEF Seen
  <2> QED BY <2>2, <2>3, <2>4, SeenTells
<1> QED BY <1>1, <1>2, <1>3

LEMMA SeenCoreActs ==
  ASSUME Seen, NEW i \in Ids, CoreActs(i)
  PROVE  Seen'
<1>1. /\ core \in [Ids -> CoreState] /\ KitTyped(kit, answeredUuids) /\ toDart \in Seq(Event)
      /\ UNCHANGED <<phone, requests>>
  BY DEF Seen, CoreActs
<1>2. PICK c : CoreStep(c) /\ React(c, kit)
  <2>1. {i} \in SUBSET Ids
    OBVIOUS
  <2> QED BY <1>1, <2>1, CoreSteps, OwnCoreSteps DEF CoreActs
<1>3. core' = c /\ KitTyped(kit', answeredUuids')
  BY <1>1, <1>2, ReactReports
<1>4. PICK r \in Seq(Event) : toDart' = toDart \o r /\ Reported(c, r)
  BY <1>1, <1>2, ReactReports
<1>5. PhoneInv(phone') /\ requests' \in Seq(Action)
  BY <1>1 DEF Seen
<1> QED BY <1>1, <1>2, <1>3, <1>4, <1>5, SeenReact

LEMMA SeenPerform ==
  ASSUME Seen, NativeCommand, Perform(Head(phone.out))
  PROVE  Seen'
<1> DEFINE h == Head(phone.out)
           t == Tail(phone.out)
<1>1. /\ phone.out # <<>> /\ phone.out \in Seq(S!Command)
      /\ core \in [Ids -> CoreState] /\ KitTyped(kit, answeredUuids)
      /\ toDart \in Seq(Event) /\ requests \in Seq(Action) /\ PhoneInv(phone)
  BY DEF NativeCommand, Seen, PhoneInv, Linked
<1>2. /\ phone' = [phone EXCEPT !.out = Tail(@)] /\ requests' = requests \o Asks(h)
  BY DEF Perform
<1>3. /\ h \in S!Command /\ t \in Seq(S!Command)
      /\ Len(phone.out) \in Nat \ {0} /\ Len(t) = Len(phone.out) - 1
      /\ h = phone.out[1] /\ \A k \in 1..Len(t) : t[k] = phone.out[k + 1]
  <2> HIDE DEF S!Command
  <2> QED BY <1>1, HeadTailProperties, EmptySeq, LenProperties
<1>4. /\ PhoneInv(phone') /\ phone'.calls = phone.calls /\ phone'.uuid = phone.uuid
      /\ phone'.keys = phone.keys /\ phone'.out = t
  BY <1>1, <1>2, TakenKeeps
<1>5. requests' \in Seq(Action)
  <2>1. Asks(h) \in Seq(Action)
    BY <1>3, AsksType
  <2> HIDE DEF Action, h
  <2> QED BY <1>1, <1>2, <2>1, ConcatProperties
<1>6. ASSUME NEW i, EndIn(phone.out, i), ~(h.op = "lpEndCall" /\ i \in h.to)
      PROVE  EndIn(phone'.out, i)
  <2>1. PICK k \in 1..Len(phone.out) : phone.out[k].op = "lpEndCall" /\ i \in phone.out[k].to
    BY <1>6 DEF EndIn
  <2>2. k # 1
    BY <1>3, <1>6, <2>1
  <2> HIDE DEF h, t
  <2>3. k - 1 \in 1..Len(t) /\ t[k - 1] = phone.out[k]
    BY <1>3, <2>1, <2>2
  <2> QED BY <1>4, <2>1, <2>3 DEF EndIn
<1> HIDE DEF t
<1>7. \/ /\ \E u \in Uuids : toDart' = Append(toDart, Ev("lnCallConnected", u))
         /\ h.op = "lpResume" /\ UNCHANGED <<core, kit, answeredUuids>>
      \/ \E after : /\ CoreStep(after) /\ React(after, KitAfter(h))
                    /\ h.op = "lpEndCall" => after = Terminate(Found(h))
  <2> HIDE DEF h
  <2>1. Perform(h)
    BY DEF h
  <2> QED BY <1>1, <1>3, <2>1, CommandReacts
<1> HIDE DEF h
<1>8. CASE /\ \E u \in Uuids : toDart' = Append(toDart, Ev("lnCallConnected", u))
           /\ h.op = "lpResume" /\ UNCHANGED <<core, kit, answeredUuids>>
  <2>1. \E e \in Event : e.op \notin Announcements /\ toDart' = Append(toDart, e)
    <3>1. "lnCallConnected" \in EventOp \ Announcements
      BY DEF EventOp, Announcements, ShownAs
    <3>2. PICK u \in Uuids : toDart' = Append(toDart, Ev("lnCallConnected", u))
      BY <1>8
    <3>3. Ev("lnCallConnected", u) \in Event /\ Ev("lnCallConnected", u).op \notin Announcements
      BY <3>1, EvType
    <3> QED BY <3>2, <3>3
  <2>2. \A i \in LiveCalls' : EndIn(phone.out, i) => EndIn(phone'.out, i)
    BY <1>6, <1>8
  <2>3. KitTyped(kit', answeredUuids')
    BY <1>1, <1>8
  <2> QED BY <1>4, <1>5, <1>8, <2>1, <2>2, <2>3, SeenTells
<1>9. CASE \E after : /\ CoreStep(after) /\ React(after, KitAfter(h))
                      /\ h.op = "lpEndCall" => after = Terminate(Found(h))
  <2>1. PICK c : /\ CoreStep(c) /\ React(c, KitAfter(h))
                 /\ h.op = "lpEndCall" => c = Terminate(Found(h))
    BY <1>9
  <2>2. KitTyped(KitAfter(h), answeredUuids)
    BY <1>1, KitAfterTyped
  <2>3. core' = c /\ KitTyped(kit', answeredUuids')
    BY <1>1, <2>1, <2>2, ReactReports
  <2>4. PICK r \in Seq(Event) : toDart' = toDart \o r /\ Reported(c, r)
    BY <1>1, <2>1, <2>2, ReactReports
  <2>5. ASSUME NEW i \in LiveCalls', EndIn(phone.out, i)
        PROVE  EndIn(phone'.out, i) \/ core[i] = "none"
    <3>1. i \in Ids /\ c[i] \notin {"none", "released"}
      BY <2>3, <2>5 DEF LiveCalls
    <3>2. h.op = "lpEndCall" /\ i \in h.to => core[i] = "none"
      <4>1. SUFFICES ASSUME h.op = "lpEndCall", i \in h.to, core[i] # "none" PROVE FALSE
        OBVIOUS
      <4>2. i \in Found(h)
        BY <3>1, <4>1 DEF Found, Known
      <4>3. core[i] # "released"
        BY <2>1, <3>1 DEF CoreStep
      <4> QED BY <2>1, <3>1, <4>1, <4>2, <4>3 DEF Terminate, LiveCalls
    <3> QED BY <1>6, <2>5, <3>2
  <2>6. ASSUME NEW i \in LiveCalls', EndIn(phone.out, i)
        PROVE  EndIn(phone'.out, i)
    <3>1. i \in Ids /\ c[i] \notin {"none", "released"}
      BY <2>3, <2>6 DEF LiveCalls
    <3>2. h.op = "lpEndCall" => core[i] # "none"
      BY <2>1, <3>1 DEF Terminate, LiveCalls
    <3>3. core[i] # "none" => EndIn(phone'.out, i)
      BY <2>5, <2>6
    <3> QED BY <1>6, <2>6, <3>2, <3>3
  <2> QED BY <1>4, <1>5, <2>1, <2>3, <2>4, <2>6, SeenReact
<1> QED BY <1>7, <1>8, <1>9

LEMMA SeenDies ==
  ASSUME Seen, ProcessDies
  PROVE  Seen'
<1>1. /\ core' = Terminate(Ids) /\ phone' = S!InitPhone /\ toDart' = <<>> /\ requests' = <<>>
      /\ answeredUuids' = NoneAnswered /\ core \in [Ids -> CoreState] /\ KitTyped(kit, answeredUuids)
  BY DEF ProcessDies, Seen
<1>2. PhoneInv(phone')
  BY <1>1, InitPhoneInv
<1>3. core' \in [Ids -> CoreState] /\ \A i \in Ids : core'[i] \in {"none", "released"}
  <2>1. "released" \in CoreState
    BY DEF CoreState
  <2> QED BY <1>1, <2>1 DEF Terminate, LiveCalls
<1>4. toDart' \in Seq(Event) /\ requests' \in Seq(Action) /\ Len(toDart') = 0
  <2> HIDE DEF Event, Action
  <2> QED BY <1>1, EmptySeq
<1>5. KitTyped(kit', answeredUuids')
  BY <1>1 DEF ProcessDies, KitTyped, NoneAnswered, KitState
<1>6. phone'.keys = <<>>
  BY <1>1 DEF S!InitPhone
<1>7. AnnouncedOnce'
  BY <1>4, <1>6 DEF AnnouncedOnce, P!Keyed
<1>8. LiveCalls' = {}
  BY <1>3 DEF LiveCalls
<1> QED BY <1>2, <1>3, <1>4, <1>5, <1>7, <1>8 DEF Seen

-----------------------------------------------------------------------------
(* Dart moves, and native code does not.                                   *)
LEMMA SeenDart ==
  ASSUME Seen, PhoneInv(phone'), Accounts(phone, phone'),
         UNCHANGED <<core, requests, kit, answeredUuids>>, toDart' \in Seq(Event),
         AnnouncedOnce',
         \A i \in LiveCalls : Pending(Announcements, i) =>
            Pending(Announcements, i)' \/ S!IsListed(phone', i)
  PROVE  Seen'
<1>1. LiveCalls' = LiveCalls
  BY DEF LiveCalls
<1>2. ASSUME NEW i \in LiveCalls
      PROVE  Watched(i)'
  <2>1. /\ i \in Ids /\ Watched(i)
        /\ Accounted(phone', i) \/ (~S!IsListed(phone, i) /\ phone'.uuid[i] = phone.uuid[i])
    BY DEF Seen, LiveCalls, Accounts
  <2>2. EndIn(phone.out, i) => EndIn(phone'.out, i)
    <3>1. /\ phone.out \in Seq(S!Command) /\ phone'.out \in Seq(S!Command)
          /\ Grows(phone.out, phone'.out)
      BY DEF Seen, Accounts, PhoneInv, Linked
    <3> HIDE DEF S!Command
    <3> QED BY <3>1, GrowsKeepsEnd
  <2> QED BY <2>1, <2>2 DEF Watched, Accounted
<1>3. KitTyped(kit', answeredUuids') /\ requests' \in Seq(Action) /\ core' \in [Ids -> CoreState]
  BY DEF Seen
<1> QED BY <1>1, <1>2, <1>3 DEF Seen

LEMMA SeenUser ==
  ASSUME Seen, User
  PROVE  Seen'
<1>1. /\ Linked(phone) /\ PhoneInv(phone) /\ P!IosInv(phone)
      /\ UNCHANGED <<core, toDart, requests, kit, answeredUuids>>
  BY DEF Seen, PhoneInv, User
<1>2. Accounts(phone, phone')
  BY <1>1, UserAccounts DEF Sheds
<1>3. S!Next
  BY DEF User, S!User, S!Next
<1>4. P!Handled(phone, phone') /\ P!IosInv(phone')
  BY <1>1, <1>3, StepOfPhone
<1>5. PhoneInv(phone')
  BY <1>1, <1>2, <1>4, CreatedAreKeyed DEF PhoneInv, Accounts
<1>6. phone'.keys = phone.keys
  <2>1. phone'.calls \subseteq phone.calls
    BY <1>1, UserAccounts DEF Sheds
  <2> QED BY <1>1, <1>4, <2>1, KeysStay
<1>7. AnnouncedOnce'
  BY <1>1, <1>6 DEF Seen, AnnouncedOnce, P!Keyed
<1>8. \A i : Pending(Announcements, i) => Pending(Announcements, i)'
  BY <1>1 DEF Pending
<1>9. toDart' \in Seq(Event)
  BY <1>1 DEF Seen
<1> QED BY <1>1, <1>2, <1>5, <1>7, <1>8, <1>9, SeenDart

LEMMA SeenAnnouncement ==
  ASSUME Seen, DartEvent, Head(toDart).op \in Announcements
  PROVE  LET i == Head(toDart).id
         IN  /\ Announced(phone, phone', i) /\ S!Next
             /\ ~P!Keyed(phone, i) /\ i \in Ids
<1> DEFINE h == Head(toDart)
           i == h.id
<1>1. toDart \in Seq(Event) /\ toDart # <<>> /\ S!Do(Handle(h))
  BY DEF Seen, DartEvent
<1>2. h \in Event /\ 1 \in 1..Len(toDart) /\ h = toDart[1]
  <2> HIDE DEF Event
  <2> QED BY <1>1, HeadTailProperties, EmptySeq
<1>3. i \in Ids /\ core[i] # "none" /\ ~P!Keyed(phone, i)
  <2>1. toDart[1].op \in Announcements /\ toDart[1].id = i
    BY <1>2
  <2> HIDE DEF h, i
  <2> QED BY <1>2, <2>1 DEF Seen, AnnouncedOnce
<1>4. phone.created < MaxObjects
  <2> HIDE DEF i
  <2> QED BY <1>3, ObjectIsLeft DEF Seen
<1>5. phone' = Handle(h)
  BY <1>1, DoIs
<1>6. Linked(phone) /\ phone.activeCall \in phone.calls \cup {NoCall}
  BY DEF Seen, PhoneInv, P!IosInv, P!FocusListed
<1>7. h.op \in Announcements
  OBVIOUS
<1> HIDE DEF h
<1>8. Announced(phone, phone', i)
  BY <1>2, <1>3, <1>4, <1>5, <1>6, <1>7, HandleAccounts
<1>9. S!CallAnnounced(i)
  <2>1. [j \in Ids |-> j][i] = i
    BY <1>3
  <2>2. h.op = "lnOutgoingInit" => Handle(h) = S!OutgoingInit(phone, i, i)
    BY SMTT(30) DEF Handle, Announcements, ShownAs
  <2>3. h.op = "lnIncomingReceived" => Handle(h) = S!IncomingReceived(phone, i, i)
    BY SMTT(30) DEF Handle, Announcements, ShownAs
  <2>4. \A k \in DOMAIN phone.keys : phone.keys[k] # i
    BY <1>3 DEF P!Keyed
  <2> QED BY <1>1, <1>4, <1>7, <2>1, <2>2, <2>3, <2>4 DEF S!CallAnnounced, S!Announce, Announcements
<1>10. S!Next
  BY <1>3, <1>9 DEF S!Next
<1> QED BY <1>3, <1>8, <1>10 DEF h

(* Any other event is one that Softphone expects.                          *)
LEMMA OtherEvent ==
  ASSUME Seen, DartEvent, Head(toDart).op \notin Announcements
  PROVE  /\ Accounts(phone, phone') /\ phone'.calls \subseteq phone.calls
         /\ S!Next \/ phone' = phone
<1> DEFINE h == Head(toDart)
           c == S!CallByUuid(phone, h.id)
<1>1. toDart \in Seq(Event) /\ toDart # <<>> /\ S!Do(Handle(h))
  BY DEF Seen, DartEvent
<1>2. h \in Event
  <2> HIDE DEF Event
  <2> QED BY <1>1, HeadTailProperties
<1>3. h.id \in Uuids /\ h.op \notin Announcements
  BY <1>2 DEF Event
<1>4. phone' = Handle(h)
  BY <1>1, DoIs
<1>5. Linked(phone) /\ phone.activeCall \in phone.calls \cup {NoCall}
  BY DEF Seen, PhoneInv, P!IosInv, P!FocusListed
<1> HIDE DEF h
<1>6. Accounts(phone, phone') /\ phone'.calls \subseteq phone.calls
  BY <1>2, <1>3, <1>4, <1>5, HandleAccounts
<1>7. CASE h.op = "answerButtonPressed"
  <2>1. Handle(h) = S!AnswerButtonPressed(phone, h.id)
    BY <1>3, <1>7, SMTT(30) DEF Handle, Announcements, ShownAs
  <2>2. S!CallKitButton(h.id)
    BY <1>1, <2>1 DEF S!CallKitButton
  <2> QED BY <1>3, <1>6, <2>2 DEF S!Next
<1>8. CASE h.op # "answerButtonPressed" /\ c = NoCall
  <2>1. Handle(h) = phone
    BY <1>3, <1>8 DEF Handle, Announcements
  <2> QED BY <1>4, <1>6, <2>1
<1>9. CASE h.op # "answerButtonPressed" /\ c # NoCall /\ h.op \in DOMAIN ShownAs
  <2>1. Handle(h) = S!SetLpCallState(phone, c, ShownAs[h.op])
    BY <1>3, <1>9 DEF Handle, Announcements, ShownAs
  <2>2. ShownAs[h.op] \in S!CallState \ {"NONE"}
    BY <1>9 DEF ShownAs, S!CallState
  <2>3. S!LinphoneState(h.id, ShownAs[h.op])
    BY <1>1, <1>9, <2>1 DEF S!LinphoneState
  <2> QED BY <1>3, <1>6, <2>2, <2>3 DEF S!Next
<1>10. CASE h.op # "answerButtonPressed" /\ c # NoCall /\ h.op \notin DOMAIN ShownAs
  <2>1. h.op \in {"endButtonPressed", "holdButtonPressed", "unholdButtonPressed"}
    BY <1>2, <1>3, <1>10 DEF Event, Buttons
  <2>2. \/ Handle(h) = S!HangUp(phone, c)
        \/ \E b \in BOOLEAN : Handle(h) = S!SetHold(phone, c, b, FALSE)
    BY <1>3, <1>10, <2>1 DEF Handle, Announcements
  <2>3. S!CallKitButton(h.id)
    BY <1>1, <1>10, <2>2 DEF S!CallKitButton
  <2> QED BY <1>3, <1>6, <2>3 DEF S!Next
<1> QED BY <1>7, <1>8, <1>9, <1>10

LEMMA SeenEvent ==
  ASSUME Seen, DartEvent
  PROVE  Seen'
<1> DEFINE h == Head(toDart)
           t == Tail(toDart)
           i == h.id
<1>1. /\ toDart # <<>> /\ toDart \in Seq(Event) /\ toDart' = t
      /\ UNCHANGED <<core, requests, kit, answeredUuids>> /\ AnnouncedOnce
      /\ PhoneInv(phone) /\ P!IosInv(phone)
  BY DEF DartEvent, Seen, PhoneInv
<1>2. /\ h \in Event /\ t \in Seq(Event)
      /\ Len(toDart) \in Nat \ {0} /\ Len(t) = Len(toDart) - 1
      /\ h = toDart[1] /\ \A k \in 1..Len(t) : t[k] = toDart[k + 1]
  <2> HIDE DEF Event
  <2> QED BY <1>1, HeadTailProperties, EmptySeq, LenProperties
<1>3. h.op \in Announcements =>
        Announced(phone, phone', i) /\ S!Next /\ ~P!Keyed(phone, i) /\ i \in Ids
  BY SeenAnnouncement
<1>4. h.op \notin Announcements =>
        /\ Accounts(phone, phone') /\ phone'.calls \subseteq phone.calls
        /\ S!Next \/ phone' = phone
  BY OtherEvent
<1>5. P!Handled(phone, phone') /\ P!IosInv(phone')
  BY <1>1, <1>3, <1>4, StepOfPhone
<1> HIDE DEF h, t
<1>6. Accounts(phone, phone')
  BY <1>3, <1>4, AnnouncedAccounts
<1>7. PhoneInv(phone')
  BY <1>1, <1>5, <1>6, CreatedAreKeyed DEF PhoneInv, Accounts
<1>8. \A j \in Ids : P!Keyed(phone', j) => P!Keyed(phone, j) \/ (h.op \in Announcements /\ j = i)
  <2>1. CASE h.op \in Announcements
    <3>1. \A j \in Ids \ {i} : P!Keyed(phone', j) => P!Keyed(phone, j)
      BY <1>1, <1>3, <1>5, <2>1, AnnouncedKeys
    <3> QED BY <2>1, <3>1
  <2>2. CASE h.op \notin Announcements
    <3>1. phone'.keys = phone.keys
      BY <1>1, <1>4, <1>5, <2>2, KeysStay
    <3> QED BY <3>1 DEF P!Keyed
  <2> QED BY <2>1, <2>2
<1>9. AnnouncedOnce'
  <2>1. ASSUME NEW k \in 1..Len(t), t[k].op \in Announcements
        PROVE  LET j == t[k].id
               IN  /\ j \in Ids /\ core'[j] # "none" /\ ~P!Keyed(phone', j)
                   /\ \A l \in 1..Len(t) : Announces(t[l], j) => l = k
    <3> DEFINE j == t[k].id
    <3>1. k + 1 \in 1..Len(toDart) /\ t[k] = toDart[k + 1] /\ 1 \in 1..Len(toDart)
      BY <1>2
    <3>2. /\ j \in Ids /\ core[j] # "none" /\ ~P!Keyed(phone, j)
          /\ \A l \in 1..Len(toDart) : Announces(toDart[l], j) => l = k + 1
      BY <1>1, <2>1, <3>1 DEF AnnouncedOnce
    <3> HIDE DEF j
    <3>3. ~(h.op \in Announcements /\ j = i)
      BY <1>2, <3>1, <3>2 DEF Announces
    <3>4. ASSUME NEW l \in 1..Len(t), Announces(t[l], j) PROVE l = k
      <4>1. l + 1 \in 1..Len(toDart) /\ t[l] = toDart[l + 1]
        BY <1>2
      <4>2. l + 1 = k + 1
        BY <3>2, <3>4, <4>1
      <4> QED BY <4>2
    <3> QED BY <1>1, <1>8, <3>2, <3>3, <3>4 DEF j
  <2>2. ASSUME NEW j \in Ids, core[j] = "none"
        PROVE  ~P!Keyed(phone', j)
    <3>1. ~P!Keyed(phone, j)
      BY <1>1, <2>2 DEF AnnouncedOnce
    <3>2. 1 \in 1..Len(toDart)
      BY <1>2
    <3>3. ~(h.op \in Announcements /\ j = i)
      BY <1>1, <1>2, <2>2, <3>2 DEF AnnouncedOnce
    <3> QED BY <1>8, <3>1, <3>3
  <2> QED BY <1>1, <2>1, <2>2 DEF AnnouncedOnce
<1>10. ASSUME NEW j, Pending(Announcements, j)
       PROVE  Pending(Announcements, j)' \/ S!IsListed(phone', j)
  <2>1. DOMAIN toDart = 1..Len(toDart) /\ DOMAIN t = 1..Len(t)
    BY <1>1, <1>2, LenProperties
  <2>2. PICK k \in 1..Len(toDart) : toDart[k].id = j /\ toDart[k].op \in Announcements
    BY <1>10, <2>1 DEF Pending
  <2>3. CASE k = 1
    BY <1>2, <1>3, <2>2, <2>3 DEF Announced
  <2>4. CASE k # 1
    <3>1. k - 1 \in 1..Len(t) /\ t[k - 1] = toDart[k]
      BY <1>2, <2>4
    <3> QED BY <1>1, <2>1, <2>2, <3>1 DEF Pending
  <2> QED BY <2>3, <2>4
<1> QED BY <1>1, <1>2, <1>6, <1>7, <1>9, <1>10, SeenDart

-----------------------------------------------------------------------------
LEMMA SeenInit ==
  ASSUME Init
  PROVE  Seen
<1>1. /\ phone = S!InitPhone /\ toDart = <<>> /\ requests = <<>> /\ answeredUuids = NoneAnswered
      /\ kit = [u \in Uuids |-> "none"] /\ core = [i \in Ids |-> "none"]
  BY DEF Init, S!Init
<1>2. PhoneInv(phone)
  BY <1>1, InitPhoneInv
<1>3. core \in [Ids -> CoreState] /\ LiveCalls = {}
  BY <1>1 DEF CoreState, LiveCalls
<1>4. toDart \in Seq(Event) /\ requests \in Seq(Action) /\ Len(toDart) = 0
  <2> HIDE DEF Event, Action
  <2> QED BY <1>1, EmptySeq
<1>5. KitTyped(kit, answeredUuids)
  BY <1>1 DEF KitTyped, NoneAnswered, KitState
<1>6. phone.keys = <<>>
  BY <1>1 DEF S!InitPhone
<1>7. AnnouncedOnce
  BY <1>4, <1>6 DEF AnnouncedOnce, P!Keyed
<1> QED BY <1>2, <1>3, <1>4, <1>5, <1>7 DEF Seen

LEMMA SeenNext ==
  ASSUME Seen, [Next]_vars
  PROVE  Seen'
<1>1. CASE UNCHANGED vars
  BY <1>1 DEF vars, Seen, LiveCalls, Watched, AnnouncedOnce, Pending
<1>2. CASE NativeCommand
  BY <1>2, SeenPerform, SeenDies DEF NativeCommand
<1> QED BY <1>1, <1>2, SeenEvent, SeenUser, SeenKit, SeenCoreActs DEF Next

LEMMA AlwaysSeen == Spec => []Seen
BY SeenInit, SeenNext, PTL DEF Spec

(* Nothing turns a call this phone gets into one it makes.                 *)
LEMMA AlwaysDirected == Spec => [](incoming \in SUBSET Ids)
<1>1. Init => incoming \in SUBSET Ids
  BY IosCallsAssumption DEF Init
<1>2. incoming \in SUBSET Ids /\ [Next]_vars => (incoming \in SUBSET Ids)'
  <2> SUFFICES ASSUME [Next]_vars PROVE incoming' = incoming
    OBVIOUS
  <2>1. CASE NativeCommand
    <3>1. Perform(Head(phone.out)) \/ ProcessDies
      BY <2>1 DEF NativeCommand
    <3>2. Perform(Head(phone.out)) => UNCHANGED incoming
      BY DEF Perform
    <3>3. ProcessDies => UNCHANGED incoming
      BY DEF ProcessDies
    <3> QED BY <3>1, <3>2, <3>3
  <2>2. CASE DartEvent \/ User \/ KitPerforms
    BY <2>2 DEF DartEvent, User, KitPerforms
  <2>3. CASE \E u \in Uuids : SystemButton(u) \/ CallChanged(u) \/ PushArrives(u) \/ RingingTimer(u)
    BY <2>3 DEF SystemButton, CallChanged, PushArrives, RingingTimer
  <2>4. CASE \E i \in Ids : CoreActs(i)
    BY <2>4 DEF CoreActs
  <2>5. CASE UNCHANGED vars
    BY <2>5 DEF vars
  <2> QED BY <2>1, <2>2, <2>3, <2>4, <2>5 DEF Next
<1> QED BY <1>1, <1>2, PTL DEF Spec

(* No call goes on unseen in any behaviour of the app on iOS, as long as   *)
(* the answer of the system's screen was not taken for one to another      *)
(* call: every live call is listed, or its announcement is on its way to   *)
(* Dart, or the command that ends it is on its way to native code.         *)
THEOREM IosSeen == Spec => []NoCallUnseen
<1>1. Seen => NoCallUnseen
  <2> SUFFICES ASSUME Seen, NoneMistaken, NEW i \in LiveCalls
               PROVE  S!IsListed(phone, i) \/ Pending(Announcements, i) \/ Sent("lpEndCall", i)
    BY DEF NoCallUnseen
  <2>1. Watched(i) /\ phone.uuid[i] \in {NoUuid, i}
    BY DEF Seen, NoneMistaken, LiveCalls
  <2>2. DOMAIN phone.out = 1..Len(phone.out)
    BY LenProperties DEF Seen, PhoneInv, Linked
  <2> QED BY <2>1, <2>2 DEF Watched, EndIn, Sent
<1> QED BY <1>1, AlwaysSeen, PTL

(* Events, actions and the screen of CallKit keep their types, and the     *)
(* calls Dart hears of never need more objects than there are.             *)
THEOREM IosTypes == Spec => []TypeOK
<1>1. Seen /\ incoming \in SUBSET Ids => TypeOK
  BY SamePhones DEF Seen, PhoneInv, P!IosInv, P!Sound, TypeOK, S!TypeOK, KitTyped
<1> QED BY <1>1, AlwaysSeen, AlwaysDirected, PTL

-----------------------------------------------------------------------------
(* What each event does to the list, the states and the uuids of calls.    *)

LEMMA LookupByUuid ==
  ASSUME NEW p, Linked(p), NEW u, S!CallByUuid(p, u) # NoCall
  PROVE  S!CallByUuid(p, u) \in p.calls /\ p.uuid[S!CallByUuid(p, u).id] = u
<1> DEFINE K == S!KeysWithUuid(p, u)
           k == CHOOSE k \in K : \A l \in K : k <= l
           cs == {c \in p.calls : c.id = p.keys[k]}
<1>1. K # {} /\ S!CallByUuid(p, u) = S!CallById(p, p.keys[k])
  BY DEF S!CallByUuid
<1>2. /\ Len(p.keys) \in Nat /\ DOMAIN p.keys = 1..Len(p.keys)
      /\ IsFiniteSet(1..Len(p.keys)) /\ 1..Len(p.keys) \subseteq Nat
  <2>1. Len(p.keys) \in Nat /\ DOMAIN p.keys = 1..Len(p.keys)
    BY LenProperties DEF Linked
  <2> QED BY <2>1, FS_Interval
<1>3. \E l \in K : \A m \in K : l <= m
  <2>1. K \subseteq 1..Len(p.keys)
    BY <1>2 DEF S!KeysWithUuid
  <2> HIDE DEF K
  <2>2. IsFiniteSet(K) /\ K \subseteq Nat
    BY <1>2, <2>1, FS_Subset
  <2> QED BY <1>1, <2>2, LeastElement
<1>4. k \in K
  BY <1>3
<1>5. p.uuid[p.keys[k]] = u
  BY <1>4 DEF S!KeysWithUuid
<1> HIDE DEF k, K
<1>6. cs # {} /\ cs \in SUBSET S!Call /\ S!CallByUuid(p, u) = S!Oldest(cs)
  BY <1>1 DEF S!CallById, S!IsListed, Linked
<1>7. S!Oldest(cs) \in cs
  <2> HIDE DEF cs
  <2> QED BY <1>6, OldestIsMember
<1> QED BY <1>5, <1>6, <1>7

LEMMA CallAdded ==
  ASSUME NEW p, Linked(p), p.created < MaxObjects, NEW i \in Ids,
         NEW dir \in {"INCOMING", "OUTGOING"}
  PROVE  LET c == S!NewCall(p, i, dir)
             q == S!Keep(S!AddCall(S!LinkLnCallWithUuid(p, i, i), c), c)
         IN  q.calls \subseteq p.calls \cup {c} /\ q.uuid = [p.uuid EXCEPT ![i] = i]
<1> DEFINE c == S!NewCall(p, i, dir)
           l == S!LinkLnCallWithUuid(p, i, i)
           q == [l EXCEPT !.calls = @ \cup {c}]
           r == IF S!IsListed(l, c.id) THEN l
                ELSE IF l.activeCall = NoCall \/ c.direction = "OUTGOING"
                     THEN S!MakeActiveCall(q, c) ELSE q
           s == IF r.uuid[c.id] \in r.callIdsAnswered THEN S!AnswerCall(r, c) ELSE r
<1>1. S!AddCall(l, c) = s
  BY DEF S!AddCall
<1>2. c \in S!Call /\ c.id = i
  BY ObjectsAreFinite DEF S!NewCall, S!Call, Linked
<1>3. Linked(l) /\ l.calls = p.calls /\ l.uuid = [p.uuid EXCEPT ![i] = i] /\ l.uuid[i] = i
  <2>1. Linked(l) /\ l.calls = p.calls /\ l.uuid = [p.uuid EXCEPT ![i] = i]
    BY LinkedCall
  <2> HIDE DEF l
  <2> QED BY <2>1 DEF Linked
<1> HIDE DEF c, l
<1>4. Linked(q) /\ q.calls = l.calls \cup {c} /\ q.uuid = l.uuid
  <2>1. l.uuid[c.id] # NoUuid
    BY <1>2, <1>3, IosCallsAssumption DEF Uuids
  <2> QED BY <1>2, <1>3, <2>1, ListedCall
<1> HIDE DEF q
<1>5. Linked(r) /\ r.calls \subseteq p.calls \cup {c} /\ r.uuid = l.uuid
  BY <1>2, <1>3, <1>4, MakeActiveCallRests DEF Rests
<1> HIDE DEF r
<1>6. Linked(s) /\ s.calls \subseteq p.calls \cup {c} /\ s.uuid = l.uuid
  BY <1>2, <1>5, AnswerCallRests DEF Rests
<1> HIDE DEF s
<1>7. Rests(s, S!Keep(s, c))
  BY <1>2, <1>6, KeepRests
<1>8. S!Keep(s, c).calls \subseteq p.calls \cup {c} /\ S!Keep(s, c).uuid = [p.uuid EXCEPT ![i] = i]
  BY <1>3, <1>6, <1>7 DEF Rests
<1> QED BY <1>1, <1>8 DEF c, l

LEMMA AnswerButtonUuids ==
  ASSUME NEW p, Linked(p), p.activeCall \in p.calls \cup {NoCall}, NEW u \in Uuids
  PROVE  LET q == S!AnswerButtonPressed(p, u)
         IN  \/ q.uuid = p.uuid
             \/ /\ p.activeCall \in p.calls /\ p.state[p.activeCall.n] = "PROGRESS"
                /\ q.uuid = [p.uuid EXCEPT ![p.activeCall.id] = u]
<1> DEFINE q == [p EXCEPT !.callIdsAnswered = @ \cup {u}]
           a == q.activeCall
           adopted == [q EXCEPT !.uuid = [@ EXCEPT ![a.id] = u]]
           adopt == S!CallByUuid(q, u) = NoCall /\ a # NoCall /\ q.state[a.n] = "PROGRESS"
           r == IF adopt THEN adopted ELSE q
           c == S!CallByUuid(r, u)
<1>1. S!AnswerButtonPressed(p, u) = IF c = NoCall THEN r ELSE S!AnswerCall(r, c)
  BY DEF S!AnswerButtonPressed
<1>2. /\ Rests(p, q) /\ Linked(q) /\ q.activeCall = p.activeCall /\ q.state = p.state
      /\ q.uuid = p.uuid /\ q.calls = p.calls
  <2>1. q.activeCall = p.activeCall /\ q.state = p.state
    BY DEF Linked, S!InitPhone
  <2> QED BY <2>1, OtherField DEF Rests
<1> HIDE DEF q
<1>3. /\ DOMAIN adopted = DOMAIN q /\ adopted.calls = q.calls
      /\ adopted.activeCall = q.activeCall /\ adopted.created = q.created
      /\ adopted.uuid = [q.uuid EXCEPT ![a.id] = u] /\ adopted.keys = q.keys
      /\ adopted.out = q.out
  BY <1>2 DEF Linked, S!InitPhone
<1> HIDE DEF adopted
<1>4. ASSUME adopt PROVE Linked(adopted)
  <2>1. a \in q.calls /\ a.id \in Ids
    BY <1>2, <1>4 DEF Linked, S!Call
  <2>2. /\ adopted.uuid \in [Ids -> Uuids \cup {NoUuid}] /\ adopted.uuid[a.id] = u
        /\ \A j \in Ids \ {a.id} : adopted.uuid[j] = q.uuid[j]
    BY <1>2, <1>3, <2>1 DEF Linked
  <2>3. \A d \in q.calls : d.id \in Ids /\ q.uuid[d.id] # NoUuid
    BY <1>2 DEF Linked, S!Call
  <2>4. \A d \in adopted.calls : adopted.uuid[d.id] # NoUuid
    BY <1>3, <2>2, <2>3, IosCallsAssumption
  <2> QED BY <1>2, <1>3, <2>2, <2>4 DEF Linked
<1>5. Linked(r) /\ r.uuid = IF adopt THEN adopted.uuid ELSE q.uuid
  BY <1>2, <1>4
<1>6. /\ adopt => p.activeCall \in p.calls /\ p.state[p.activeCall.n] = "PROGRESS"
      /\ adopted.uuid = [p.uuid EXCEPT ![p.activeCall.id] = u]
  BY <1>2, <1>3
<1> HIDE DEF r, adopt
<1>7. c \in r.calls \cup {NoCall} /\ r.calls \in SUBSET S!Call
  BY <1>5, LookupFindsListed DEF Linked
<1> HIDE DEF c
<1>8. c # NoCall => S!AnswerCall(r, c).uuid = r.uuid
  BY <1>5, <1>7, AnswerCallRests DEF Rests
<1> QED BY <1>1, <1>2, <1>5, <1>6, <1>8

(* The active call takes the uuid of an answer for a call nobody knows.    *)
Adopts(u) ==
  \E a \in phone.calls :
    /\ phone.state[a.n] = "PROGRESS"
    /\ phone'.uuid = [phone.uuid EXCEPT ![a.id] = u]

(* What Softphone makes of an event of native code. *)
Heard(h) ==
  /\ P!Numbered(phone')
  /\ h.op \in Announcements =>
       /\ phone'.uuid = [phone.uuid EXCEPT ![h.id] = h.id]
       /\ \A d \in phone'.calls :
            \/ d \in phone.calls /\ phone'.state[d.n] = phone.state[d.n]
            \/ /\ d.id = h.id /\ phone'.state[d.n] = "NONE"
               /\ d.direction = "OUTGOING" => h.op = "lnOutgoingInit"
  /\ h.op \notin Announcements => phone'.calls \subseteq phone.calls
  /\ h.op \in DOMAIN ShownAs =>
       /\ phone'.uuid = phone.uuid
       /\ \A d \in phone'.calls :
            phone'.state[d.n] = IF d = S!CallByUuid(phone, h.id) THEN ShownAs[h.op]
                                ELSE phone.state[d.n]
  /\ h.op \in Buttons =>
       /\ \A d \in phone'.calls : phone'.state[d.n] = phone.state[d.n]
       /\ phone'.uuid = phone.uuid \/ (h.op = "answerButtonPressed" /\ Adopts(h.id))

LEMMA EventOps ==
  /\ Announcements \cap DOMAIN ShownAs = {} /\ Announcements \cap Buttons = {}
  /\ Buttons \cap DOMAIN ShownAs = {}
  /\ \A e \in Event : e.op \in Announcements \cup DOMAIN ShownAs \cup Buttons
BY DEF Announcements, ShownAs, Buttons, Event

LEMMA AnnouncementHeard ==
  ASSUME Seen, P!Numbered(phone), NEW h \in Event, h.op \in Announcements, h.id \in Ids,
         phone.created < MaxObjects, phone' = Handle(h)
  PROVE  Heard(h)
<1>1. Linked(phone) /\ P!Sound(phone)
  BY DEF Seen, PhoneInv, P!IosInv
<1>2. h.op \in {"lnOutgoingInit", "lnIncomingReceived"}
  BY DEF Announcements
<1>3. PICK dir \in {"INCOMING", "OUTGOING"} :
        /\ dir = "OUTGOING" => h.op = "lnOutgoingInit"
        /\ LET c == S!NewCall(phone, h.id, dir)
           IN  phone' = S!Keep(S!AddCall(S!LinkLnCallWithUuid(phone, h.id, h.id), c), c)
  <2>1. h.op = "lnOutgoingInit" => Handle(h) = S!OutgoingInit(phone, h.id, h.id)
    BY SMTT(30) DEF Handle, Announcements, ShownAs
  <2>2. h.op = "lnIncomingReceived" => Handle(h) = S!IncomingReceived(phone, h.id, h.id)
    BY SMTT(30) DEF Handle, Announcements, ShownAs
  <2>3. CASE h.op = "lnOutgoingInit"
    BY <2>1, <2>3 DEF S!OutgoingInit
  <2>4. CASE h.op = "lnIncomingReceived"
    BY <2>2, <2>4 DEF S!IncomingReceived
  <2> QED BY <1>2, <2>3, <2>4
<1> DEFINE c == S!NewCall(phone, h.id, dir)
<1>4. phone'.calls \subseteq phone.calls \cup {c} /\ phone'.uuid = [phone.uuid EXCEPT ![h.id] = h.id]
  BY <1>1, <1>3, CallAdded
<1>5. phone' = P!OutgoingInit(phone, h.id, h.id) \/ phone' = P!IncomingReceived(phone, h.id, h.id)
  <2>1. phone' = S!OutgoingInit(phone, h.id, h.id) \/ phone' = S!IncomingReceived(phone, h.id, h.id)
    BY <1>3 DEF S!OutgoingInit, S!IncomingReceived
  <2> QED BY <2>1, SameArrivals
<1>6. h.id \in Uuids
  BY DEF Uuids
<1>7. P!Announced(phone, h.id, phone')
  BY <1>1, <1>5, <1>6, SoftphoneAssumed, NullAssumed, P!AnnouncementSound
<1>8. /\ P!Numbered(phone') /\ phone'.state = phone.state
      /\ \A d \in phone'.calls : d \in phone.calls \/ (d.id = h.id /\ phone'.state[d.n] = "NONE")
  BY <1>1, <1>7, SoftphoneAssumed, NullAssumed, P!AnnouncedNumbered
<1>9. c.direction = dir
  BY DEF S!NewCall
<1>10. h.op \notin DOMAIN ShownAs /\ h.op \notin Buttons
  BY EventOps
<1>11. ASSUME NEW d \in phone'.calls
       PROVE  \/ d \in phone.calls /\ phone'.state[d.n] = phone.state[d.n]
              \/ /\ d.id = h.id /\ phone'.state[d.n] = "NONE"
                 /\ d.direction = "OUTGOING" => h.op = "lnOutgoingInit"
  <2> HIDE DEF c
  <2> QED BY <1>3, <1>4, <1>8, <1>9
<1> QED BY <1>4, <1>8, <1>10, <1>11 DEF Heard

LEMMA OtherHeard ==
  ASSUME Seen, P!Numbered(phone), NEW h \in Event, h.op \notin Announcements, S!Do(Handle(h))
  PROVE  Heard(h)
<1> DEFINE c == S!CallByUuid(phone, h.id)
<1>1. /\ Linked(phone) /\ P!Sound(phone) /\ phone.activeCall \in phone.calls \cup {NoCall}
      /\ h.id \in Uuids
  BY DEF Seen, PhoneInv, P!IosInv, P!FocusListed, Event
<1>2. phone' = Handle(h)
  BY DoIs
<1>3. ASSUME P!KeepsStates(phone, phone'), phone'.uuid = phone.uuid, h.op \in Buttons
      PROVE  Heard(h)
  BY <1>3, EventOps DEF Heard, P!KeepsStates
<1>4. ASSUME S!CallKitButton(h.id) PROVE P!KeepsStates(phone, phone')
  <2>1. P!CallKitButton(h.id)
    BY <1>4, SameLookUps, SameCommands, SameFocus, SameArrivals
       DEF S!CallKitButton, P!CallKitButton
  <2>2. P!Acted(phone, phone')
    BY <1>1, <2>1, SoftphoneAssumed, NullAssumed, P!CallKitButtonActed
  <2> QED BY <1>1, <2>2, SoftphoneAssumed, NullAssumed, P!ActedNumbered
<1>5. CASE h.op = "answerButtonPressed"
  <2>1. Handle(h) = S!AnswerButtonPressed(phone, h.id)
    BY <1>5, SMTT(30) DEF Handle, Announcements, ShownAs
  <2>2. P!KeepsStates(phone, phone')
    BY <1>4, <2>1 DEF S!CallKitButton
  <2>3. phone'.uuid = phone.uuid \/ Adopts(h.id)
    <3>1. \/ phone'.uuid = phone.uuid
          \/ /\ phone.activeCall \in phone.calls /\ phone.state[phone.activeCall.n] = "PROGRESS"
             /\ phone'.uuid = [phone.uuid EXCEPT ![phone.activeCall.id] = h.id]
      BY <1>1, <1>2, <2>1, AnswerButtonUuids
    <3> QED BY <3>1 DEF Adopts
  <2> QED BY <1>5, <2>2, <2>3, EventOps DEF Heard, P!KeepsStates, Buttons
<1>6. CASE h.op # "answerButtonPressed" /\ c = NoCall
  <2>1. phone' = phone
    BY <1>2, <1>6 DEF Handle, Announcements
  <2>2. NoCall \notin phone.calls
    BY <1>1, NoCallIsNull DEF Linked
  <2> HIDE DEF c
  <2>3. \A d \in phone'.calls : d # c
    BY <1>6, <2>1, <2>2
  <2> QED BY <2>1, <2>3, EventOps DEF Heard, c
<1>7. CASE h.op \in DOMAIN ShownAs /\ c # NoCall
  <2>1. Handle(h) = S!SetLpCallState(phone, c, ShownAs[h.op])
    BY <1>7 DEF Handle, Announcements, ShownAs
  <2>2. c \in phone.calls /\ c \in S!Call
    BY <1>1, <1>7, LookupByUuid DEF Linked
  <2>3. ShownAs[h.op] \in P!CallState
    BY <1>7 DEF ShownAs, P!CallState
  <2> HIDE DEF c
  <2>4. phone' = P!SetLpCallState(phone, c, ShownAs[h.op])
    BY <1>2, <2>1, SameFocus
  <2>5. /\ P!Numbered(phone') /\ phone'.calls \subseteq phone.calls
        /\ \A d \in phone'.calls :
             phone'.state[d.n] = IF d = c THEN ShownAs[h.op] ELSE phone.state[d.n]
    BY <1>1, <2>2, <2>3, <2>4, SoftphoneAssumed, NullAssumed, P!ToldNumbered
  <2>6. phone'.uuid = phone.uuid
    BY <1>1, <1>2, <2>1, <2>2, SetLpCallStateAccounts DEF Sheds
  <2>7. h.op \notin Buttons
    BY <1>7, EventOps
  <2> QED BY <2>5, <2>6, <2>7 DEF Heard, c
<1>8. CASE h.op \in Buttons \ {"answerButtonPressed"} /\ c # NoCall
  <2>1. \/ Handle(h) = S!HangUp(phone, c)
        \/ \E b \in BOOLEAN : Handle(h) = S!SetHold(phone, c, b, FALSE)
    <3>1. h.op \in {"endButtonPressed", "holdButtonPressed", "unholdButtonPressed"}
      BY <1>8 DEF Buttons
    <3>2. h.op \notin DOMAIN ShownAs
      BY <1>8, EventOps
    <3> QED BY <1>8, <3>1, <3>2 DEF Handle, Announcements
  <2>2. P!KeepsStates(phone, phone')
    BY <1>4, <1>8, <2>1 DEF S!CallKitButton
  <2>3. c \in S!Call
    BY <1>1, <1>8, LookupByUuid DEF Linked
  <2> HIDE DEF c
  <2>4. phone'.uuid = phone.uuid
    <3>1. Sheds(phone, S!HangUp(phone, c))
      BY <1>1, <2>3, HangUpAccounts
    <3>2. \A b \in BOOLEAN : Rests(phone, S!SetHold(phone, c, b, FALSE))
      BY <1>1, <2>3, SetHoldRests
    <3> QED BY <1>2, <2>1, <3>1, <3>2 DEF Sheds, Rests
  <2> QED BY <1>3, <1>8, <2>2, <2>4
<1> QED BY <1>5, <1>6, <1>7, <1>8, EventOps

-----------------------------------------------------------------------------
(* How the core changes calls: none is forgotten or revived, a call starts *)
(* as incoming or outgoing, the latter only if this phone makes it, and    *)
(* where one enters a reported state but its end, no other does.           *)
Lawful(c) ==
  /\ c \in [Ids -> CoreState]
  /\ \A i \in Ids : c[i] # core[i] =>
       /\ c[i] # "none" /\ core[i] # "released"
       /\ c[i] \in {"incoming", "outgoing"} <=> core[i] = "none"
       /\ c[i] = "outgoing" => i \notin incoming
       /\ c[i] = "pausing" => core[i] = "streaming"
       /\ c[i] = "resuming" => core[i] = "paused"
       /\ c[i] \notin {"released", "pausing"} =>
            \A j \in Ids \ {i} : c[j] \in {core[j], "pausing"}

LEMMA TakingLawful ==
  ASSUME core \in [Ids -> CoreState], NEW i \in Ids, NEW s \in CoreState,
         \/ core[i] = "none" /\ s = "outgoing" /\ i \notin incoming
         \/ core[i] = "incoming" /\ s = "connected"
         \/ core[i] = "paused" /\ s = "resuming"
  PROVE  Lawful(Taking(i, s))
<1> DEFINE c == Taking(i, s)
<1>1. /\ c \in [Ids -> CoreState] /\ c[i] = s
      /\ \A j \in Ids \ {i} : c[j] = core[j] \/ (core[j] = "streaming" /\ c[j] = "pausing")
  BY DEF Taking, CoreState
<1> HIDE DEF c
<1>2. Lawful(c)
  BY <1>1 DEF Lawful
<1> QED BY <1>2 DEF c

LEMMA CoreLawful ==
  ASSUME core \in [Ids -> CoreState]
  PROVE  /\ Lawful(core)
         /\ \A i \in InState("none") \ incoming : Lawful(Invite(i))
         /\ \A i \in Ids : Lawful(Accept(i)) /\ Lawful(Resume(i))
         /\ \A is \in SUBSET Ids : Lawful(Hold(is)) /\ Lawful(Terminate(is))
         /\ \A i \in Ids, step \in OwnSteps :
              core[i] = step[1] => Lawful([core EXCEPT ![i] = step[2]])
<1>1. Lawful(core)
  BY DEF Lawful
<1>2. ASSUME NEW i \in InState("none") \ incoming
      PROVE  Lawful(Invite(i))
  <2>1. i \in Ids /\ core[i] = "none" /\ "outgoing" \in CoreState
    BY DEF InState, CoreState
  <2> QED BY <1>1, <2>1, TakingLawful DEF Invite
<1>3. ASSUME NEW i \in Ids
      PROVE  Lawful(Accept(i)) /\ Lawful(Resume(i))
  <2>1. "connected" \in CoreState /\ "resuming" \in CoreState
    BY DEF CoreState
  <2>2. Lawful(Accept(i))
    BY <1>1, <2>1, TakingLawful DEF Accept
  <2>3. Lawful(Resume(i))
    BY <1>1, <2>1, TakingLawful DEF Resume
  <2> QED BY <2>2, <2>3
<1>4. ASSUME NEW is \in SUBSET Ids
      PROVE  Lawful(Hold(is)) /\ Lawful(Terminate(is))
  <2>1. "pausing" \in CoreState /\ "released" \in CoreState
    BY DEF CoreState
  <2>2. Hold(is) \in [Ids -> CoreState] /\ Terminate(is) \in [Ids -> CoreState]
    BY <2>1 DEF Hold, PauseFrom, Terminate
  <2>3. \A i \in Ids : Hold(is)[i] = core[i] \/ (core[i] = "streaming" /\ Hold(is)[i] = "pausing")
    BY DEF Hold, PauseFrom
  <2>4. \A i \in Ids : \/ Terminate(is)[i] = core[i]
                       \/ /\ core[i] \notin {"none", "released"}
                          /\ Terminate(is)[i] = "released"
    BY DEF Terminate, LiveCalls
  <2> HIDE DEF Hold, Terminate
  <2>5. Lawful(Hold(is))
    BY <2>2, <2>3 DEF Lawful
  <2>6. Lawful(Terminate(is))
    BY <2>2, <2>4 DEF Lawful
  <2> QED BY <2>5, <2>6
<1>5. ASSUME NEW i \in Ids, NEW step \in OwnSteps, core[i] = step[1]
      PROVE  Lawful([core EXCEPT ![i] = step[2]])
  <2> DEFINE c == [core EXCEPT ![i] = step[2]]
  <2>1. /\ step[2] \in CoreState \ {"none", "released", "outgoing", "pausing", "resuming"}
        /\ core[i] # "released" /\ (core[i] = "none" <=> step[2] = "incoming")
    BY <1>5 DEF OwnSteps, CoreState
  <2>2. c \in [Ids -> CoreState] /\ c[i] = step[2] /\ \A j \in Ids \ {i} : c[j] = core[j]
    BY <2>1
  <2> HIDE DEF c
  <2>3. Lawful(c)
    BY <2>1, <2>2 DEF Lawful
  <2> QED BY <2>3 DEF c
<1> QED BY <1>1, <1>2, <1>3, <1>4, <1>5

LEMMA CommandLawful ==
  ASSUME core \in [Ids -> CoreState], NEW c \in S!Command, Perform(c), ~ResumesAgain(c)
  PROVE  \E after : Lawful(after) /\ React(after, KitAfter(c))
<1>1. /\ Found(c) \in SUBSET Ids
      /\ {j \in InState("none") \ incoming : kit[j] = "none"} \in SUBSET (InState("none") \ incoming)
  BY DEF Found, Known
<1>2. PICK after \in CoreAfter(c) \cup (IF CoreAfter(c) = {} THEN {core} ELSE {}) :
        React(after, KitAfter(c))
  BY DEF Perform
<1>3. CASE c.op = "lpStartCall"
  <2>1. after = core \/ \E i \in InState("none") \ incoming : after = Invite(i)
    BY <1>1, <1>2, <1>3 DEF CoreAfter
  <2> QED BY <1>2, <2>1, CoreLawful
<1>4. CASE c.op \in {"lpAnswer", "lpResume"}
  <2>1. after = core \/ \E i \in Ids : after = Accept(i) \/ after = Resume(i)
    BY <1>1, <1>2, <1>4 DEF CoreAfter
  <2> QED BY <1>2, <2>1, CoreLawful
<1>5. CASE c.op \notin {"lpStartCall", "lpAnswer", "lpResume"}
  <2>1. after \in {core, Terminate(Found(c)), Hold(Found(c))}
    BY <1>2, <1>5 DEF CoreAfter
  <2> QED BY <1>1, <1>2, <2>1, CoreLawful
<1> QED BY <1>3, <1>4, <1>5

-----------------------------------------------------------------------------
(* What native code tells Dart. *)
Updates(e, i) == e.id = i /\ e.op \in DOMAIN ShownAs

Dials == {"lnOutgoingInit", "lnOutgoingProgress"}

Arrives(e, i) == e.id = i /\ e.op = "lnIncomingReceived"

(* A call is announced as it starts and before it is updated; an update    *)
(* says what the core has, and one is sent of every state that shows; and  *)
(* an answer is one of a call that rings on the system's screen.           *)
Truthful(e) ==
  /\ e.op \in DOMAIN ShownAs =>
       /\ e.id \in Ids /\ core'[e.id] # "none"
       /\ core'[e.id] = "released" \/ ShownAs[e.op] \in Shows[core'[e.id]]
  /\ e.op \in Announcements =>
       e.id \in Ids /\ core[e.id] = "none" /\ core'[e.id] \in {"incoming", "outgoing"}
  /\ e.op \in Dials => e.id \in Ids /\ core'[e.id] = "outgoing"
  /\ e.op = "answerButtonPressed" => kit[e.id] = "ringing"

Says(r) ==
  /\ \A k \in 1..Len(r) : Truthful(r[k])
  /\ \A i \in Ids :
       core'[i] # core[i] /\ core'[i] \notin {"none", "incoming", "pausing", "resuming", "released"}
         => \E k \in 1..Len(r) : Updates(r[k], i)
  /\ \A i \in Ids :
       core'[i] # core[i] /\ core'[i] = "incoming" => \E k \in 1..Len(r) : Arrives(r[k], i)
  /\ \A i \in Ids, k, l \in 1..Len(r) : Announces(r[k], i) /\ Updates(r[l], i) => k < l

LEMMA EventsOfSay ==
  ASSUME NEW i \in Ids, NEW s \in CoreState
  PROVE  LET v == EventsOf(i, s)
         IN  /\ v \in Seq(Event) /\ Len(v) \in Nat
             /\ \A k \in 1..Len(v) :
                  /\ v[k].id = i
                  /\ v[k].op \in Announcements => s \in {"incoming", "outgoing"}
                  /\ v[k].op \in DOMAIN ShownAs => s = "released" \/ ShownAs[v[k].op] \in Shows[s]
                  /\ v[k].op \in DOMAIN ShownAs => s # "none"
                  /\ v[k].op \in Dials => s = "outgoing"
                  /\ v[k].op # "answerButtonPressed"
             /\ s \notin {"none", "incoming", "pausing", "resuming"} =>
                  \E k \in 1..Len(v) : Updates(v[k], i)
             /\ s = "incoming" => \E k \in 1..Len(v) : Arrives(v[k], i)
             /\ \A k, l \in 1..Len(v) : Announces(v[k], i) /\ Updates(v[l], i) => k < l
<1> DEFINE r == Reports[s]
           v == EventsOf(i, s)
<1>1. r \in Seq(EventOp) /\ Len(r) \in Nat /\ DOMAIN r = 1..Len(r)
  BY ReportsType, LenProperties
<1>2. v \in Seq(Event) /\ Len(v) = Len(r) /\ \A k \in 1..Len(r) : v[k].op = r[k] /\ v[k].id = i
  <2>1. v \in Seq(Event)
    BY EventsOfType
  <2>2. v = [k \in 1..Len(r) |-> Ev(r[k], i)]
    BY <1>1 DEF EventsOf
  <2>3. \A o : Ev(o, i).op = o /\ Ev(o, i).id = i
    BY DEF Ev
  <2> HIDE DEF r, v
  <2>4. DOMAIN v = 1..Len(r)
    BY <2>2
  <2>5. Len(v) = Len(r)
    BY <1>1, <2>1, <2>4, LenProperties
  <2> QED BY <2>1, <2>2, <2>3, <2>5
<1>3. \/ s \in {"none", "pausing", "resuming"} /\ r = <<>>
      \/ s = "incoming" /\ r = <<"lnIncomingReceived">>
      \/ s = "outgoing" /\ r = <<"lnOutgoingInit", "lnOutgoingProgress">>
      \/ s = "connected" /\ r = <<"lnCallConnected">>
      \/ s = "streaming" /\ r = <<"lnCallStreamsRunning">>
      \/ s = "paused" /\ r = <<"lnCallPaused">>
      \/ s = "pausedByRemote" /\ r = <<"lnCallPausedByRemote">>
      \/ s = "released" /\ r = <<"lnCallReleased">>
  BY DEF Reports, CoreState
<1> HIDE DEF r, v
<1>4. \/ s \in {"none", "pausing", "resuming"} /\ Len(r) = 0
      \/ s = "incoming" /\ Len(r) = 1 /\ r[1] = "lnIncomingReceived"
      \/ s = "outgoing" /\ Len(r) = 2 /\ r[1] = "lnOutgoingInit" /\ r[2] = "lnOutgoingProgress"
      \/ s = "connected" /\ Len(r) = 1 /\ r[1] = "lnCallConnected"
      \/ s = "streaming" /\ Len(r) = 1 /\ r[1] = "lnCallStreamsRunning"
      \/ s = "paused" /\ Len(r) = 1 /\ r[1] = "lnCallPaused"
      \/ s = "pausedByRemote" /\ Len(r) = 1 /\ r[1] = "lnCallPausedByRemote"
      \/ s = "released" /\ Len(r) = 1 /\ r[1] = "lnCallReleased"
  BY <1>3
<1>5. ASSUME NEW k \in 1..Len(r)
      PROVE  /\ r[k] \in Announcements => s \in {"incoming", "outgoing"} /\ k = 1
             /\ r[k] \in DOMAIN ShownAs => s = "released" \/ ShownAs[r[k]] \in Shows[s]
             /\ r[k] \in DOMAIN ShownAs =>
                  s \notin {"incoming", "none"} /\ (s = "outgoing" => k = 2)
             /\ r[k] \in Dials => s = "outgoing"
             /\ r[k] # "answerButtonPressed"
  BY <1>4 DEF Announcements, ShownAs, Shows, Dials
<1>6. s \notin {"none", "incoming", "pausing", "resuming"} =>
        Len(r) \in 1..Len(r) /\ r[Len(r)] \in DOMAIN ShownAs
  BY <1>4 DEF ShownAs
<1>7. \A k \in 1..Len(v) :
        /\ v[k].id = i
        /\ v[k].op \in Announcements => s \in {"incoming", "outgoing"}
        /\ v[k].op \in DOMAIN ShownAs => s = "released" \/ ShownAs[v[k].op] \in Shows[s]
        /\ v[k].op \in DOMAIN ShownAs => s # "none"
        /\ v[k].op \in Dials => s = "outgoing"
        /\ v[k].op # "answerButtonPressed"
  BY <1>2, <1>5
<1>8. s \notin {"none", "incoming", "pausing", "resuming"} =>
        \E k \in 1..Len(v) : Updates(v[k], i)
  BY <1>2, <1>6 DEF Updates
<1>9. s = "incoming" => \E k \in 1..Len(v) : Arrives(v[k], i)
  <2>1. s = "incoming" => 1 \in 1..Len(r) /\ r[1] = "lnIncomingReceived"
    BY <1>4
  <2> QED BY <1>2, <2>1 DEF Arrives
<1>10. \A k, l \in 1..Len(v) : Announces(v[k], i) /\ Updates(v[l], i) => k < l
  <2>1. SUFFICES ASSUME NEW k \in 1..Len(v), NEW l \in 1..Len(v),
                        Announces(v[k], i), Updates(v[l], i)
                 PROVE  k < l
    OBVIOUS
  <2>2. r[k] \in Announcements /\ r[l] \in DOMAIN ShownAs /\ k \in 1..Len(r) /\ l \in 1..Len(r)
    BY <1>2, <2>1 DEF Announces, Updates
  <2>3. s = "outgoing" /\ k = 1 /\ l = 2
    BY <1>5, <2>2
  <2> QED BY <2>3
<1> QED BY <1>1, <1>2, <1>7, <1>8, <1>9, <1>10 DEF v

LEMMA SaysNothing ==
  ASSUME NEW r, Len(r) = 0,
         \A i \in Ids : core'[i] # core[i] => core'[i] \in {"pausing", "resuming"}
  PROVE  Says(r)
<1>1. 1..Len(r) = {}
  OBVIOUS
<1> QED BY <1>1 DEF Says

LEMMA ReactSays ==
  ASSUME core \in [Ids -> CoreState], toDart \in Seq(Event), NEW c, Lawful(c),
         NEW k \in [Uuids -> KitState], React(c, k)
  PROVE  /\ core' = c /\ \A u \in Uuids : kit'[u] \in {k[u], "gone"}
         /\ \E r \in Seq(Event) : toDart' = toDart \o r /\ Says(r)
<1> DEFINE told == {i \in Ids : c[i] # core[i] /\ Reports[c[i]] # <<>>}
<1>1. core' = c /\ c \in [Ids -> CoreState]
  BY DEF React, Lawful
<1>2. \/ told = {} /\ toDart' = toDart /\ kit' = k
      \/ \E i \in told : /\ toDart' = toDart \o EventsOf(i, c[i])
                         /\ RingingDidTimeout(k, i) \/ kit' = k
  BY DEF React
<1>3. \A u \in Uuids : kit'[u] \in {k[u], "gone"}
  <2>1. \A i : RingingDidTimeout(k, i) => kit' = k \/ kit' = [k EXCEPT ![i] = "gone"]
    BY DEF RingingDidTimeout
  <2>2. kit' = k \/ \E i : kit' = [k EXCEPT ![i] = "gone"]
    <3> HIDE DEF told
    <3> QED BY <1>2, <2>1
  <2> QED BY <2>2
<1>4. \A i \in Ids : i \in told <=> c[i] # core[i] /\ c[i] \notin {"pausing", "resuming"}
  BY <1>1 DEF Lawful, Reports, CoreState
<1>5. told \in SUBSET Ids
  OBVIOUS
<1> HIDE DEF told
<1>6. CASE told = {} /\ toDart' = toDart
  <2>1. <<>> \in Seq(Event) /\ toDart' = toDart \o <<>> /\ Len(<<>>) = 0
    <3> HIDE DEF Event
    <3> QED BY <1>6, EmptySeq, ConcatEmptySeq
  <2>2. \A i \in Ids : core'[i] # core[i] => core'[i] \in {"pausing", "resuming"}
    BY <1>1, <1>4, <1>6
  <2>3. Says(<<>>)
    BY <2>1, <2>2, SaysNothing
  <2> QED BY <1>1, <1>3, <2>1, <2>3
<1>7. ASSUME NEW i \in told, toDart' = toDart \o EventsOf(i, c[i])
      PROVE  \E r \in Seq(Event) : toDart' = toDart \o r /\ Says(r)
  <2> DEFINE v == EventsOf(i, c[i])
  <2>1. i \in Ids /\ c[i] # core[i] /\ c[i] \in CoreState \ {"pausing", "resuming"}
    BY <1>1, <1>4, <1>5, <1>7
  <2>2. /\ v \in Seq(Event) /\ Len(v) \in Nat
        /\ \A l \in 1..Len(v) :
             /\ v[l].id = i
             /\ v[l].op \in Announcements => c[i] \in {"incoming", "outgoing"}
             /\ v[l].op \in DOMAIN ShownAs => c[i] = "released" \/ ShownAs[v[l].op] \in Shows[c[i]]
             /\ v[l].op \in DOMAIN ShownAs => c[i] # "none"
             /\ v[l].op \in Dials => c[i] = "outgoing"
             /\ v[l].op # "answerButtonPressed"
        /\ c[i] \notin {"none", "incoming", "pausing", "resuming"} =>
             \E l \in 1..Len(v) : Updates(v[l], i)
        /\ c[i] = "incoming" => \E l \in 1..Len(v) : Arrives(v[l], i)
        /\ \A l, m \in 1..Len(v) : Announces(v[l], i) /\ Updates(v[m], i) => l < m
    BY <2>1, EventsOfSay
  <2> HIDE DEF v
  <2>3. c[i] \in {"incoming", "outgoing"} => core[i] = "none"
    BY <2>1 DEF Lawful
  <2>4. ASSUME NEW j \in Ids, c[j] # core[j],
               c[j] \notin {"none", "pausing", "resuming", "released"}
        PROVE  j = i
    <3>1. i # j => c[i] \in {core[i], "pausing"}
      BY <2>1, <2>4 DEF Lawful
    <3> QED BY <2>1, <3>1
  <2>5. \A j \in Ids, l, m \in 1..Len(v) : Announces(v[l], j) /\ Updates(v[m], j) => l < m
    BY <2>2 DEF Announces
  <2>6. ASSUME NEW l \in 1..Len(v) PROVE Truthful(v[l])
    <3>1. v[l].op \in Announcements => v[l].id \in Ids /\ core[v[l].id] = "none"
                                       /\ core'[v[l].id] \in {"incoming", "outgoing"}
      BY <1>1, <2>1, <2>2, <2>3
    <3>2. v[l].op \in DOMAIN ShownAs =>
            /\ v[l].id \in Ids /\ core'[v[l].id] # "none"
            /\ core'[v[l].id] = "released" \/ ShownAs[v[l].op] \in Shows[core'[v[l].id]]
      BY <1>1, <2>1, <2>2
    <3>3. /\ v[l].op \in Dials => v[l].id \in Ids /\ core'[v[l].id] = "outgoing"
          /\ v[l].op # "answerButtonPressed"
      BY <1>1, <2>1, <2>2
    <3> QED BY <3>1, <3>2, <3>3 DEF Truthful
  <2>7. ASSUME NEW j \in Ids, core'[j] # core[j],
               core'[j] \notin {"none", "incoming", "pausing", "resuming", "released"}
        PROVE  \E l \in 1..Len(v) : Updates(v[l], j)
    BY <1>1, <2>1, <2>2, <2>4, <2>7
  <2>8. ASSUME NEW j \in Ids, core'[j] # core[j], core'[j] = "incoming"
        PROVE  \E l \in 1..Len(v) : Arrives(v[l], j)
    BY <1>1, <2>1, <2>2, <2>4, <2>8
  <2>9. Says(v)
    BY <2>5, <2>6, <2>7, <2>8 DEF Says
  <2> QED BY <1>7, <2>2, <2>9 DEF v
<1> QED BY <1>1, <1>2, <1>3, <1>6, <1>7

(* Native code tells Dart at most one thing while the core rests. *)
LEMMA TellsOne ==
  ASSUME UNCHANGED core, toDart \in Seq(Event),
         \/ toDart' = toDart
         \/ \E e \in Event :
              /\ toDart' = Append(toDart, e) /\ e.op \notin Announcements \cup Dials
              /\ e.op \in DOMAIN ShownAs => /\ e.id \in Ids /\ core[e.id] # "none"
                                            /\ ShownAs[e.op] \in Shows[core[e.id]]
              /\ e.op = "answerButtonPressed" => kit[e.id] = "ringing"
  PROVE  \E r \in Seq(Event) : toDart' = toDart \o r /\ Says(r)
<1>1. CASE toDart' = toDart
  <2>1. <<>> \in Seq(Event) /\ toDart' = toDart \o <<>> /\ Len(<<>>) = 0
    <3> HIDE DEF Event
    <3> QED BY <1>1, EmptySeq, ConcatEmptySeq
  <2>2. Says(<<>>)
    BY <2>1, SaysNothing
  <2> QED BY <2>1, <2>2
<1>2. ASSUME NEW e \in Event,
             toDart' = Append(toDart, e), e.op \notin Announcements \cup Dials,
             e.op \in DOMAIN ShownAs => /\ e.id \in Ids /\ core[e.id] # "none"
                                        /\ ShownAs[e.op] \in Shows[core[e.id]],
             e.op = "answerButtonPressed" => kit[e.id] = "ringing"
      PROVE  \E r \in Seq(Event) : toDart' = toDart \o r /\ Says(r)
  <2>1. <<e>> \in Seq(Event) /\ toDart' = toDart \o <<e>> /\ Len(<<e>>) = 1 /\ <<e>>[1] = e
    <3> HIDE DEF Event
    <3> QED BY <1>2, AppendIsConcat
  <2> DEFINE r == <<e>>
  <2>2. r \in Seq(Event) /\ toDart' = toDart \o r /\ \A k \in 1..Len(r) : r[k] = e
    BY <2>1
  <2> HIDE DEF r
  <2>3. Truthful(e)
    BY <1>2 DEF Truthful
  <2>4. \A i, k, l : ~(Announces(e, i) /\ Updates(e, i))
    BY EventOps DEF Announces, Updates
  <2>5. Says(r)
    BY <2>2, <2>3, <2>4 DEF Says
  <2> QED BY <2>2, <2>5
<1> QED BY <1>1, <1>2

-----------------------------------------------------------------------------
(* What native code and CallKit do in a step. *)
Begun(j) == core[j] \notin {"none", "incoming"}

NativeStep ==
  /\ phone'.calls = phone.calls /\ phone'.state = phone.state
  /\ phone'.uuid = phone.uuid /\ phone'.keys = phone.keys
  /\ P!Numbered(phone) => P!Numbered(phone')
  /\ Lawful(core') /\ UNCHANGED incoming
  /\ \A u \in Uuids : kit[u] # "none" => kit'[u] # "none"
  /\ \A u \in Uuids : kit'[u] = "ringing" =>
       kit[u] = "ringing" \/ (u \in Ids => u \in incoming)
  /\ \E r \in Seq(Event) : toDart' = toDart \o r /\ Says(r)

LEMMA PerformsTells ==
  ASSUME Seen, NEW o, NEW u \in Uuids, Performs(o, u) \/ Refuses(o, u),
         UNCHANGED <<phone, core, incoming>>
  PROVE  NativeStep
<1>1. /\ toDart \in Seq(Event) /\ core \in [Ids -> CoreState] /\ kit \in [Uuids -> KitState]
  BY DEF Seen, KitTyped
<1>2. /\ \A v \in Uuids : kit[v] # "none" => kit'[v] # "none"
      /\ \A v \in Uuids : kit'[v] = "ringing" => kit[v] = "ringing"
  BY <1>1 DEF Performs, Refuses
<1>3. \/ toDart' = toDart
      \/ \E b \in Buttons : /\ toDart' = Append(toDart, Ev(b, u))
                            /\ b = "answerButtonPressed" => kit[u] = "ringing"
  BY DEF Performs, Refuses, Buttons
<1>4. ASSUME NEW b \in Buttons
      PROVE  /\ Ev(b, u) \in Event /\ Ev(b, u).op = b /\ Ev(b, u).id = u
             /\ b \notin Announcements \cup Dials /\ b \notin DOMAIN ShownAs
  BY EvType DEF Buttons, Announcements, Dials, ShownAs
<1>5. \E r \in Seq(Event) : toDart' = toDart \o r /\ Says(r)
  BY <1>1, <1>3, <1>4, TellsOne
<1>6. Lawful(core')
  BY <1>1, CoreLawful
<1> QED BY <1>2, <1>5, <1>6 DEF NativeStep

LEMMA ReactMoves ==
  ASSUME Seen, NEW c, Lawful(c), NEW k \in [Uuids -> KitState], React(c, k),
         \A u \in Uuids : (kit[u] # "none" => k[u] # "none")
                          /\ (k[u] = "ringing" => kit[u] = "ringing"),
         phone'.calls = phone.calls, phone'.state = phone.state,
         phone'.uuid = phone.uuid, phone'.keys = phone.keys,
         P!Numbered(phone) => P!Numbered(phone'), UNCHANGED incoming
  PROVE  NativeStep
<1>1. toDart \in Seq(Event) /\ core \in [Ids -> CoreState]
  BY DEF Seen
<1>2. /\ core' = c /\ \A u \in Uuids : kit'[u] \in {k[u], "gone"}
      /\ \E r \in Seq(Event) : toDart' = toDart \o r /\ Says(r)
  BY <1>1, ReactSays
<1>3. /\ \A v \in Uuids : kit[v] # "none" => kit'[v] # "none"
      /\ \A v \in Uuids : kit'[v] = "ringing" => kit[v] = "ringing"
  BY <1>2
<1> QED BY <1>2, <1>3 DEF NativeStep

LEMMA NativeMoves ==
  ASSUME Seen,
         \/ NativeCommand /\ Perform(Head(phone.out))
         \/ KitPerforms \/ \E i \in Ids : CoreActs(i)
         \/ \E u \in Uuids : SystemButton(u) \/ CallChanged(u) \/ PushArrives(u) \/ RingingTimer(u)
  PROVE  NativeStep
<1>1. /\ toDart \in Seq(Event) /\ core \in [Ids -> CoreState] /\ kit \in [Uuids -> KitState]
      /\ requests \in Seq(Action) /\ phone.out \in Seq(S!Command)
  BY DEF Seen, KitTyped, PhoneInv, Linked
<1>2. CASE NativeCommand /\ Perform(Head(phone.out))
  <2> DEFINE h == Head(phone.out)
  <2>1. /\ phone.out # <<>> /\ phone' = [phone EXCEPT !.out = Tail(@)] /\ Perform(h)
        /\ UNCHANGED incoming
    BY <1>2 DEF NativeCommand, Perform
  <2>2. h \in S!Command
    <3> HIDE DEF S!Command
    <3> QED BY <1>1, <2>1, HeadTailProperties
  <2> HIDE DEF h
  <2>3. /\ phone'.calls = phone.calls /\ phone'.state = phone.state
        /\ phone'.uuid = phone.uuid /\ phone'.keys = phone.keys
        /\ phone'.created = phone.created /\ phone'.activeCall = phone.activeCall
    BY <2>1 DEF Seen, PhoneInv, Linked, S!InitPhone
  <2>4. P!Numbered(phone) => P!Numbered(phone')
    BY <2>3 DEF P!Numbered, P!Known
  <2>5. CASE ResumesAgain(h)
    <3>1. PICK i \in Found(h) : /\ core[i] = "resuming"
                               /\ toDart' = Append(toDart, Ev("lnCallConnected", i))
      BY <2>1, <2>5 DEF Perform
    <3>2. UNCHANGED <<core, kit>>
      BY <2>1, <2>5 DEF Perform
    <3> DEFINE e == Ev("lnCallConnected", i)
    <3>3. /\ i \in Ids /\ e \in Event /\ e.op = "lnCallConnected" /\ e.id = i
          /\ ShownAs["lnCallConnected"] \in Shows["resuming"]
          /\ "lnCallConnected" \notin Announcements \cup Dials
      <4>1. i \in Ids
        BY DEF Found, Known
      <4> QED BY <4>1 DEF Ev, Event, Uuids, ShownAs, Shows, Announcements, Dials
    <3> HIDE DEF e
    <3>4. e.op # "answerButtonPressed"
      BY <3>3
    <3>5. \E r \in Seq(Event) : toDart' = toDart \o r /\ Says(r)
      BY <1>1, <3>1, <3>2, <3>3, <3>4, TellsOne DEF e
    <3>6. Lawful(core')
      BY <1>1, <3>2, CoreLawful
    <3> QED BY <2>1, <2>3, <2>4, <3>2, <3>5, <3>6 DEF NativeStep
  <2>6. CASE ~ResumesAgain(h)
    <3>1. PICK c : Lawful(c) /\ React(c, KitAfter(h))
      BY <1>1, <2>1, <2>2, <2>6, CommandLawful
    <3>2. /\ KitAfter(h) \in [Uuids -> KitState]
          /\ \A u \in Uuids : (kit[u] # "none" => KitAfter(h)[u] # "none")
                              /\ (KitAfter(h)[u] = "ringing" => kit[u] = "ringing")
      BY <1>1 DEF KitAfter, KitState
    <3> QED BY <2>1, <2>3, <2>4, <3>1, <3>2, ReactMoves
  <2> QED BY <2>5, <2>6
<1>3. CASE KitPerforms
  <2>1. requests # <<>>
    BY <1>3 DEF KitPerforms
  <2>2. Head(requests) \in Action
    <3> HIDE DEF Action
    <3> QED BY <1>1, <2>1, HeadTailProperties
  <2> DEFINE a == Head(requests)
  <2>3. a.to \in Uuids /\ (Performs(a.op, a.to) \/ Refuses(a.op, a.to))
    BY <1>3, <2>2 DEF Action, KitPerforms
  <2> QED BY <1>3, <2>3, PerformsTells DEF KitPerforms
<1>4. ASSUME NEW u \in Uuids, SystemButton(u) PROVE NativeStep
  BY <1>4, PerformsTells DEF SystemButton
<1>5. ASSUME NEW u \in Uuids, CallChanged(u) \/ PushArrives(u) \/ RingingTimer(u)
      PROVE  NativeStep
  <2>1. UNCHANGED <<phone, core, toDart, incoming>>
    BY <1>5 DEF CallChanged, PushArrives, RingingTimer
  <2>2. /\ \A v \in Uuids : kit[v] # "none" => kit'[v] # "none"
        /\ \A v \in Uuids : kit'[v] = "ringing" =>
             kit[v] = "ringing" \/ (v \in Ids => v \in incoming)
    <3>1. CASE CallChanged(u)
      BY <3>1 DEF CallChanged
    <3>2. CASE PushArrives(u)
      BY <1>1, <3>2, IosCallsAssumption DEF PushArrives
    <3>3. CASE RingingTimer(u)
      BY <1>1, <3>3 DEF RingingTimer, RingingDidTimeout
    <3> QED BY <1>5, <3>1, <3>2, <3>3
  <2>3. \E r \in Seq(Event) : toDart' = toDart \o r /\ Says(r)
    BY <1>1, <2>1, TellsOne
  <2>4. Lawful(core')
    BY <1>1, <2>1, CoreLawful
  <2> QED BY <2>1, <2>2, <2>3, <2>4 DEF NativeStep
<1>6. ASSUME NEW i \in Ids, CoreActs(i) PROVE NativeStep
  <2>1. \E c : Lawful(c) /\ React(c, kit)
    <3>1. {i} \in SUBSET Ids
      OBVIOUS
    <3> QED BY <1>1, <1>6, <3>1, CoreLawful DEF CoreActs
  <2>2. UNCHANGED <<phone, incoming>>
    BY <1>6 DEF CoreActs
  <2> QED BY <1>1, <2>1, <2>2, ReactMoves
<1> QED BY <1>2, <1>3, <1>4, <1>5, <1>6

-----------------------------------------------------------------------------
(* CallKit rings the calls that this phone gets, at any time, and none     *)
(* that it makes, so the answer of one is never taken for the answer of    *)
(* the other.                                                              *)
Calling(p, j) ==
  \E c \in p.calls : c.id = j /\ (c.direction = "OUTGOING" \/ p.state[c.n] = "PROGRESS")

Called(j) == core[j] = "outgoing" \/ Pending(Dials, j) \/ Calling(phone, j)

Strange(p, u) == \E k \in Ids : p.uuid[k] = u /\ u # k

Rung(u) == kit[u] = "ringing" \/ Pending({"answerButtonPressed"}, u) \/ Strange(phone, u)

RungOrCalled ==
  \A j \in Ids : (Rung(j) => j \in incoming) /\ (Called(j) => j \notin incoming /\ Begun(j))

Apart ==
  /\ P!Numbered(phone)
  /\ \A k \in 1..Len(toDart) : toDart[k].op \in DOMAIN ShownAs => toDart[k].id \in Ids
  /\ RungOrCalled
  /\ \A i \in Ids : ~P!Keyed(phone, i) => phone.uuid[i] = NoUuid

LEMMA RungOrCalledStep ==
  ASSUME RungOrCalled, UNCHANGED incoming,
         \A j \in Ids : Called(j)' => Called(j) \/ (j \notin incoming /\ Begun(j)'),
         \A j \in Ids : Rung(j)' => Rung(j) \/ j \in incoming,
         \A j \in Ids : Begun(j) => Begun(j)'
  PROVE  RungOrCalled'
<1> SUFFICES ASSUME NEW j \in Ids
             PROVE  (Rung(j)' => j \in incoming) /\ (Called(j)' => j \notin incoming /\ Begun(j)')
  BY DEF RungOrCalled
<1>1. (Rung(j) => j \in incoming) /\ (Called(j) => j \notin incoming /\ Begun(j))
  BY DEF RungOrCalled
<1> HIDE DEF Rung, Called, Begun
<1> QED BY <1>1

LEMMA PendingAppended ==
  ASSUME toDart \in Seq(Event), NEW r \in Seq(Event), toDart' = toDart \o r,
         NEW ops, NEW u, Pending(ops, u)'
  PROVE  Pending(ops, u) \/ \E k \in 1..Len(r) : r[k].id = u /\ r[k].op \in ops
<1>1. /\ toDart' \in Seq(Event) /\ Len(toDart) \in Nat /\ Len(r) \in Nat
      /\ \A k \in 1..Len(toDart') :
           \/ k \in 1..Len(toDart) /\ toDart'[k] = toDart[k]
           \/ k - Len(toDart) \in 1..Len(r) /\ toDart'[k] = r[k - Len(toDart)]
  <2> HIDE DEF Event
  <2> QED BY ConcatSplits
<1>2. DOMAIN toDart' = 1..Len(toDart') /\ DOMAIN toDart = 1..Len(toDart)
  BY <1>1, LenProperties
<1> QED BY <1>1, <1>2 DEF Pending

LEMMA ApartNative ==
  ASSUME Seen, Apart, NativeStep
  PROVE  Apart'
<1>1. /\ toDart \in Seq(Event) /\ core \in [Ids -> CoreState]
      /\ Lawful(core') /\ RungOrCalled /\ UNCHANGED incoming
      /\ \A j \in Ids : kit'[j] = "ringing" => kit[j] = "ringing" \/ j \in incoming
  BY DEF Seen, Apart, NativeStep, Uuids
<1>2. PICK r \in Seq(Event) : toDart' = toDart \o r /\ Says(r)
  BY DEF NativeStep
<1>3. \A k \in 1..Len(r) : Truthful(r[k])
  BY <1>2 DEF Says
<1>4. \A j \in Ids : core'[j] = "outgoing" => core[j] = "outgoing" \/ (j \notin incoming /\ Begun(j)')
  BY <1>1 DEF Lawful, Begun
<1>5. \A j \in Ids : Begun(j) => Begun(j)'
  BY <1>1 DEF Lawful, Begun
<1>6. \A j : Calling(phone', j) => Calling(phone, j)
  BY DEF Calling, NativeStep
<1>7. \A u : Strange(phone', u) => Strange(phone, u)
  BY DEF Strange, NativeStep
<1>8. ASSUME NEW j \in Ids, Called(j)'
      PROVE  Called(j) \/ (j \notin incoming /\ Begun(j)')
  <2>1. Pending(Dials, j)' => Pending(Dials, j) \/ core'[j] = "outgoing"
    <3>1. Pending(Dials, j)' =>
            Pending(Dials, j) \/ \E k \in 1..Len(r) : r[k].id = j /\ r[k].op \in Dials
      BY <1>1, <1>2, PendingAppended
    <3> QED BY <1>3, <3>1 DEF Truthful
  <2> QED BY <1>4, <1>6, <1>8, <2>1 DEF Called
<1>9. ASSUME NEW u \in Ids, Rung(u)'
      PROVE  Rung(u) \/ u \in incoming
  <2>1. Pending({"answerButtonPressed"}, u)' => Pending({"answerButtonPressed"}, u) \/ kit[u] = "ringing"
    <3>1. Pending({"answerButtonPressed"}, u)' =>
            \/ Pending({"answerButtonPressed"}, u)
            \/ \E k \in 1..Len(r) : r[k].id = u /\ r[k].op \in {"answerButtonPressed"}
      BY <1>1, <1>2, PendingAppended
    <3> QED BY <1>3, <3>1 DEF Truthful
  <2> QED BY <1>1, <1>7, <1>9, <2>1 DEF Rung
<1>10. RungOrCalled'
  BY <1>1, <1>5, <1>8, <1>9, RungOrCalledStep
<1>11. ASSUME NEW k \in 1..Len(toDart'), toDart'[k].op \in DOMAIN ShownAs
       PROVE  toDart'[k].id \in Ids
  <2>1. \/ k \in 1..Len(toDart) /\ toDart'[k] = toDart[k]
        \/ k - Len(toDart) \in 1..Len(r) /\ toDart'[k] = r[k - Len(toDart)]
    <3> HIDE DEF Event
    <3> QED BY <1>1, <1>2, ConcatSplits
  <2> QED BY <1>3, <1>11, <2>1 DEF Apart, Truthful
<1>12. \A i \in Ids : ~P!Keyed(phone', i) => phone'.uuid[i] = NoUuid
  BY DEF Apart, NativeStep, P!Keyed
<1>13. P!Numbered(phone')
  BY DEF Apart, NativeStep
<1> QED BY <1>10, <1>11, <1>12, <1>13 DEF Apart

(* The event at the head of the channel.                                   *)
LEMMA EventHeard ==
  ASSUME Seen, Apart, DartEvent
  PROVE  LET h == Head(toDart)
             t == Tail(toDart)
         IN  /\ h \in Event /\ t \in Seq(Event) /\ toDart' = t
             /\ UNCHANGED <<core, requests, kit, incoming, answeredUuids>>
             /\ Len(toDart) \in Nat \ {0} /\ Len(t) = Len(toDart) - 1
             /\ h = toDart[1] /\ \A k \in 1..Len(t) : t[k] = toDart[k + 1]
             /\ Heard(h) /\ phone' = Handle(h) /\ P!IosInv(phone')
             /\ \A j \in Ids : P!Keyed(phone, j) => P!Keyed(phone', j)
             /\ h.op \in Announcements =>
                  /\ h.id \in Ids /\ ~P!Keyed(phone, h.id) /\ P!Keyed(phone', h.id)
                  /\ core[h.id] # "none"
             /\ h.op \in DOMAIN ShownAs => h.id \in Ids
<1> DEFINE h == Head(toDart)
           t == Tail(toDart)
<1>1. /\ toDart # <<>> /\ toDart \in Seq(Event) /\ toDart' = t /\ S!Do(Handle(h))
      /\ UNCHANGED <<core, requests, kit, incoming, answeredUuids>>
      /\ P!IosInv(phone) /\ P!Numbered(phone)
  BY DEF DartEvent, Seen, PhoneInv, Apart
<1>2. /\ h \in Event /\ t \in Seq(Event)
      /\ Len(toDart) \in Nat \ {0} /\ Len(t) = Len(toDart) - 1
      /\ h = toDart[1] /\ \A k \in 1..Len(t) : t[k] = toDart[k + 1]
  <2> HIDE DEF Event
  <2> QED BY <1>1, HeadTailProperties, EmptySeq, LenProperties
<1>3. phone' = Handle(h)
  BY <1>1, DoIs
<1>4. h.op \in Announcements =>
        Announced(phone, phone', h.id) /\ S!Next /\ ~P!Keyed(phone, h.id) /\ h.id \in Ids
  BY SeenAnnouncement
<1>5. h.op \notin Announcements => S!Next \/ phone' = phone
  BY OtherEvent
<1> HIDE DEF h, t
<1>6. 1 \in 1..Len(toDart) /\ toDart[1] = h
  BY <1>2
<1>7. h.op \in Announcements => core[h.id] # "none"
  BY <1>6 DEF Seen, AnnouncedOnce
<1>8. h.op \in DOMAIN ShownAs => h.id \in Ids
  BY <1>6 DEF Apart
<1>9. P!Handled(phone, phone') /\ P!IosInv(phone')
  BY <1>1, <1>4, <1>5, StepOfPhone
<1>10. Heard(h)
  <2>1. CASE h.op \in Announcements
    <3>1. phone.created < MaxObjects
      BY <1>4, <2>1, ObjectIsLeft DEF Seen
    <3> QED BY <1>1, <1>2, <1>3, <1>4, <2>1, <3>1, AnnouncementHeard
  <2>2. CASE h.op \notin Announcements
    BY <1>1, <1>2, <2>2, OtherHeard
  <2> QED BY <2>1, <2>2
<1>11. \A j \in Ids : P!Keyed(phone, j) => P!Keyed(phone', j)
  <2>1. phone'.keys = phone.keys => \A j : P!Keyed(phone, j) => P!Keyed(phone', j)
    BY DEF P!Keyed
  <2> QED BY <1>9, <2>1 DEF P!Handled, P!Ended, P!Kept, P!Rested, P!Attended, P!Saved, P!SameList,
             P!Removed, P!Announced
<1>12. h.op \in Announcements => P!Keyed(phone', h.id)
  BY <1>4, <1>9 DEF Announced, S!IsListed, P!IosInv, P!AllKeyed
<1> QED BY <1>1, <1>2, <1>3, <1>4, <1>7, <1>8, <1>9, <1>10, <1>11, <1>12 DEF h, t

LEMMA EventPending ==
  ASSUME toDart \in Seq(Event), toDart' \in Seq(Event), Len(toDart) \in Nat \ {0},
         Len(toDart') = Len(toDart) - 1,
         \A k \in 1..Len(toDart') : toDart'[k] = toDart[k + 1],
         NEW ops, NEW u
  PROVE  /\ Pending(ops, u)' => Pending(ops, u)
         /\ toDart[1].id = u /\ toDart[1].op \in ops => Pending(ops, u)
         /\ Pending(ops, u) => Pending(ops, u)' \/ (toDart[1].id = u /\ toDart[1].op \in ops)
<1>1. DOMAIN toDart' = 1..Len(toDart') /\ DOMAIN toDart = 1..Len(toDart)
  BY LenProperties
<1>2. /\ \A k \in 1..Len(toDart') : k + 1 \in 1..Len(toDart)
      /\ \A k \in 1..Len(toDart) : k # 1 => k - 1 \in 1..Len(toDart') /\ toDart'[k - 1] = toDart[k]
      /\ 1 \in 1..Len(toDart)
  OBVIOUS
<1> QED BY <1>1, <1>2 DEF Pending

(* What the rest of the event needs of its head.                           *)
LEMMA HeadIsPending ==
  ASSUME Seen, Apart, DartEvent, NEW ops, NEW u
  PROVE  LET h == Head(toDart)
         IN  /\ Pending(ops, u)' => Pending(ops, u)
             /\ h.id = u /\ h.op \in ops => Pending(ops, u)
             /\ Pending(ops, u) => Pending(ops, u)' \/ (h.id = u /\ h.op \in ops)
<1> DEFINE h == Head(toDart)
           t == Tail(toDart)
<1>1. /\ toDart \in Seq(Event) /\ t \in Seq(Event) /\ toDart' = t
      /\ Len(toDart) \in Nat \ {0} /\ Len(t) = Len(toDart) - 1
      /\ h = toDart[1] /\ \A k \in 1..Len(t) : t[k] = toDart[k + 1]
  BY EventHeard DEF Seen
<1> HIDE DEF h, t
<1>2. /\ Pending(ops, u)' => Pending(ops, u)
      /\ toDart[1].id = u /\ toDart[1].op \in ops => Pending(ops, u)
      /\ Pending(ops, u) => Pending(ops, u)' \/ (toDart[1].id = u /\ toDart[1].op \in ops)
  BY <1>1, EventPending
<1> QED BY <1>1, <1>2 DEF h

LEMMA ApartEvent ==
  ASSUME Seen, Apart, DartEvent
  PROVE  Apart'
<1> DEFINE h == Head(toDart)
           t == Tail(toDart)
           c == S!CallByUuid(phone, h.id)
<1>1. /\ h \in Event /\ t \in Seq(Event) /\ toDart' = t /\ UNCHANGED <<core, kit, incoming>>
      /\ Len(toDart) \in Nat \ {0} /\ Len(t) = Len(toDart) - 1
      /\ h = toDart[1] /\ \A k \in 1..Len(t) : t[k] = toDart[k + 1]
      /\ Heard(h)
      /\ \A j \in Ids : P!Keyed(phone, j) => P!Keyed(phone', j)
      /\ h.op \in Announcements => h.id \in Ids /\ P!Keyed(phone', h.id)
      /\ h.op \in DOMAIN ShownAs => h.id \in Ids
  BY EventHeard
<1>2. \A ops, u : /\ Pending(ops, u)' => Pending(ops, u)
                  /\ h.id = u /\ h.op \in ops => Pending(ops, u)
  BY HeadIsPending
<1>3. /\ Linked(phone) /\ RungOrCalled /\ phone.calls \in SUBSET S!Call
      /\ phone.uuid \in [Ids -> Uuids \cup {NoUuid}]
      /\ \A a \in phone.calls : a.id \in Ids /\ P!Keyed(phone, a.id) /\ a # NoCall
      /\ \A i \in Ids : ~P!Keyed(phone, i) => phone.uuid[i] = NoUuid
  BY NoCallIsNull DEF Seen, Apart, PhoneInv, Linked, P!IosInv, P!AllKeyed, S!Call
<1> HIDE DEF h, t
<1>4. h.op \in Announcements \cup DOMAIN ShownAs \cup Buttons
  BY <1>1 DEF Event
<1>5. c # NoCall => c \in phone.calls /\ phone.uuid[c.id] = h.id
  BY <1>3, LookupByUuid
<1> HIDE DEF c
<1>6. ASSUME NEW j \in Ids, Calling(phone', j) PROVE Called(j)
  <2>1. PICK d \in phone'.calls :
          d.id = j /\ (d.direction = "OUTGOING" \/ phone'.state[d.n] = "PROGRESS")
    BY <1>6 DEF Calling
  <2>2. d \in phone.calls /\ phone'.state[d.n] = phone.state[d.n] => Called(j)
    BY <2>1 DEF Called, Calling
  <2>3. d \in phone.calls /\ d.direction = "OUTGOING" => Called(j)
    BY <2>1 DEF Called, Calling
  <2>4. CASE h.op \in Announcements
    <3>1. CASE d.id = h.id /\ h.op = "lnOutgoingInit"
      BY <1>2, <2>1, <3>1 DEF Called, Dials
    <3>2. CASE d.id = h.id /\ phone'.state[d.n] = "NONE" /\ d.direction # "OUTGOING"
      BY <2>1, <3>2
    <3> QED BY <1>1, <2>2, <2>4, <3>1, <3>2 DEF Heard
  <2>5. CASE h.op \in DOMAIN ShownAs
    <3>1. /\ d \in phone.calls
          /\ phone'.state[d.n] = IF d = c THEN ShownAs[h.op] ELSE phone.state[d.n]
      BY <1>1, <2>5, EventOps DEF Heard, c
    <3>2. CASE d # c \/ d.direction = "OUTGOING"
      BY <2>2, <2>3, <3>1, <3>2
    <3>3. CASE d = c /\ ShownAs[h.op] = "PROGRESS"
      <4>1. h.op \in Dials
        BY <2>5, <3>3 DEF ShownAs, Dials
      <4>2. Called(h.id) /\ h.id \in Ids
        BY <1>1, <1>2, <2>5, <4>1 DEF Called
      <4>3. phone.uuid[j] = h.id
        BY <1>3, <1>5, <2>1, <3>1, <3>3
      <4>4. ~Rung(h.id)
        BY <1>3, <4>2 DEF RungOrCalled
      <4> QED BY <4>2, <4>3, <4>4 DEF Rung, Strange
    <3> QED BY <2>1, <3>1, <3>2, <3>3
  <2>6. CASE h.op \in Buttons
    BY <1>1, <2>2, <2>6, EventOps DEF Heard
  <2> QED BY <1>4, <2>4, <2>5, <2>6
<1>7. ASSUME NEW u \in Uuids, Strange(phone', u) PROVE Rung(u)
  <2>1. PICK k \in Ids : phone'.uuid[k] = u /\ u # k
    BY <1>7 DEF Strange
  <2>2. phone.uuid[k] = u => Rung(u)
    BY <2>1 DEF Rung, Strange
  <2>3. CASE h.op \in Announcements
    BY <1>1, <1>3, <2>1, <2>2, <2>3 DEF Heard
  <2>4. CASE h.op \in DOMAIN ShownAs
    BY <1>1, <2>1, <2>2, <2>4 DEF Heard
  <2>5. CASE h.op \in Buttons /\ phone'.uuid = phone.uuid
    BY <2>1, <2>2, <2>5
  <2>6. CASE h.op = "answerButtonPressed" /\ Adopts(h.id)
    <3>1. Pending({"answerButtonPressed"}, h.id)
      BY <1>2, <2>6
    <3>2. u = h.id \/ phone.uuid[k] = u
      BY <1>3, <2>1, <2>6 DEF Adopts
    <3> QED BY <2>2, <3>1, <3>2 DEF Rung
  <2> QED BY <1>1, <1>4, <2>3, <2>4, <2>5, <2>6 DEF Heard
<1>8. RungOrCalled'
  <2>1. \A j \in Ids : Called(j)' => Called(j)
    BY <1>1, <1>2, <1>6 DEF Called
  <2>2. \A u \in Ids : Rung(u)' => Rung(u)
    BY <1>1, <1>2, <1>7 DEF Rung, Uuids
  <2>3. \A j : Begun(j)' <=> Begun(j)
    BY <1>1 DEF Begun
  <2> QED BY <1>1, <1>3, <2>1, <2>2, <2>3, RungOrCalledStep
<1>9. ASSUME NEW i \in Ids, ~P!Keyed(phone', i) PROVE phone'.uuid[i] = NoUuid
  <2>1. ~P!Keyed(phone, i) /\ phone.uuid[i] = NoUuid
    BY <1>1, <1>3, <1>9
  <2>2. CASE h.op \in Announcements
    <3>1. i # h.id
      BY <1>1, <1>9, <2>2
    <3> QED BY <1>1, <1>3, <2>1, <2>2, <3>1 DEF Heard
  <2>3. CASE phone'.uuid = phone.uuid
    BY <2>1, <2>3
  <2>4. CASE Adopts(h.id)
    BY <1>3, <2>1, <2>4 DEF Adopts
  <2> QED BY <1>1, <1>4, <2>2, <2>3, <2>4 DEF Heard
<1>10. ASSUME NEW k \in 1..Len(t), t[k].op \in DOMAIN ShownAs PROVE t[k].id \in Ids
  <2>1. k + 1 \in 1..Len(toDart) /\ t[k] = toDart[k + 1]
    BY <1>1
  <2> QED BY <1>10, <2>1 DEF Apart
<1> QED BY <1>1, <1>8, <1>9, <1>10 DEF Apart, Heard

(* A call that has the uuid of another one keeps it, or gets a third's.    *)
LEMMA MistakesStay ==
  ASSUME Seen, Apart, DartEvent, NoneMistaken'
  PROVE  NoneMistaken
<1> DEFINE h == Head(toDart)
<1>1. /\ h \in Event /\ Heard(h)
      /\ h.op \in Announcements => h.id \in Ids /\ ~P!Keyed(phone, h.id)
  BY EventHeard
<1>2. h.op = "answerButtonPressed" => Pending({"answerButtonPressed"}, h.id)
  <2>1. \A ops, u : h.id = u /\ h.op \in ops => Pending(ops, u)
    BY HeadIsPending
  <2> HIDE DEF h
  <2> QED BY <2>1
<1>3. /\ RungOrCalled /\ phone.uuid \in [Ids -> Uuids \cup {NoUuid}]
      /\ \A a \in phone.calls : a.id \in Ids
      /\ \A i \in Ids : ~P!Keyed(phone, i) => phone.uuid[i] = NoUuid
  BY DEF Seen, Apart, PhoneInv, Linked, S!Call
<1> HIDE DEF h
<1>4. h.op \in Announcements \cup DOMAIN ShownAs \cup Buttons /\ h.id \in Uuids
  BY <1>1 DEF Event
<1>5. \A i \in Ids : phone'.uuid[i] \in {NoUuid, i}
  BY DEF NoneMistaken
<1>6. ASSUME NEW i \in Ids PROVE phone.uuid[i] \in {NoUuid, i}
  <2>1. CASE phone'.uuid = phone.uuid
    BY <1>5, <2>1
  <2>2. CASE h.op \in Announcements
    <3>1. i # h.id => phone'.uuid[i] = phone.uuid[i]
      BY <1>1, <1>3, <2>2 DEF Heard
    <3> QED BY <1>1, <1>3, <1>5, <2>2, <3>1
  <2>3. CASE h.op = "answerButtonPressed" /\ Adopts(h.id)
    <3>1. PICK a \in phone.calls : /\ phone.state[a.n] = "PROGRESS"
                                   /\ phone'.uuid = [phone.uuid EXCEPT ![a.id] = h.id]
      BY <2>3 DEF Adopts
    <3>2. a.id # i => phone'.uuid[i] = phone.uuid[i]
      BY <1>3, <3>1
    <3>3. ASSUME a.id = i PROVE FALSE
      <4>1. phone'.uuid[i] = h.id
        BY <1>3, <3>1, <3>3
      <4>2. h.id = i
        BY <1>4, <1>5, <4>1, IosCallsAssumption
      <4>3. Called(i)
        BY <3>1, <3>3 DEF Called, Calling
      <4>4. Rung(i)
        BY <1>2, <2>3, <4>2 DEF Rung
      <4> QED BY <1>3, <4>3, <4>4 DEF RungOrCalled
    <3> QED BY <1>5, <3>2, <3>3
  <2> QED BY <1>1, <1>4, <2>1, <2>2, <2>3 DEF Heard
<1> QED BY <1>6 DEF NoneMistaken

(* The user of the app changes neither states nor uuids.                   *)
LEMMA UserRests ==
  ASSUME Seen, P!Numbered(phone), User
  PROVE  /\ UNCHANGED <<core, toDart, requests, kit, incoming, answeredUuids>>
         /\ P!KeepsStates(phone, phone') /\ phone'.uuid = phone.uuid
         /\ phone'.keys = phone.keys /\ P!IosInv(phone')
<1>1. /\ Linked(phone) /\ PhoneInv(phone) /\ P!IosInv(phone) /\ P!Sound(phone)
      /\ UNCHANGED <<core, toDart, requests, kit, incoming, answeredUuids>>
  BY DEF Seen, PhoneInv, User, P!IosInv
<1>2. phone'.calls \subseteq phone.calls /\ phone'.uuid = phone.uuid
  BY <1>1, UserAccounts DEF Sheds
<1>3. S!Next
  BY DEF User, S!User, S!Next
<1>4. P!Handled(phone, phone') /\ P!IosInv(phone')
  BY <1>1, <1>3, StepOfPhone
<1>5. phone'.keys = phone.keys
  BY <1>1, <1>2, <1>4, KeysStay
<1>6. P!Acted(phone, phone')
  <2>1. \/ P!TapAnswer \/ P!TapHangUp \/ P!TapHold \/ P!TapMute \/ P!TapRow \/ P!TapTransfer
        \/ P!Dial \/ P!AssistedTransfer \/ \E i \in Ids : P!SaveDisposition(i)
    BY SameTaps DEF User
  <2>2. CASE \/ P!TapAnswer \/ P!TapHangUp \/ P!TapHold \/ P!TapMute \/ P!TapRow \/ P!TapTransfer
    BY <1>1, <2>2, SoftphoneAssumed, NullAssumed, P!TapActed
  <2>3. CASE P!Dial \/ P!AssistedTransfer \/ \E i \in Ids : P!SaveDisposition(i)
    BY <1>1, <2>3, SoftphoneAssumed, NullAssumed, P!OtherUserActed
  <2> QED BY <2>1, <2>2, <2>3
<1>7. P!KeepsStates(phone, phone')
  BY <1>1, <1>6, SoftphoneAssumed, NullAssumed, P!ActedNumbered
<1> QED BY <1>1, <1>2, <1>4, <1>5, <1>7

LEMMA ApartUser ==
  ASSUME Seen, Apart, User
  PROVE  Apart'
<1>1. /\ UNCHANGED <<core, toDart, kit, incoming>> /\ P!KeepsStates(phone, phone')
      /\ phone'.uuid = phone.uuid /\ phone'.keys = phone.keys
  BY UserRests DEF Apart
<1>2. P!Numbered(phone') /\ \A j : Calling(phone', j) => Calling(phone, j)
  BY <1>1 DEF P!KeepsStates, Calling
<1>3. \A ops, u : Pending(ops, u)' <=> Pending(ops, u)
  BY <1>1 DEF Pending
<1>4. \A j : Called(j)' => Called(j)
  BY <1>1, <1>2, <1>3 DEF Called
<1>5. \A u : Rung(u)' => Rung(u)
  BY <1>1, <1>3 DEF Rung, Strange
<1>6. \A j : Begun(j)' <=> Begun(j)
  BY <1>1 DEF Begun
<1>7. RungOrCalled'
  BY <1>1, <1>4, <1>5, <1>6, RungOrCalledStep DEF Apart
<1> QED BY <1>1, <1>2, <1>7 DEF Apart, P!Keyed

(* Without Softphone and events only CallKit rings.                        *)
Fresh ==
  /\ phone = S!InitPhone /\ Len(toDart) = 0 /\ toDart \in Seq(Event)
  /\ \A j \in Ids : core[j] \in {"none", "released"}
  /\ \A u \in Uuids : kit[u] # "ringing" /\ kit[u] \notin Connected

LEMMA ApartFresh == Fresh => Apart
<1> SUFFICES ASSUME Fresh PROVE Apart
  OBVIOUS
<1> USE DEF Fresh
<1>1. phone.calls = {} /\ \A j \in Ids : phone.uuid[j] = NoUuid
  BY DEF S!InitPhone
<1>2. P!Numbered(phone)
  BY SamePhones, SoftphoneAssumed, NullAssumed, P!InitNumbered
<1>3. DOMAIN toDart = {}
  <2>1. DOMAIN toDart = 1..Len(toDart) /\ 1..0 = {}
    BY LenProperties
  <2> QED BY <2>1
<1>4. \A j \in Ids : ~Called(j)
  BY <1>1, <1>3 DEF Called, Pending, Calling
<1>5. \A u \in Uuids : ~Rung(u)
  BY <1>1, <1>3, IosCallsAssumption DEF Rung, Pending, Strange
<1>6. RungOrCalled
  BY <1>4, <1>5 DEF RungOrCalled, Uuids
<1> QED BY <1>1, <1>2, <1>6 DEF Apart

LEMMA FreshInit ==
  ASSUME Init
  PROVE  Fresh
<1>1. /\ phone = S!InitPhone /\ toDart = <<>> /\ kit = [u \in Uuids |-> "none"]
      /\ core = [i \in Ids |-> "none"]
  BY DEF Init, S!Init
<1>2. Len(toDart) = 0 /\ toDart \in Seq(Event)
  BY <1>1, SeenInit DEF Seen
<1> QED BY <1>1, <1>2 DEF Fresh, Connected

LEMMA FreshDies ==
  ASSUME Seen, ProcessDies
  PROVE  Fresh'
<1>1. /\ core' = Terminate(Ids) /\ phone' = S!InitPhone /\ toDart' = <<>>
      /\ kit' = [u \in Uuids |-> IF kit[u] \in OnScreen THEN "gone" ELSE kit[u]]
  BY DEF ProcessDies
<1>2. \A j \in Ids : core'[j] \in {"none", "released"}
  BY <1>1 DEF Terminate, LiveCalls, Seen
<1>3. \A u \in Uuids : kit'[u] # "ringing" /\ kit'[u] \notin Connected
  BY <1>1 DEF OnScreen, Connected
<1>4. Len(toDart') = 0 /\ toDart' \in Seq(Event)
  BY <1>1, SeenDies DEF Seen
<1> QED BY <1>1, <1>2, <1>3, <1>4 DEF Fresh

LEMMA ApartNext ==
  ASSUME Seen, Apart, [Next]_vars
  PROVE  Apart'
<1>1. CASE UNCHANGED vars
  BY <1>1 DEF vars, Apart, RungOrCalled, Rung, Called, Begun, Pending, Strange, Calling
<1>2. CASE NativeCommand
  <2>1. CASE Perform(Head(phone.out))
    BY <1>2, <2>1, NativeMoves, ApartNative
  <2>2. CASE ProcessDies
    <3>1. Fresh'
      BY <2>2, FreshDies
    <3> QED BY <3>1, ApartFresh, PTL
  <2> QED BY <1>2, <2>1, <2>2 DEF NativeCommand
<1> QED BY <1>1, <1>2, NativeMoves, ApartNative, ApartEvent, ApartUser DEF Next

-----------------------------------------------------------------------------
(* What a call is shown as, if none was mistaken for another: the list,    *)
(* the events on their way and the core are tied together.                 *)
LastUpdate(k, i) ==
  /\ Updates(toDart[k], i)
  /\ \A l \in 1..Len(toDart) : l > k => ~Updates(toDart[l], i)

NoUpdate(i) == \A k \in 1..Len(toDart) : ~Updates(toDart[k], i)

(* Nothing is told of a call not yet begun; a call is announced before it  *)
(* is updated, and one announced without an update is ringing; the last    *)
(* update says what the core has, and without one the list already does.   *)
ShownCall(i) ==
  /\ core[i] = "none" => NoUpdate(i)
  /\ \A k, l \in 1..Len(toDart) : Announces(toDart[k], i) /\ Updates(toDart[l], i) => k < l
  /\ core[i] \notin {"none", "released"} =>
       /\ NoUpdate(i) /\ (\E k \in 1..Len(toDart) : Announces(toDart[k], i)) => core[i] = "incoming"
       /\ \A k \in 1..Len(toDart) : LastUpdate(k, i) => ShownAs[toDart[k].op] \in Shows[core[i]]
       /\ NoUpdate(i) =>
            \A d \in phone.calls : d.id = i => phone.state[d.n] \in Shows[core[i]]

Shown == NoneMistaken => \A i \in Ids : ShownCall(i)

LEMMA ShownFresh == Fresh => Shown
BY DEF Fresh, Shown, ShownCall, NoUpdate

(* Softphone rests, or changes no state of a call it keeps.                *)
LEMMA ShownKept ==
  ASSUME Shown, UNCHANGED <<core, toDart>>, phone'.uuid = phone.uuid,
         \A d \in phone'.calls : d \in phone.calls /\ phone'.state[d.n] = phone.state[d.n]
  PROVE  Shown'
<1>1. ASSUME NEW i \in Ids, ShownCall(i) PROVE ShownCall(i)'
  <2>1. NoUpdate(i)' = NoUpdate(i) /\ \A k : LastUpdate(k, i)' = LastUpdate(k, i)
    BY DEF NoUpdate, LastUpdate
  <2> QED BY <1>1, <2>1 DEF ShownCall
<1>2. NoneMistaken' => NoneMistaken
  BY DEF NoneMistaken
<1> QED BY <1>1, <1>2 DEF Shown

LEMMA ShownNative ==
  ASSUME Seen, Shown, NativeStep
  PROVE  Shown'
<1> DEFINE n == Len(toDart)
<1>1. /\ toDart \in Seq(Event) /\ core \in [Ids -> CoreState] /\ AnnouncedOnce
      /\ Lawful(core') /\ phone'.calls = phone.calls /\ phone'.state = phone.state
      /\ phone'.uuid = phone.uuid
  BY DEF Seen, NativeStep
<1>2. PICK r \in Seq(Event) : toDart' = toDart \o r /\ Says(r)
  BY DEF NativeStep
<1>3. /\ toDart' \in Seq(Event) /\ n \in Nat /\ Len(r) \in Nat /\ Len(toDart') = n + Len(r)
      /\ \A k \in 1..Len(toDart') :
           \/ k \in 1..n /\ toDart'[k] = toDart[k]
           \/ k - n \in 1..Len(r) /\ toDart'[k] = r[k - n]
  <2> HIDE DEF Event
  <2> QED BY <1>1, <1>2, ConcatSplits
<1>4. /\ \A k \in 1..n : k \in 1..Len(toDart') /\ toDart'[k] = toDart[k]
      /\ \A k \in 1..Len(r) : n + k \in 1..Len(toDart') /\ toDart'[n + k] = r[k]
  <2>1. \A k \in 1..n : k \in 1..Len(toDart') /\ ~(k - n \in 1..Len(r))
    BY <1>3
  <2>2. \A k \in 1..Len(r) : n + k \in 1..Len(toDart') /\ ~(n + k \in 1..n) /\ (n + k) - n = k
    BY <1>3
  <2> QED BY <1>3, <2>1, <2>2
<1>5. NoneMistaken' => NoneMistaken
  BY <1>1 DEF NoneMistaken
<1>6. ASSUME NEW i \in Ids, ShownCall(i) PROVE ShownCall(i)'
  <2>1. \A k \in 1..Len(r) :
          /\ Updates(r[k], i) =>
               core'[i] # "none" /\ (core'[i] = "released" \/ ShownAs[r[k].op] \in Shows[core'[i]])
          /\ Announces(r[k], i) => core[i] = "none" /\ core'[i] \in {"incoming", "outgoing"}
    BY <1>2 DEF Says, Truthful, Updates, Announces
  <2>2. \A k, l \in 1..Len(r) : Announces(r[k], i) /\ Updates(r[l], i) => k < l
    BY <1>2 DEF Says
  <2>3. core'[i] # core[i] =>
          /\ core'[i] # "none" /\ core[i] # "released"
          /\ core'[i] \in {"incoming", "outgoing"} <=> core[i] = "none"
          /\ core'[i] = "pausing" => core[i] = "streaming"
          /\ core'[i] = "resuming" => core[i] = "paused"
    BY <1>1 DEF Lawful
  <2>4. core'[i] # core[i] /\ core'[i] \notin {"none", "incoming", "pausing", "resuming", "released"}
          => \E k \in 1..Len(r) : Updates(r[k], i)
    BY <1>2 DEF Says
  <2>5. NoUpdate(i)' => NoUpdate(i) /\ \A k \in 1..Len(r) : ~Updates(r[k], i)
    BY <1>4 DEF NoUpdate
  <2>6. ASSUME core[i] # "none", core'[i] # "released",
               \A k \in 1..Len(r) : ~Updates(r[k], i)
        PROVE  /\ core[i] \notin {"none", "released"}
               /\ Shows[core[i]] \subseteq Shows[core'[i]]
               /\ core[i] = "incoming" => core'[i] = "incoming"
    <3>1. CASE core'[i] = core[i]
      BY <2>6, <3>1
    <3>2. CASE core'[i] # core[i]
      <4>1. \/ core'[i] = "pausing" /\ core[i] = "streaming"
            \/ core'[i] = "resuming" /\ core[i] = "paused"
        BY <2>3, <2>4, <2>6, <3>2
      <4> QED BY <4>1 DEF Shows
    <3> QED BY <3>1, <3>2
  <2>7. core'[i] = "none" => NoUpdate(i)'
    <3>1. SUFFICES ASSUME core'[i] = "none", NEW k \in 1..Len(toDart'), Updates(toDart'[k], i)
                   PROVE  FALSE
      BY DEF NoUpdate
    <3>2. NoUpdate(i)
      BY <1>6, <2>3, <3>1 DEF ShownCall
    <3> QED BY <1>3, <2>1, <3>1, <3>2 DEF NoUpdate
  <2>8. \A k, l \in 1..Len(toDart') : Announces(toDart'[k], i) /\ Updates(toDart'[l], i) => k < l
    <3>1. SUFFICES ASSUME NEW k \in 1..Len(toDart'), NEW l \in 1..Len(toDart'),
                          Announces(toDart'[k], i), Updates(toDart'[l], i)
                   PROVE  k < l
      OBVIOUS
    <3>2. CASE k \in 1..n /\ toDart'[k] = toDart[k] /\ l \in 1..n /\ toDart'[l] = toDart[l]
      BY <1>6, <3>1, <3>2 DEF ShownCall
    <3>3. CASE k \in 1..n /\ l - n \in 1..Len(r)
      BY <1>3, <3>3
    <3>4. CASE k - n \in 1..Len(r) /\ toDart'[k] = r[k - n]
      <4>1. core[i] = "none" /\ NoUpdate(i)
        BY <1>6, <2>1, <3>1, <3>4 DEF ShownCall
      <4>2. l - n \in 1..Len(r) /\ toDart'[l] = r[l - n]
        BY <1>3, <3>1, <4>1 DEF NoUpdate
      <4>3. k - n < l - n
        BY <2>2, <3>1, <3>4, <4>2
      <4> QED BY <1>3, <4>3
    <3> QED BY <1>3, <3>2, <3>3, <3>4
  <2>9. ASSUME core'[i] \notin {"none", "released"}, NoUpdate(i)',
               NEW k \in 1..Len(toDart'), Announces(toDart'[k], i)
        PROVE  core'[i] = "incoming"
    <3>1. CASE k \in 1..n /\ toDart'[k] = toDart[k]
      <4>1. core[i] # "none" /\ Announces(toDart[k], i)
        BY <1>1, <2>9, <3>1 DEF AnnouncedOnce, Announces
      <4> QED BY <1>6, <2>5, <2>6, <2>9, <3>1, <4>1 DEF ShownCall
    <3>2. CASE k - n \in 1..Len(r) /\ toDart'[k] = r[k - n]
      <4>1. core[i] = "none" /\ core'[i] \in {"incoming", "outgoing"}
        BY <2>1, <2>9, <3>2
      <4> QED BY <2>4, <2>5, <2>9, <4>1
    <3> QED BY <1>3, <3>1, <3>2
  <2>10. ASSUME core'[i] \notin {"none", "released"}, NEW k \in 1..Len(toDart'), LastUpdate(k, i)'
         PROVE  ShownAs[toDart'[k].op] \in Shows[core'[i]]
    <3>1. CASE k \in 1..n /\ toDart'[k] = toDart[k]
      <4>1. \A l \in 1..Len(r) : ~Updates(r[l], i)
        <5>1. \A l \in 1..Len(r) : n + l > k
          BY <1>3, <3>1
        <5> QED BY <1>4, <2>10, <5>1 DEF LastUpdate
      <4>2. LastUpdate(k, i)
        BY <1>4, <2>10, <3>1 DEF LastUpdate
      <4>3. core[i] # "none"
        BY <1>6, <3>1, <4>2 DEF ShownCall, NoUpdate, LastUpdate
      <4>4. core[i] \notin {"none", "released"} /\ Shows[core[i]] \subseteq Shows[core'[i]]
        BY <2>6, <2>10, <4>1, <4>3
      <4> QED BY <1>6, <3>1, <4>2, <4>4 DEF ShownCall
    <3>2. CASE k - n \in 1..Len(r) /\ toDart'[k] = r[k - n]
      BY <2>1, <2>10, <3>2 DEF LastUpdate
    <3> QED BY <1>3, <3>1, <3>2
  <2>11. ASSUME core'[i] \notin {"none", "released"}, NoUpdate(i)',
                NEW d \in phone'.calls, d.id = i
         PROVE  phone'.state[d.n] \in Shows[core'[i]]
    <3>1. core[i] # "none"
      BY <1>1, <2>11 DEF Seen, PhoneInv, P!IosInv, P!AllKeyed, AnnouncedOnce
    <3>2. core[i] \notin {"none", "released"} /\ Shows[core[i]] \subseteq Shows[core'[i]]
      BY <2>5, <2>6, <2>11, <3>1
    <3> QED BY <1>1, <1>6, <2>5, <2>11, <3>2 DEF ShownCall
  <2> QED BY <2>7, <2>8, <2>9, <2>10, <2>11 DEF ShownCall
<1> QED BY <1>5, <1>6 DEF Shown

(* If no call was mistaken for another, a uuid finds the call of its id.   *)
LEMMA LookupFindsOwn ==
  ASSUME Seen, NoneMistaken, NEW i \in Ids, NEW d \in phone.calls
  PROVE  d = S!CallByUuid(phone, i) <=> d.id = i
<1>1. /\ Linked(phone) /\ P!OneObject(phone) /\ P!Keyed(phone, d.id) /\ d.id \in Ids /\ d # NoCall
      /\ phone.uuid[d.id] # NoUuid /\ phone.calls \in SUBSET S!Call
  BY NoCallIsNull DEF Seen, PhoneInv, P!IosInv, P!AllKeyed, Linked, S!Call
<1>2. i # NoUuid /\ phone.uuid[d.id] = d.id
  BY <1>1, IosCallsAssumption DEF NoneMistaken, Uuids
<1>3. ASSUME d = S!CallByUuid(phone, i) PROVE d.id = i
  BY <1>1, <1>2, <1>3, LookupByUuid
<1>4. ASSUME d.id = i PROVE d = S!CallByUuid(phone, i)
  <2> DEFINE K == S!KeysWithUuid(phone, i)
             k == CHOOSE k \in K : \A l \in K : k <= l
             cs == {c \in phone.calls : c.id = i}
  <2>1. K # {}
    BY <1>1, <1>2, <1>4 DEF S!KeysWithUuid, P!Keyed
  <2>2. S!CallByUuid(phone, i) = S!CallById(phone, phone.keys[k])
    BY <2>1 DEF S!CallByUuid
  <2>3. /\ DOMAIN phone.keys = 1..Len(phone.keys) /\ Len(phone.keys) \in Nat
        /\ \A l \in 1..Len(phone.keys) : phone.keys[l] \in Ids
    BY <1>1, LenProperties, ElementOfSeq DEF Linked
  <2>4. K \subseteq 1..Len(phone.keys) /\ \A l \in K : phone.keys[l] = i
    BY <1>2, <2>3 DEF S!KeysWithUuid, NoneMistaken
  <2>5. k \in K
    <3> HIDE DEF K
    <3>1. IsFiniteSet(1..Len(phone.keys)) /\ 1..Len(phone.keys) \subseteq Nat
      BY <2>3, FS_Interval
    <3>2. IsFiniteSet(K) /\ K \subseteq Nat
      BY <2>4, <3>1, FS_Subset
    <3>3. \E l \in K : \A m \in K : l <= m
      BY <2>1, <3>2, LeastElement
    <3> QED BY <3>3
  <2> HIDE DEF k, K
  <2>6. d \in cs /\ cs \in SUBSET S!Call /\ S!CallByUuid(phone, i) = S!Oldest(cs)
    BY <1>1, <1>4, <2>2, <2>4, <2>5 DEF S!CallById, S!IsListed
  <2>7. S!Oldest(cs) \in cs
    <3> HIDE DEF cs
    <3> QED BY <2>6, OldestIsMember
  <2> QED BY <1>1, <1>4, <2>6, <2>7 DEF P!OneObject
<1> QED BY <1>3, <1>4

LEMMA ShownEvent ==
  ASSUME Seen, Apart, Shown, DartEvent
  PROVE  Shown'
<1> DEFINE h == Head(toDart)
           t == Tail(toDart)
<1>1. /\ h \in Event /\ t \in Seq(Event) /\ toDart' = t /\ UNCHANGED core
      /\ Len(toDart) \in Nat \ {0} /\ Len(t) = Len(toDart) - 1
      /\ h = toDart[1] /\ \A k \in 1..Len(t) : t[k] = toDart[k + 1]
      /\ Heard(h)
      /\ h.op \in DOMAIN ShownAs => h.id \in Ids
  BY EventHeard
<1> HIDE DEF h, t
<1>2. h.op \in Announcements \cup DOMAIN ShownAs \cup Buttons
  BY <1>1 DEF Event
<1>3. /\ Len(t) \in Nat
      /\ \A k \in 1..Len(t) : k + 1 \in 1..Len(toDart) /\ t[k] = toDart[k + 1]
      /\ \A k \in 1..Len(toDart) : k # 1 => k - 1 \in 1..Len(t) /\ t[k - 1] = toDart[k]
      /\ 1 \in 1..Len(toDart) /\ toDart[1] = h
  BY <1>1
<1>4. NoneMistaken' => NoneMistaken
  BY MistakesStay
<1>5. ASSUME NoneMistaken, NEW i \in Ids, ShownCall(i) PROVE ShownCall(i)'
  <2>1. core[i] = "none" => NoUpdate(i)'
    BY <1>1, <1>3, <1>5 DEF ShownCall, NoUpdate
  <2>2. \A k, l \in 1..Len(t) : Announces(t[k], i) /\ Updates(t[l], i) => k < l
    <3>1. SUFFICES ASSUME NEW k \in 1..Len(t), NEW l \in 1..Len(t),
                          Announces(t[k], i), Updates(t[l], i)
                   PROVE  k < l
      OBVIOUS
    <3>2. k + 1 < l + 1
      BY <1>3, <1>5, <3>1 DEF ShownCall
    <3> QED BY <3>2
  <2>3. ASSUME NEW k \in 1..Len(t), LastUpdate(k, i)'
        PROVE  k + 1 \in 1..Len(toDart) /\ LastUpdate(k + 1, i) /\ t[k] = toDart[k + 1]
    <3>1. Updates(toDart[k + 1], i)
      BY <1>1, <1>3, <2>3 DEF LastUpdate
    <3>2. ASSUME NEW l \in 1..Len(toDart), l > k + 1 PROVE ~Updates(toDart[l], i)
      <4>1. l - 1 \in 1..Len(t) /\ t[l - 1] = toDart[l] /\ l - 1 > k
        BY <1>3, <3>2
      <4> QED BY <1>1, <2>3, <4>1 DEF LastUpdate
    <3> QED BY <1>3, <3>1, <3>2 DEF LastUpdate
  <2>4. NoUpdate(i)' /\ ~Updates(h, i) => NoUpdate(i)
    BY <1>1, <1>3 DEF NoUpdate
  <2>5. NoUpdate(i)' /\ Updates(h, i) => LastUpdate(1, i)
    BY <1>1, <1>3 DEF NoUpdate, LastUpdate
  <2>6. ASSUME core[i] \notin {"none", "released"}, NoUpdate(i)',
               \E k \in 1..Len(t) : Announces(t[k], i)
        PROVE  core[i] = "incoming"
    <3>1. PICK k \in 1..Len(t) : Announces(t[k], i)
      BY <2>6
    <3>2. k + 1 \in 1..Len(toDart) /\ Announces(toDart[k + 1], i) /\ ~(k + 1 < 1)
      BY <1>3, <3>1
    <3>3. ~Updates(h, i)
      BY <1>3, <1>5, <3>2 DEF ShownCall
    <3> QED BY <1>5, <2>4, <2>6, <3>2, <3>3 DEF ShownCall
  <2>7. ASSUME core[i] \notin {"none", "released"}, NEW k \in 1..Len(t), LastUpdate(k, i)'
        PROVE  ShownAs[t[k].op] \in Shows[core[i]]
    BY <1>5, <2>3, <2>7 DEF ShownCall
  <2>8. ASSUME core[i] \notin {"none", "released"}, NoUpdate(i)',
               NEW d \in phone'.calls, d.id = i
        PROVE  phone'.state[d.n] \in Shows[core[i]]
    <3>1. d \in phone.calls /\ phone'.state[d.n] = phone.state[d.n] /\ ~Updates(h, i)
            => phone'.state[d.n] \in Shows[core[i]]
      BY <1>5, <2>4, <2>8 DEF ShownCall
    <3>2. CASE h.op \in DOMAIN ShownAs
      <4>1. /\ d \in phone.calls
            /\ phone'.state[d.n] = IF d = S!CallByUuid(phone, h.id) THEN ShownAs[h.op]
                                   ELSE phone.state[d.n]
        BY <1>1, <3>2, EventOps DEF Heard
      <4>2. d = S!CallByUuid(phone, h.id) <=> h.id = i
        BY <1>1, <1>5, <2>8, <3>2, <4>1, LookupFindsOwn
      <4>3. h.id = i => Updates(h, i) /\ LastUpdate(1, i)
        BY <2>5, <2>8, <3>2 DEF Updates
      <4>4. h.id = i => ShownAs[h.op] \in Shows[core[i]]
        BY <1>3, <1>5, <2>8, <4>3 DEF ShownCall
      <4> QED BY <3>1, <4>1, <4>2, <4>4 DEF Updates
    <3>3. CASE h.op \in Announcements
      <4>1. ~Updates(h, i) /\ NoUpdate(i)
        BY <2>4, <2>8, <3>3, EventOps DEF Updates
      <4>2. \/ d \in phone.calls /\ phone'.state[d.n] = phone.state[d.n]
            \/ d.id = h.id /\ phone'.state[d.n] = "NONE"
        BY <1>1, <3>3 DEF Heard
      <4>3. d.id = h.id => core[i] = "incoming"
        BY <1>3, <1>5, <2>8, <3>3, <4>1 DEF ShownCall, Announces
      <4>4. "NONE" \in Shows["incoming"]
        BY DEF Shows
      <4> QED BY <3>1, <4>1, <4>2, <4>3, <4>4
    <3>4. CASE h.op \in Buttons
      BY <1>1, <3>1, <3>4, EventOps DEF Heard, Updates
    <3> QED BY <1>2, <3>2, <3>3, <3>4
  <2> QED BY <1>1, <2>1, <2>2, <2>6, <2>7, <2>8 DEF ShownCall
<1> QED BY <1>4, <1>5 DEF Shown

LEMMA ShownNext ==
  ASSUME Seen, Apart, Shown, [Next]_vars
  PROVE  Shown'
<1>1. CASE UNCHANGED vars
  BY <1>1, ShownKept DEF vars
<1>2. CASE User
  BY <1>2, UserRests, ShownKept DEF Apart, P!KeepsStates
<1>3. CASE NativeCommand
  <2>1. CASE Perform(Head(phone.out))
    BY <1>3, <2>1, NativeMoves, ShownNative
  <2>2. CASE ProcessDies
    <3>1. Fresh'
      BY <2>2, FreshDies
    <3> QED BY <3>1, ShownFresh, PTL
  <2> QED BY <1>3, <2>1, <2>2 DEF NativeCommand
<1> QED BY <1>1, <1>2, <1>3, NativeMoves, ShownNative, ShownEvent DEF Next

LEMMA AlwaysShown == Spec => [](Seen /\ Apart /\ Shown)
<1>1. Init => Seen /\ Apart /\ Shown
  BY SeenInit, FreshInit, ApartFresh, ShownFresh
<1>2. Seen /\ Apart /\ Shown /\ [Next]_vars => (Seen /\ Apart /\ Shown)'
  BY SeenNext, ApartNext, ShownNext
<1> QED BY <1>1, <1>2, PTL DEF Spec

(* On iOS too a listed call whose events have all been handled is shown in *)
(* the state the core has it in, whatever the order in which commands,     *)
(* taps in the app, the system's screen and what happens outside come, as  *)
(* long as no call was mistaken for another: the last event of each call   *)
(* that is on its way says what the core has.                              *)
THEOREM IosShowsCurrent == Spec => []ShownStateIsCurrent
<1>1. ASSUME Seen, Shown PROVE ShownStateIsCurrent
  <2>1. DOMAIN toDart = 1..Len(toDart)
    BY <1>1, LenProperties DEF Seen
  <2>2. \A i : ~Pending(DOMAIN ShownAs, i) => NoUpdate(i)
    BY <2>1 DEF Pending, NoUpdate, Updates
  <2>3. \A c \in phone.calls : c.id \in Ids
    BY <1>1 DEF Seen, PhoneInv, Linked, S!Call
  <2> QED BY <1>1, <2>2, <2>3 DEF ShownStateIsCurrent, Shown, ShownCall, LiveCalls
<1> QED BY <1>1, AlwaysShown, PTL

-----------------------------------------------------------------------------
(* No answer is forgotten.  An answer is kept for a uuid, or the call that *)
(* has the uuid is answered; the only calls reported to CallKit as         *)
(* outgoing are of uuids in R.                                             *)
Answers(p, u) ==
  u \in p.callIdsAnswered \/ \E j \in Ids : j \in p.answerTime /\ p.uuid[j] = u

NewReports(s, t, R) ==
  \A k \in 1..Len(t) :
    t[k].op = "reportOutgoingCall" => (k \in 1..Len(s) /\ t[k] = s[k]) \/ t[k].to \subseteq R

Minds(p, q, R) ==
  /\ Linked(q) /\ q.uuid = p.uuid /\ p.answerTime \subseteq q.answerTime
  /\ \A u : Answers(p, u) => Answers(q, u)
  /\ NewReports(p.out, q.out, R)

(* R has the uuids of the outgoing calls among cs. *)
Covers(p, cs, R) == \A d \in cs : d.direction = "OUTGOING" => p.uuid[d.id] \in R

LEMMA MindsTransitive ==
  ASSUME NEW p, NEW q, NEW r, NEW R, Minds(p, q, R), Minds(q, r, R)
  PROVE  Minds(p, r, R)
BY DEF Minds, NewReports

LEMMA FieldMinds ==
  ASSUME NEW p, NEW q, NEW R, Linked(q), q.uuid = p.uuid, q.out = p.out,
         p.answerTime \subseteq q.answerTime, p.callIdsAnswered \subseteq q.callIdsAnswered
  PROVE  Minds(p, q, R)
BY DEF Minds, NewReports, Answers

LEMMA MindsItself ==
  ASSUME NEW p, Linked(p), NEW R
  PROVE  Minds(p, p, R)
BY FieldMinds

LEMMA OtherFieldMinds ==
  ASSUME NEW p, Linked(p), NEW v, NEW R,
         NEW f \in {"state", "muted", "isReported", "endedCalls", "assistedTransferInit"}
  PROVE  Minds(p, [p EXCEPT ![f] = v], R)
<1> DEFINE q == [p EXCEPT ![f] = v]
<1>1. Linked(q)
  BY OtherField DEF Rests
<1>2. /\ q.uuid = p.uuid /\ q.out = p.out /\ q.answerTime = p.answerTime
      /\ q.callIdsAnswered = p.callIdsAnswered
  BY DEF Linked, S!InitPhone
<1> HIDE DEF q
<1>3. Minds(p, q, R)
  BY <1>1, <1>2, FieldMinds
<1> QED BY <1>3 DEF q

LEMMA AnsweredMinds ==
  ASSUME NEW p, Linked(p), NEW i, NEW R
  PROVE  LET q == [p EXCEPT !.answerTime = @ \cup {i}]
         IN  Minds(p, q, R) /\ i \in q.answerTime
<1> DEFINE q == [p EXCEPT !.answerTime = @ \cup {i}]
<1>1. Linked(q)
  BY OtherField DEF Rests
<1>2. /\ q.uuid = p.uuid /\ q.out = p.out /\ q.answerTime = p.answerTime \cup {i}
      /\ q.callIdsAnswered = p.callIdsAnswered
  BY DEF Linked, S!InitPhone
<1> HIDE DEF q
<1>3. Minds(p, q, R)
  BY <1>1, <1>2, FieldMinds
<1> QED BY <1>2, <1>3 DEF q

LEMMA SendMinds ==
  ASSUME NEW p, Linked(p), NEW cmds \in Seq(S!Command), NEW R,
         \A k \in 1..Len(cmds) : cmds[k].op = "reportOutgoingCall" => cmds[k].to \subseteq R
  PROVE  Minds(p, S!Send(p, cmds), R)
<1> DEFINE q == S!Send(p, cmds)
<1>1. Linked(q)
  BY SendRests DEF Rests
<1>2. /\ q.uuid = p.uuid /\ q.out = p.out \o cmds /\ q.answerTime = p.answerTime
      /\ q.callIdsAnswered = p.callIdsAnswered
  BY DEF Linked, S!InitPhone, S!Send
<1>3. p.out \in Seq(S!Command)
  BY DEF Linked
<1> HIDE DEF q
<1>4. \A k \in 1..Len(q.out) :
        \/ k \in 1..Len(p.out) /\ q.out[k] = p.out[k]
        \/ k - Len(p.out) \in 1..Len(cmds) /\ q.out[k] = cmds[k - Len(p.out)]
  <2> HIDE DEF S!Command
  <2> QED BY <1>2, <1>3, ConcatSplits
<1>5. NewReports(p.out, q.out, R)
  BY <1>4 DEF NewReports
<1>6. Minds(p, q, R)
  BY <1>1, <1>2, <1>5 DEF Minds, Answers
<1> QED BY <1>6 DEF q

Silent(a) == a \in S!Command /\ a.op # "reportOutgoingCall"

LEMMA SilentCmd ==
  ASSUME NEW o \in Ops \ {"reportOutgoingCall"}, NEW us \in SUBSET Uuids
  PROVE  Silent(S!Cmd(o, us))
BY CmdType DEF Silent

LEMMA SilentMinds ==
  ASSUME NEW p, Linked(p), NEW R, NEW a, NEW b, NEW c, Silent(a), Silent(b), Silent(c)
  PROVE  /\ Minds(p, S!Send(p, <<a>>), R) /\ Minds(p, S!Send(p, <<a, b>>), R)
         /\ Minds(p, S!Send(p, <<>> \o <<a, b>>), R) /\ Minds(p, S!Send(p, <<a, b, c>>), R)
<1>1. a \in S!Command /\ b \in S!Command /\ c \in S!Command
  BY DEF Silent
<1>2. ASSUME NEW s \in Seq(S!Command), \A k \in 1..Len(s) : s[k] \in {a, b, c}
      PROVE  Minds(p, S!Send(p, s), R)
  <2> HIDE DEF S!Command
  <2> QED BY <1>2, SendMinds DEF Silent
<1>3. /\ <<a>> \in Seq(S!Command) /\ <<a, b>> \in Seq(S!Command)
      /\ <<a, b, c>> \in Seq(S!Command) /\ <<>> \o <<a, b>> = <<a, b>>
  <2> HIDE DEF S!Command
  <2> QED BY <1>1, SMTT(30)
<1>4. /\ \A k \in 1..Len(<<a>>) : <<a>>[k] \in {a, b, c}
      /\ \A k \in 1..Len(<<a, b>>) : <<a, b>>[k] \in {a, b, c}
      /\ \A k \in 1..Len(<<a, b, c>>) : <<a, b, c>>[k] \in {a, b, c}
  OBVIOUS
<1> QED BY <1>2, <1>3, <1>4

LEMMA HoldCallsMinds ==
  ASSUME NEW p, Linked(p), NEW cs \in SUBSET S!Call, NEW R
  PROVE  Minds(p, S!HoldCalls(p, cs), R)
<1>1. S!OwnUuids(cs) \in SUBSET Uuids /\ S!DataUuids(p, cs) \in SUBSET Uuids
  BY UuidsType
<1> DEFINE a == S!Cmd("lpHold", S!OwnUuids(cs))
           b == S!Cmd("setHold", S!DataUuids(p, cs))
<1>2. Silent(a) /\ Silent(b)
  BY <1>1, SilentCmd DEF Ops
<1>3. S!HoldCalls(p, cs) = IF cs = {} THEN p ELSE S!Send(p, <<>> \o <<a, b>>)
  BY DEF S!HoldCalls, S!OnAndroid
<1> HIDE DEF a, b
<1> QED BY <1>2, <1>3, SilentMinds, MindsItself

LEMMA UnholdCallMinds ==
  ASSUME NEW p, Linked(p), NEW c \in S!Call, NEW R
  PROVE  Minds(p, S!UnholdCall(p, c), R)
<1>1. S!OwnUuids({c}) \in SUBSET Uuids /\ S!DataUuids(p, {c}) \in SUBSET Uuids
  BY UuidsType
<1> DEFINE a == S!Cmd("lpResume", S!OwnUuids({c}))
           b == S!Cmd("setUnhold", S!DataUuids(p, {c}))
<1>2. Silent(a) /\ Silent(b)
  BY <1>1, SilentCmd DEF Ops
<1>3. S!UnholdCall(p, c) = S!Send(p, <<>> \o <<a, b>>)
  BY DEF S!UnholdCall, S!OnAndroid
<1> HIDE DEF a, b
<1> QED BY <1>2, <1>3, SilentMinds

LEMMA OwnCommandMinds ==
  ASSUME NEW p, Linked(p), NEW c \in S!Call, NEW o \in Ops \ {"reportOutgoingCall"}, NEW R
  PROVE  /\ Minds(p, S!Send(p, <<S!Cmd(o, S!OwnUuids({c}))>>), R)
         /\ Minds(p, S!Send(p, <<S!Cmd(o, S!DataUuids(p, {c}))>>), R)
<1>1. S!OwnUuids({c}) \in SUBSET Uuids /\ S!DataUuids(p, {c}) \in SUBSET Uuids
  BY UuidsType
<1> DEFINE a == S!Cmd(o, S!OwnUuids({c}))
           b == S!Cmd(o, S!DataUuids(p, {c}))
<1>2. Silent(a) /\ Silent(b)
  BY <1>1, SilentCmd
<1> HIDE DEF a, b
<1>3. Minds(p, S!Send(p, <<a>>), R) /\ Minds(p, S!Send(p, <<b>>), R)
  BY <1>2, SilentMinds
<1> QED BY <1>3 DEF a, b

LEMMA ReportOutgoingMinds ==
  ASSUME NEW p, Linked(p), NEW c \in S!Call, NEW R, Covers(p, {c}, R)
  PROVE  Minds(p, S!ReportOutgoing(p, c), R)
<1> DEFINE q == [p EXCEPT !.isReported = @ \cup {c.id}]
           us == S!DataUuids(p, {c})
           a == S!Cmd("reportOutgoingCall", us)
           r == S!Send(q, <<a>>)
<1>1. \/ S!ReportOutgoing(p, c) = p
      \/ c.direction = "OUTGOING" /\ S!ReportOutgoing(p, c) = r
  BY DEF S!ReportOutgoing
<1>2. us \in SUBSET Uuids
  BY UuidsType
<1>3. c.direction = "OUTGOING" => us \subseteq R
  BY DEF Covers, S!DataUuids
<1> HIDE DEF us
<1>4. a \in S!Command /\ a.to = us
  BY <1>2, CmdType DEF Ops
<1> HIDE DEF a
<1>5. Minds(p, q, R) /\ Linked(q)
  BY OtherFieldMinds DEF Minds
<1> HIDE DEF q
<1>6. ASSUME c.direction = "OUTGOING" PROVE Minds(q, r, R)
  <2>1. <<a>> \in Seq(S!Command) /\ \A k \in 1..Len(<<a>>) : <<a>>[k] = a
    <3> HIDE DEF S!Command
    <3> QED BY <1>4
  <2> DEFINE s == <<a>>
  <2> HIDE DEF s
  <2>2. s \in Seq(S!Command) /\ \A k \in 1..Len(s) : s[k].to \subseteq R
    BY <1>3, <1>4, <1>6, <2>1 DEF s
  <2>3. Minds(q, S!Send(q, s), R)
    BY <1>5, <2>2, SendMinds
  <2> QED BY <2>3 DEF s
<1> HIDE DEF r
<1> QED BY <1>1, <1>5, <1>6, MindsItself, MindsTransitive

LEMMA MakeActiveCallMinds ==
  ASSUME NEW p, Linked(p), NEW c \in S!Call, NEW R, Covers(p, {c}, R)
  PROVE  Minds(p, S!MakeActiveCall(p, c), R)
<1> DEFINE q == [p EXCEPT !.activeCall = c]
           others == {d \in p.calls : d.id # c.id}
           e == S!ReportOutgoing(q, c)
           r == S!HoldCalls(e, others)
           t == S!Send(r, <<S!Cmd("lpUnmuteCall", S!OwnUuids({c}))>>)
<1>1. Minds(p, q, R) /\ Covers(q, {c}, R)
  <2>1. Linked(q)
    BY ActiveField DEF Rests
  <2>2. /\ q.uuid = p.uuid /\ q.out = p.out /\ q.answerTime = p.answerTime
        /\ q.callIdsAnswered = p.callIdsAnswered
    BY DEF Linked, S!InitPhone
  <2> HIDE DEF q
  <2> QED BY <2>1, <2>2, FieldMinds DEF Covers
<1>2. others \in SUBSET S!Call
  BY DEF Linked
<1>3. S!MakeActiveCall(p, c) = S!UnholdCall(t, c)
  BY DEF S!MakeActiveCall
<1> HIDE DEF q, others
<1>4. Minds(q, e, R)
  BY <1>1, ReportOutgoingMinds DEF Minds
<1> HIDE DEF e
<1>5. Minds(e, r, R)
  BY <1>2, <1>4, HoldCallsMinds DEF Minds
<1> HIDE DEF r
<1>6. Minds(r, t, R)
  BY <1>5, OwnCommandMinds DEF Ops, Minds
<1> HIDE DEF t
<1>7. Minds(t, S!UnholdCall(t, c), R)
  BY <1>6, UnholdCallMinds DEF Minds
<1> QED BY <1>1, <1>3, <1>4, <1>5, <1>6, <1>7, MindsTransitive

LEMMA AnswerCallMinds ==
  ASSUME NEW p, Linked(p), NEW c \in S!Call, NEW R, Covers(p, {c}, R)
  PROVE  Minds(p, S!AnswerCall(p, c), R) /\ c.id \in S!AnswerCall(p, c).answerTime
<1> DEFINE a == [p EXCEPT !.callIdsAnswered = @ \ {p.uuid[c.id]}]
           q == S!Send(a, <<S!Cmd("lpAnswer", S!OwnUuids({c}))>>)
           m == S!MakeActiveCall(q, c)
           r == [m EXCEPT !.answerTime = @ \cup {c.id}]
           t == S!Send(r, <<S!Cmd("answerCall", S!DataUuids(r, {c}))>>)
<1>1. S!AnswerCall(p, c) = IF c.id \in p.answerTime THEN p ELSE t
  BY DEF S!AnswerCall, S!IsConnected
<1>2. /\ Linked(a) /\ a.uuid = p.uuid /\ a.out = p.out /\ a.answerTime = p.answerTime
      /\ a.callIdsAnswered = p.callIdsAnswered \ {p.uuid[c.id]}
  <2>1. Linked(a)
    BY OtherField DEF Rests
  <2> QED BY <2>1 DEF Linked, S!InitPhone
<1> HIDE DEF a
<1>3. Minds(a, q, R) /\ Covers(q, {c}, R)
  <2>1. Minds(a, q, R)
    BY <1>2, OwnCommandMinds DEF Ops
  <2> HIDE DEF q
  <2> QED BY <1>2, <2>1 DEF Minds, Covers
<1> HIDE DEF q
<1>4. Minds(q, m, R)
  BY <1>3, MakeActiveCallMinds DEF Minds
<1> HIDE DEF m
<1>5. Minds(m, r, R) /\ c.id \in r.answerTime
  BY <1>4, AnsweredMinds DEF Minds
<1> HIDE DEF r
<1>6. Minds(r, t, R)
  BY <1>5, OwnCommandMinds DEF Ops, Minds
<1> HIDE DEF t
<1>7. Minds(a, t, R)
  BY <1>3, <1>4, <1>5, <1>6, MindsTransitive
<1>8. c.id \in t.answerTime /\ c.id \in Ids
  BY <1>5, <1>6 DEF Minds, S!Call
<1>9. \A u : Answers(p, u) => Answers(t, u)
  <2>1. ASSUME NEW u, Answers(p, u) PROVE Answers(t, u)
    <3>1. Answers(a, u) \/ u = p.uuid[c.id]
      BY <1>2, <2>1 DEF Answers
    <3> QED BY <1>2, <1>7, <1>8, <3>1 DEF Minds, Answers
  <2> QED BY <2>1
<1>10. Minds(p, t, R)
  BY <1>2, <1>7, <1>9 DEF Minds
<1> QED BY <1>1, <1>8, <1>10, MindsItself
LEMMA UnlistMinds ==
  ASSUME NEW p, Linked(p), NEW c \in S!Call, NEW R
  PROVE  LET q == S!Unlist(S!Send(p, S!EndCommands(p, c)), c)
         IN  Minds(p, q, R) /\ q.calls \subseteq p.calls
<1> DEFINE us == S!DataUuids(p, {c})
           a == S!Cmd("lpEndCall", us)
           b == S!Cmd("endCall", us)
           e == S!Send(p, <<a, b>>)
           q == S!Unlist(e, c)
<1>1. us \in SUBSET Uuids
  BY UuidsType
<1> HIDE DEF us
<1>2. Silent(a) /\ Silent(b)
  BY <1>1, SilentCmd DEF Ops
<1>3. q = S!Unlist(S!Send(p, S!EndCommands(p, c)), c)
  BY DEF S!EndCommands, us
<1> HIDE DEF a, b
<1>4. Minds(p, e, R)
  BY <1>2, SilentMinds
<1>5. Linked(q) /\ q.calls \subseteq p.calls
  BY <1>3, UnlistAccounts DEF Accounts
<1> HIDE DEF e
<1>6. /\ q.uuid = e.uuid /\ q.out = e.out /\ q.answerTime = e.answerTime
      /\ q.callIdsAnswered = e.callIdsAnswered
  BY <1>4 DEF Minds, Linked, S!InitPhone, S!Unlist
<1> HIDE DEF q
<1>7. Minds(e, q, R)
  BY <1>5, <1>6, FieldMinds
<1> QED BY <1>3, <1>4, <1>5, <1>7, MindsTransitive

LEMMA RefocusMinds ==
  ASSUME NEW p, Linked(p), NEW c \in S!Call, p.calls # {}, NEW R, Covers(p, p.calls, R)
  PROVE  Minds(p, S!Refocus(p, c), R)
<1> DEFINE newActive == S!Oldest(p.calls)
           m == S!MakeActiveCall(p, newActive)
           x == S!Cmd("lpResume", S!OwnUuids({newActive}))
           y == S!Cmd("lpResume", S!DataUuids(p, {c}))
           z == S!Cmd("setUnhold", S!DataUuids(p, {c}))
           q == S!Send(m, <<x, y, z>>)
           s == [q EXCEPT !.state = [@ EXCEPT ![c.n] = "CONFIRMED"]]
           r == [s EXCEPT !.answerTime = @ \cup {c.id}]
<1>1. S!Refocus(p, c) = r
  BY DEF S!Refocus
<1>2. newActive \in p.calls /\ newActive \in S!Call
  BY OldestIsMember DEF Linked
<1> HIDE DEF newActive
<1>3. Minds(p, m, R)
  BY <1>2, MakeActiveCallMinds DEF Covers
<1> HIDE DEF m
<1>4. Silent(x) /\ Silent(y) /\ Silent(z)
  <2>1. S!OwnUuids({newActive}) \in SUBSET Uuids /\ S!DataUuids(p, {c}) \in SUBSET Uuids
    BY <1>2, UuidsType
  <2> QED BY <2>1, SilentCmd DEF Ops
<1> HIDE DEF x, y, z
<1>5. Minds(m, q, R)
  <2>1. Linked(m)
    BY <1>3 DEF Minds
  <2> HIDE DEF Silent, Minds
  <2> QED BY <1>4, <2>1, SilentMinds
<1> HIDE DEF q
<1>6. Minds(q, s, R)
  BY <1>5, OtherFieldMinds DEF Minds
<1> HIDE DEF s
<1>7. Minds(s, r, R)
  BY <1>6, AnsweredMinds DEF Minds
<1> HIDE DEF r
<1> QED BY <1>1, <1>3, <1>5, <1>6, <1>7, MindsTransitive

LEMMA RemoveCallMinds ==
  ASSUME NEW p, Linked(p), NEW c \in S!Call, NEW R, Covers(p, p.calls, R)
  PROVE  Minds(p, S!RemoveCall(p, c), R)
<1> DEFINE q == S!Unlist(S!Send(p, S!EndCommands(p, c)), c)
           r == IF q.calls = {} THEN q ELSE S!Refocus(q, c)
           s == [r EXCEPT !.assistedTransferInit = FALSE]
<1>1. S!RemoveCall(p, c) = s
  BY DEF S!RemoveCall
<1>2. Minds(p, q, R) /\ q.calls \subseteq p.calls
  BY UnlistMinds
<1> HIDE DEF q
<1>3. Linked(q) /\ Covers(q, q.calls, R)
  BY <1>2 DEF Covers, Minds
<1>4. Minds(q, r, R)
  BY <1>3, RefocusMinds, MindsItself
<1> HIDE DEF r
<1>5. Minds(r, s, R)
  BY <1>4, OtherFieldMinds DEF Minds
<1> HIDE DEF s
<1> QED BY <1>1, <1>2, <1>4, <1>5, MindsTransitive

LEMMA HangUpMinds ==
  ASSUME NEW p, Linked(p), NEW c \in S!Call, NEW R, Covers(p, p.calls, R)
  PROVE  Minds(p, S!HangUp(p, c), R)
<1> DEFINE q == S!Send(p, <<S!Cmd("lpEndCall", S!OwnUuids({c}))>>)
<1>1. S!HangUp(p, c) = S!RemoveCall(q, c)
  BY DEF S!HangUp
<1>2. Minds(p, q, R)
  BY OwnCommandMinds DEF Ops
<1>3. q.calls = p.calls
  BY DEF S!Send, Linked, S!InitPhone
<1> HIDE DEF q
<1>4. Minds(q, S!RemoveCall(q, c), R)
  BY <1>2, <1>3, RemoveCallMinds DEF Minds, Covers
<1> QED BY <1>1, <1>2, <1>4, MindsTransitive

LEMMA SetLpCallStateMinds ==
  ASSUME NEW p, Linked(p), NEW c \in S!Call, NEW s, NEW R, Covers(p, p.calls, R)
  PROVE  Minds(p, S!SetLpCallState(p, c, s), R)
<1> DEFINE q == [p EXCEPT !.state = [@ EXCEPT ![c.n] = s]]
           r == [q EXCEPT !.answerTime = @ \cup {c.id}]
           t == S!Send(q, <<S!Cmd("reportConnectedOutgoingCall", S!DataUuids(q, {c}))>>)
<1>1. S!SetLpCallState(p, c, s) \in {S!RemoveCall(q, c), q, r, t}
  BY DEF S!SetLpCallState
<1>2. Minds(p, q, R) /\ q.calls = p.calls
  <2>1. q.calls = p.calls
    BY DEF Linked, S!InitPhone
  <2> QED BY <2>1, OtherFieldMinds
<1> HIDE DEF q
<1>3. Minds(q, S!RemoveCall(q, c), R)
  BY <1>2, RemoveCallMinds DEF Minds, Covers
<1>4. Minds(q, r, R)
  BY <1>2, AnsweredMinds DEF Minds
<1> HIDE DEF r
<1>5. Minds(q, t, R)
  BY <1>2, OwnCommandMinds DEF Ops, Minds
<1> HIDE DEF t
<1> QED BY <1>1, <1>2, <1>3, <1>4, <1>5, MindsTransitive

LEMMA SetHoldMinds ==
  ASSUME NEW p, Linked(p), NEW c \in S!Call, NEW hold \in BOOLEAN, NEW R
  PROVE  Minds(p, S!SetHold(p, c, hold, FALSE), R)
<1>1. \E o \in Ops \ {"reportOutgoingCall"} :
        S!SetHold(p, c, hold, FALSE) = S!Send(p, <<S!Cmd(o, S!OwnUuids({c}))>>)
  BY DEF S!SetHold, Ops
<1> QED BY <1>1, OwnCommandMinds

(* Any event but an announcement or the answer button.                     *)
LEMMA UpdateMinds ==
  ASSUME Linked(phone), NEW e \in Event, NEW R, Covers(phone, phone.calls, R),
         e.op \notin Announcements \cup {"answerButtonPressed"}
  PROVE  Minds(phone, Handle(e), R)
<1> DEFINE c == S!CallByUuid(phone, e.id)
<1>1. c \in S!Call \cup {NoCall}
  BY LookupFindsListed DEF Linked
<1>2. CASE c = NoCall
  <2>1. Handle(e) = phone
    BY <1>2 DEF Handle, Announcements
  <2> QED BY <2>1, MindsItself
<1>3. CASE c # NoCall
  <2>1. \/ Handle(e) = S!HangUp(phone, c)
        \/ \E hold \in BOOLEAN : Handle(e) = S!SetHold(phone, c, hold, FALSE)
        \/ \E s : Handle(e) = S!SetLpCallState(phone, c, s)
    <3>1. e.op \in DOMAIN ShownAs \cup {"endButtonPressed", "holdButtonPressed", "unholdButtonPressed"}
      BY DEF Event, Buttons
    <3>2. CASE e.op \in DOMAIN ShownAs
      BY <1>3, <3>2 DEF Handle, Announcements, ShownAs
    <3>3. CASE e.op \notin DOMAIN ShownAs
      BY <1>3, <3>1, <3>3 DEF Handle, Announcements
    <3> QED BY <3>2, <3>3
  <2>2. c \in S!Call
    BY <1>1, <1>3
  <2> HIDE DEF c
  <2> QED BY <2>1, <2>2, HangUpMinds, SetHoldMinds, SetLpCallStateMinds
<1> QED BY <1>2, <1>3

LEMMA UserMinds ==
  ASSUME Linked(phone), phone.activeCall \in phone.calls \cup {NoCall}, User,
         NEW R, Covers(phone, phone.calls, R)
  PROVE  Minds(phone, phone', R)
<1>1. phone.calls \in SUBSET S!Call
  BY DEF Linked
<1>2. S!ConnectedRows \in SUBSET phone.calls /\ S!IncomingPopup \in SUBSET phone.calls
  BY DEF S!ConnectedRows, S!IncomingPopup, S!Waiting
<1>3. \A c \in phone.calls : c \in S!Call /\ Covers(phone, {c}, R)
  BY <1>1 DEF Covers
<1>4. CASE S!Dial
  <2>1. phone' = S!Send(phone, <<S!Cmd("lpStartCall", {})>>)
    BY <1>4, DoIs DEF S!Dial
  <2>2. Silent(S!Cmd("lpStartCall", {}))
    BY SilentCmd DEF Ops
  <2> QED BY <2>1, <2>2, SilentMinds
<1>5. CASE S!TapAnswer
  <2>1. \E c \in phone.calls : phone' = S!AnswerCall(phone, c)
    BY <1>2, <1>5, DoIs DEF S!TapAnswer
  <2> QED BY <1>3, <2>1, AnswerCallMinds
<1>6. CASE S!TapHangUp
  <2>1. \E c \in phone.calls : phone' = S!HangUp(phone, c)
    BY <1>2, <1>6, DoIs DEF S!TapHangUp
  <2> QED BY <1>3, <2>1, HangUpMinds
<1>7. CASE S!TapHold
  <2>1. phone.activeCall \in S!Call
    BY <1>1, <1>7 DEF S!TapHold, S!ActiveConnected
  <2>2. phone' \in {S!HoldCalls(phone, {phone.activeCall}), S!UnholdCall(phone, phone.activeCall)}
    BY <1>7, DoIs DEF S!TapHold, S!SetHold
  <2> QED BY <2>1, <2>2, HoldCallsMinds, UnholdCallMinds
<1>8. CASE S!TapRow
  <2>1. \E c \in phone.calls : phone' = S!MakeActiveCall(phone, c)
    BY <1>2, <1>8, DoIs DEF S!TapRow
  <2> QED BY <1>3, <2>1, MakeActiveCallMinds
<1>9. ASSUME NEW i \in Ids, S!SaveDisposition(i) PROVE Minds(phone, phone', R)
  <2>1. phone' = [phone EXCEPT !.endedCalls = [@ EXCEPT ![i] = 0]]
    BY <1>9, DoIs DEF S!SaveDisposition
  <2> QED BY <2>1, OtherFieldMinds
<1> QED BY <1>4, <1>5, <1>6, <1>7, <1>8, <1>9 DEF User
(* A call that is announced is answered if its answer was kept.            *)
LEMMA AnnouncedMinds ==
  ASSUME NEW p, Linked(p), p.created < MaxObjects, NEW i \in Ids, p.uuid[i] = NoUuid,
         NEW dir \in {"INCOMING", "OUTGOING"}, NEW R, dir = "OUTGOING" => i \in R,
         NEW c, c = S!NewCall(p, i, dir),
         NEW n, n = S!Keep(S!AddCall(S!LinkLnCallWithUuid(p, i, i), c), c)
  PROVE  /\ p.answerTime \subseteq n.answerTime /\ NewReports(p.out, n.out, R)
         /\ \A u \in Uuids : Answers(p, u) => Answers(n, u)
         /\ i \in p.callIdsAnswered => \E j \in Ids : j \in n.answerTime /\ n.uuid[j] = i
<1> DEFINE l == S!LinkLnCallWithUuid(p, i, i)
           q == [l EXCEPT !.calls = @ \cup {c}]
           r == IF S!IsListed(l, c.id) THEN l
                ELSE IF l.activeCall = NoCall \/ c.direction = "OUTGOING"
                     THEN S!MakeActiveCall(q, c) ELSE q
           s == IF r.uuid[c.id] \in r.callIdsAnswered THEN S!AnswerCall(r, c) ELSE r
           k == S!Keep(s, c)
<1>1. S!AddCall(l, c) = s
  BY DEF S!AddCall
<1>2. c \in S!Call /\ c.id = i /\ c.direction = dir
  BY ObjectsAreFinite DEF S!NewCall, S!Call, Linked
<1>3. /\ Linked(l) /\ l.uuid = [p.uuid EXCEPT ![i] = i] /\ l.uuid[i] = i
      /\ l.out = p.out /\ l.answerTime = p.answerTime /\ l.callIdsAnswered = p.callIdsAnswered
  <2>1. Linked(l) /\ l.uuid = [p.uuid EXCEPT ![i] = i]
    BY LinkedCall
  <2>2. l.out = p.out /\ l.answerTime = p.answerTime /\ l.callIdsAnswered = p.callIdsAnswered
    BY DEF S!LinkLnCallWithUuid, Linked, S!InitPhone
  <2> HIDE DEF l
  <2> QED BY <2>1, <2>2 DEF Linked
<1> HIDE DEF l
<1>4. Minds(l, q, R) /\ q.uuid = l.uuid
  <2>1. l.uuid[c.id] # NoUuid
    BY <1>2, <1>3, IosCallsAssumption DEF Uuids
  <2>2. Linked(q) /\ q.out = l.out /\ q.uuid = l.uuid
    BY <1>2, <1>3, <2>1, ListedCall
  <2>3. q.answerTime = l.answerTime /\ q.callIdsAnswered = l.callIdsAnswered
    BY <1>3 DEF Linked, S!InitPhone
  <2> HIDE DEF q
  <2> QED BY <2>2, <2>3, FieldMinds
<1> HIDE DEF q
<1>5. \A x : x.uuid = l.uuid => Covers(x, {c}, R)
  BY <1>2, <1>3 DEF Covers
<1>6. Minds(l, r, R)
  <2>1. Minds(q, S!MakeActiveCall(q, c), R)
    BY <1>2, <1>4, <1>5, MakeActiveCallMinds DEF Minds
  <2> QED BY <1>3, <1>4, <2>1, MindsItself, MindsTransitive
<1> HIDE DEF r
<1>7. /\ Minds(r, s, R)
      /\ i \in r.callIdsAnswered => i \in s.answerTime
  <2>1. Linked(r) /\ r.uuid = l.uuid /\ r.uuid[i] = i
    BY <1>3, <1>6 DEF Minds
  <2>2. Minds(r, S!AnswerCall(r, c), R) /\ i \in S!AnswerCall(r, c).answerTime
    BY <1>2, <1>5, <2>1, AnswerCallMinds
  <2> QED BY <1>2, <2>1, <2>2, MindsItself
<1> HIDE DEF s
<1>8. Minds(s, k, R)
  <2>1. Linked(s)
    BY <1>7 DEF Minds
  <2>2. Rests(s, k)
    BY <1>2, <2>1, KeepRests
  <2>3. k.out = s.out /\ k.answerTime = s.answerTime /\ k.callIdsAnswered = s.callIdsAnswered
    BY <2>1 DEF S!Keep, Linked, S!InitPhone
  <2> HIDE DEF k
  <2> QED BY <2>2, <2>3, FieldMinds DEF Rests
<1> HIDE DEF k
<1>9. Minds(r, k, R) /\ Minds(l, k, R) /\ k.uuid = l.uuid
  <2>1. Minds(r, k, R)
    BY <1>7, <1>8, MindsTransitive
  <2>2. Minds(l, k, R)
    BY <1>6, <2>1, MindsTransitive
  <2> QED BY <2>1, <2>2 DEF Minds
<1>10. p.answerTime \subseteq k.answerTime /\ NewReports(p.out, k.out, R)
  BY <1>3, <1>9 DEF Minds
<1>11. ASSUME NEW u \in Uuids, Answers(p, u) PROVE Answers(k, u)
  <2>1. \A j \in Ids \ {i} : l.uuid[j] = p.uuid[j]
    BY <1>3 DEF Linked
  <2>2. Answers(l, u)
    BY <1>3, <1>11, <2>1, IosCallsAssumption DEF Answers
  <2> QED BY <1>9, <2>2 DEF Minds
<1>12. ASSUME i \in p.callIdsAnswered
       PROVE  \E j \in Ids : j \in k.answerTime /\ k.uuid[j] = i
  <2>1. Answers(r, i)
    BY <1>3, <1>6, <1>12 DEF Answers, Minds
  <2>2. k.uuid = r.uuid /\ r.uuid[i] = i /\ r.answerTime \subseteq k.answerTime
        /\ s.answerTime \subseteq k.answerTime
    BY <1>3, <1>6, <1>8, <1>9 DEF Minds
  <2> QED BY <1>7, <2>1, <2>2 DEF Answers
<1>13. n = k
  BY <1>1 DEF l, k
<1> QED BY <1>10, <1>11, <1>12, <1>13

(* An answer of the system's screen that makes no mistake is given to the  *)
(* call it is for, or kept.                                                *)
LEMMA AnswerButtonMinds ==
  ASSUME NEW p, Linked(p), p.activeCall \in p.calls \cup {NoCall}, NEW u \in Uuids,
         NEW R, Covers(p, p.calls, R), S!AnswerButtonPressed(p, u).uuid = p.uuid
  PROVE  LET q == S!AnswerButtonPressed(p, u)
             c == S!CallByUuid(p, u)
         IN  /\ Minds(p, q, R)
             /\ c = NoCall => u \in q.callIdsAnswered
             /\ c # NoCall => c.id \in q.answerTime
<1> DEFINE q == [p EXCEPT !.callIdsAnswered = @ \cup {u}]
           a == q.activeCall
           adopted == [q EXCEPT !.uuid = [@ EXCEPT ![a.id] = u]]
           adopt == S!CallByUuid(q, u) = NoCall /\ a # NoCall /\ q.state[a.n] = "PROGRESS"
           r == IF adopt THEN adopted ELSE q
           c == S!CallByUuid(r, u)
           t == S!AnswerButtonPressed(p, u)
<1>1. t = IF c = NoCall THEN r ELSE S!AnswerCall(r, c)
  BY DEF S!AnswerButtonPressed
<1>2. /\ Linked(q) /\ q.activeCall = p.activeCall /\ q.uuid = p.uuid /\ q.calls = p.calls
      /\ q.keys = p.keys /\ q.out = p.out /\ q.answerTime = p.answerTime
      /\ q.callIdsAnswered = p.callIdsAnswered \cup {u}
  <2>1. Linked(q)
    BY OtherField DEF Rests
  <2> QED BY <2>1 DEF Linked, S!InitPhone
<1> HIDE DEF q
<1>3. /\ DOMAIN adopted = DOMAIN q /\ adopted.calls = q.calls
      /\ adopted.activeCall = q.activeCall /\ adopted.created = q.created
      /\ adopted.uuid = [q.uuid EXCEPT ![a.id] = u] /\ adopted.keys = q.keys
      /\ adopted.out = q.out /\ adopted.answerTime = q.answerTime
      /\ adopted.callIdsAnswered = q.callIdsAnswered
  BY <1>2 DEF Linked, S!InitPhone
<1> HIDE DEF adopted
<1>4. ASSUME adopt PROVE Linked(adopted)
  <2>1. a \in q.calls /\ a.id \in Ids
    BY <1>2, <1>4 DEF Linked, S!Call
  <2>2. /\ adopted.uuid \in [Ids -> Uuids \cup {NoUuid}] /\ adopted.uuid[a.id] = u
        /\ \A j \in Ids \ {a.id} : adopted.uuid[j] = q.uuid[j]
    BY <1>2, <1>3, <2>1 DEF Linked
  <2>3. \A d \in q.calls : d.id \in Ids /\ q.uuid[d.id] # NoUuid
    BY <1>2 DEF Linked, S!Call
  <2>4. \A d \in adopted.calls : adopted.uuid[d.id] # NoUuid
    BY <1>3, <2>2, <2>3, IosCallsAssumption
  <2> QED BY <1>2, <1>3, <2>2, <2>4 DEF Linked
<1>5. /\ Linked(r) /\ r.calls = p.calls /\ r.keys = p.keys /\ r.out = p.out
      /\ r.answerTime = p.answerTime /\ r.callIdsAnswered = p.callIdsAnswered \cup {u}
  BY <1>2, <1>3, <1>4
<1> HIDE DEF r, adopt
<1>6. c \in r.calls \cup {NoCall} /\ r.calls \in SUBSET S!Call
  BY <1>5, LookupFindsListed DEF Linked
<1>7. r.uuid = p.uuid
  <2> HIDE DEF c, t
  <2>1. c # NoCall => S!AnswerCall(r, c).uuid = r.uuid
    BY <1>5, <1>6, AnswerCallRests DEF Rests
  <2>2. t.uuid = p.uuid
    BY DEF t
  <2> QED BY <1>1, <2>1, <2>2
<1>8. c = S!CallByUuid(p, u)
  BY <1>5, <1>7 DEF S!CallByUuid, S!KeysWithUuid, S!CallById, S!IsListed
<1> HIDE DEF c, t
<1>9. Minds(p, r, R)
  BY <1>5, <1>7, FieldMinds
<1>10. CASE c = NoCall
  BY <1>1, <1>5, <1>8, <1>9, <1>10 DEF t
<1>11. CASE c # NoCall
  <2>1. Covers(r, {c}, R) /\ c \in S!Call
    BY <1>5, <1>6, <1>7, <1>11 DEF Covers
  <2>2. Minds(r, t, R) /\ c.id \in t.answerTime
    BY <1>1, <1>5, <1>11, <2>1, AnswerCallMinds
  <2>3. Minds(p, t, R)
    BY <1>9, <2>2, MindsTransitive
  <2> QED BY <1>8, <1>11, <2>2, <2>3 DEF t
<1> QED BY <1>10, <1>11
-----------------------------------------------------------------------------
(* What native code and CallKit make of answers and of calls that dial.    *)
LEMMA StartsAsked ==
  ASSUME NEW c \in S!Command
  PROVE  \A k \in 1..Len(Asks(c)) :
           Asks(c)[k].op = "start" => c.op = "reportOutgoingCall" /\ Asks(c)[k].to \in c.to
<1> DEFINE each(o, us) == SetToSeq({[op |-> o, to |-> u] : u \in us})
           G == {a \in Action : a.op = "start" => c.op = "reportOutgoingCall" /\ a.to \in c.to}
<1>1. c.to \in SUBSET Uuids /\ IsFiniteSet(Uuids)
  BY IosCallsAssumption DEF S!Command
<1>2. ASSUME NEW o \in {"start", "answer", "end", "hold", "unhold"}, NEW us \in SUBSET Uuids,
             o = "start" => c.op = "reportOutgoingCall" /\ us = c.to
      PROVE  each(o, us) \in Seq(G)
  <2> DEFINE X == {[op |-> o, to |-> u] : u \in us}
             f == [u \in us |-> [op |-> o, to |-> u]]
  <2>1. X \in SUBSET G
    BY <1>2 DEF Action
  <2>2. f \in Surjection(us, X)
    BY DEF Surjection
  <2>3. IsFiniteSet(us)
    BY <1>1, FS_Subset
  <2> HIDE DEF X, f, G
  <2>4. IsFiniteSet(X)
    BY <2>2, <2>3, FS_Surjection
  <2>5. SetToSeq(X) \in Seq(G)
    BY <2>1, <2>4, ListingType
  <2> QED BY <2>5 DEF X
<1> DEFINE answered == c.to \cap DOMAIN answeredUuids
<1>3. answered \in SUBSET Uuids
  BY <1>1
<1> HIDE DEF answered
<1>4. /\ c.op = "reportOutgoingCall" => each("start", c.to) \in Seq(G)
      /\ each("answer", c.to) \in Seq(G) /\ each("end", c.to) \in Seq(G)
      /\ each("hold", answered) \in Seq(G) /\ each("unhold", answered) \in Seq(G)
      /\ <<>> \in Seq(G)
  <2> HIDE DEF each, G
  <2> QED BY <1>1, <1>2, <1>3, EmptySeq
<1>5. c.op = "reportOutgoingCall" => each("start", c.to) \o each("start", c.to) \in Seq(G)
  <2> HIDE DEF each, G
  <2> QED BY <1>4, ConcatProperties
<1>6. \/ c.op = "reportOutgoingCall" /\ Asks(c) = each("start", c.to) \o each("start", c.to)
      \/ Asks(c) \in {each("answer", c.to), each("end", c.to), each("hold", answered),
                      each("unhold", answered), <<>>}
  <2> HIDE DEF each
  <2> QED BY DEF Asks, answered, each
<1> HIDE DEF each
<1>7. Asks(c) \in Seq(G)
  <2> HIDE DEF G
  <2> QED BY <1>4, <1>5, <1>6
<1> HIDE DEF Action
<1>8. ASSUME NEW k \in 1..Len(Asks(c)) PROVE Asks(c)[k] \in G
  <2> HIDE DEF G
  <2> QED BY <1>7, ElementOfSeq
<1> QED BY <1>8

KeepsDials(u) ==
  /\ kit'[u] \in Connected =>
       kit[u] \in Connected \cup {"dialing"} \/ Pending({"answerButtonPressed"}, u)'
  /\ kit'[u] = "dialing" =>
       \/ kit[u] = "dialing"
       \/ /\ kit[u] = "none"
          /\ \E k \in 1..Len(requests) : requests[k].op = "start" /\ requests[k].to = u

NativeCounts ==
  /\ phone'.answerTime = phone.answerTime /\ phone'.callIdsAnswered = phone.callIdsAnswered
  /\ \A k \in 1..Len(phone'.out) : \E l \in 1..Len(phone.out) : phone'.out[k] = phone.out[l]
  /\ \A u \in Uuids : KeepsDials(u)
  /\ \A k \in 1..Len(requests') : requests'[k].op = "start" =>
       \/ \E l \in 1..Len(requests) : requests[l] = requests'[k]
       \/ \E l \in 1..Len(phone.out) : /\ phone.out[l].op = "reportOutgoingCall"
                                       /\ requests'[k].to \in phone.out[l].to
  /\ \A i \in Ids : core[i] # "none" /\ EndIn(phone.out, i) =>
       EndIn(phone'.out, i) \/ core'[i] \notin {"none", "incoming"}

LEMMA RestCounts ==
  ASSUME UNCHANGED phone, \A u \in Uuids : KeepsDials(u),
         \A k \in 1..Len(requests') : \E l \in 1..Len(requests) : requests[l] = requests'[k]
  PROVE  NativeCounts
BY DEF NativeCounts

LEMMA PerformsCounts ==
  ASSUME kit \in [Uuids -> KitState], toDart \in Seq(Event), NEW o, NEW u \in Uuids,
         Performs(o, u) \/ Refuses(o, u),
         o = "start" => \E k \in 1..Len(requests) : requests[k].op = "start" /\ requests[k].to = u
  PROVE  \A v \in Uuids : KeepsDials(v)
<1>1. ASSUME o = "answer", Performs(o, u) PROVE Pending({"answerButtonPressed"}, u)'
  <2> DEFINE e == Ev("answerButtonPressed", u)
  <2>1. e \in Event /\ e.op = "answerButtonPressed" /\ e.id = u
    BY EvType DEF Buttons
  <2>2. toDart' = Append(toDart, e)
    BY <1>1 DEF Performs
  <2> HIDE DEF e
  <2>3. /\ toDart' \in Seq(Event) /\ Len(toDart) + 1 \in 1..Len(toDart')
        /\ toDart'[Len(toDart) + 1] = e
    <3> HIDE DEF Event
    <3> QED BY <2>1, <2>2, AppendProperties, LenProperties
  <2>4. DOMAIN toDart' = 1..Len(toDart')
    BY <2>3, LenProperties
  <2> QED BY <2>1, <2>3, <2>4 DEF Pending
<1>2. CASE Refuses(o, u)
  <2>1. kit' = kit
    BY <1>2 DEF Refuses
  <2> QED BY <2>1 DEF KeepsDials
<1>3. CASE Performs(o, u)
  <2>1. \A v \in Uuids : v # u => kit'[v] = kit[v]
    BY <1>3 DEF Performs
  <2>2. \/ o = "start" /\ kit[u] = "none" /\ kit'[u] = "dialing"
        \/ o = "answer" /\ kit'[u] = "active"
        \/ kit[u] \in Connected /\ kit'[u] # "dialing"
        \/ kit'[u] = "gone"
    BY <1>3 DEF Performs
  <2>3. KeepsDials(u)
    BY <1>1, <1>3, <2>2 DEF KeepsDials, Connected
  <2>4. \A v \in Uuids : v # u => KeepsDials(v)
    BY <2>1 DEF KeepsDials
  <2> QED BY <2>3, <2>4
<1> QED BY <1>2, <1>3

LEMMA PerformCounts ==
  ASSUME Seen, NativeCommand, Perform(Head(phone.out))
  PROVE  NativeCounts
<1> DEFINE h == Head(phone.out)
           t == Tail(phone.out)
<1>1. /\ phone.out # <<>> /\ Perform(h) /\ phone' = [phone EXCEPT !.out = t]
      /\ phone.out \in Seq(S!Command) /\ requests \in Seq(Action)
      /\ core \in [Ids -> CoreState] /\ toDart \in Seq(Event) /\ kit \in [Uuids -> KitState]
      /\ requests' = requests \o Asks(h)
  BY DEF NativeCommand, Perform, Seen, PhoneInv, Linked, KitTyped
<1>2. /\ h \in S!Command /\ t \in Seq(S!Command) /\ 1 \in 1..Len(phone.out) /\ h = phone.out[1]
      /\ Len(phone.out) \in Nat /\ Len(t) = Len(phone.out) - 1
      /\ \A k \in 1..Len(t) : t[k] = phone.out[k + 1]
  <2> HIDE DEF S!Command
  <2> QED BY <1>1, HeadTailProperties, EmptySeq, LenProperties
<1>3. /\ phone'.out = t /\ phone'.answerTime = phone.answerTime
      /\ phone'.callIdsAnswered = phone.callIdsAnswered
  BY <1>1 DEF Seen, PhoneInv, Linked, S!InitPhone
<1> HIDE DEF h, t
<1>4. /\ \A k \in 1..Len(t) : k + 1 \in 1..Len(phone.out)
      /\ \A k \in 1..Len(phone.out) : k # 1 => k - 1 \in 1..Len(t) /\ t[k - 1] = phone.out[k]
  BY <1>2
<1>5. \A k \in 1..Len(phone'.out) : \E l \in 1..Len(phone.out) : phone'.out[k] = phone.out[l]
  BY <1>2, <1>3, <1>4
<1>6. ASSUME NEW k \in 1..Len(requests'), requests'[k].op = "start"
      PROVE  \/ \E l \in 1..Len(requests) : requests[l] = requests'[k]
             \/ \E l \in 1..Len(phone.out) : /\ phone.out[l].op = "reportOutgoingCall"
                                             /\ requests'[k].to \in phone.out[l].to
  <2>1. Asks(h) \in Seq(Action)
    BY <1>2, AsksType
  <2>2. \/ k \in 1..Len(requests) /\ requests'[k] = requests[k]
        \/ k - Len(requests) \in 1..Len(Asks(h)) /\ requests'[k] = Asks(h)[k - Len(requests)]
    <3> HIDE DEF Action
    <3> QED BY <1>1, <2>1, ConcatSplits
  <2>3. ASSUME k - Len(requests) \in 1..Len(Asks(h)), requests'[k] = Asks(h)[k - Len(requests)]
        PROVE  h.op = "reportOutgoingCall" /\ requests'[k].to \in h.to
    BY <1>2, <1>6, <2>3, StartsAsked
  <2> QED BY <1>2, <2>2, <2>3
<1>7. CASE ResumesAgain(h)
  <2>1. UNCHANGED <<core, kit>> /\ h.op = "lpResume"
    BY <1>1, <1>7 DEF Perform, ResumesAgain
  <2>2. \A u \in Uuids : KeepsDials(u)
    BY <2>1 DEF KeepsDials
  <2>3. ASSUME NEW i \in Ids, EndIn(phone.out, i) PROVE EndIn(phone'.out, i)
    BY <1>2, <1>3, <1>4, <2>1, <2>3 DEF EndIn
  <2> QED BY <1>3, <1>5, <1>6, <2>2, <2>3 DEF NativeCounts
<1>8. CASE ~ResumesAgain(h)
  <2>1. PICK after \in CoreAfter(h) \cup (IF CoreAfter(h) = {} THEN {core} ELSE {}) :
          React(after, KitAfter(h))
    BY <1>1, <1>8 DEF Perform
  <2>2. /\ core' = after
        /\ \A u \in Uuids : kit'[u] \in {KitAfter(h)[u], "gone"}
    <3>1. /\ core' = after
          /\ \/ kit' = KitAfter(h) \/ \E i : RingingDidTimeout(KitAfter(h), i)
      BY <2>1 DEF React
    <3>2. kit' = KitAfter(h) \/ \E i : kit' = [KitAfter(h) EXCEPT ![i] = "gone"]
      BY <3>1 DEF RingingDidTimeout
    <3>3. KitAfter(h) = [u \in Uuids |-> KitAfter(h)[u]]
      BY DEF KitAfter
    <3> HIDE DEF KitAfter
    <3> QED BY <3>1, <3>2, <3>3
  <2>3. \A u \in Uuids : KitAfter(h)[u] = kit[u] \/ (kit[u] = "dialing" /\ KitAfter(h)[u] = "active")
    BY DEF KitAfter
  <2>4. \A u \in Uuids : KeepsDials(u)
    BY <2>2, <2>3 DEF KeepsDials, Connected
  <2>5. ASSUME NEW i \in Ids, core[i] # "none", EndIn(phone.out, i), ~EndIn(phone'.out, i)
        PROVE  core'[i] \notin {"none", "incoming"}
    <3>1. h.op = "lpEndCall" /\ i \in h.to
      BY <1>2, <1>3, <1>4, <2>5 DEF EndIn
    <3>2. after = Terminate(Found(h)) /\ i \in Found(h)
      BY <2>1, <2>5, <3>1 DEF CoreAfter, Found, Known
    <3> QED BY <2>2, <2>5, <3>2 DEF Terminate, LiveCalls
  <2> QED BY <1>3, <1>5, <1>6, <2>4, <2>5 DEF NativeCounts
<1> QED BY <1>7, <1>8

LEMMA NativeMovesCount ==
  ASSUME Seen,
         \/ NativeCommand /\ Perform(Head(phone.out))
         \/ KitPerforms \/ \E i \in Ids : CoreActs(i)
         \/ \E u \in Uuids : SystemButton(u) \/ CallChanged(u) \/ PushArrives(u) \/ RingingTimer(u)
  PROVE  NativeCounts
<1>1. /\ toDart \in Seq(Event) /\ core \in [Ids -> CoreState] /\ kit \in [Uuids -> KitState]
      /\ requests \in Seq(Action)
  BY DEF Seen, KitTyped
<1>2. CASE KitPerforms
  <2> DEFINE a == Head(requests)
             t == Tail(requests)
  <2>1. requests # <<>> /\ UNCHANGED phone /\ requests' = t
        /\ (Performs(a.op, a.to) \/ Refuses(a.op, a.to))
    BY <1>2 DEF KitPerforms
  <2>2. /\ a \in Action /\ 1 \in 1..Len(requests) /\ a = requests[1]
        /\ Len(requests) \in Nat /\ Len(t) = Len(requests) - 1
        /\ \A k \in 1..Len(t) : t[k] = requests[k + 1]
    <3> HIDE DEF Action
    <3> QED BY <1>1, <2>1, HeadTailProperties, EmptySeq, LenProperties
  <2> HIDE DEF a, t
  <2>3. a.to \in Uuids
    BY <2>2 DEF Action
  <2>4. \A u \in Uuids : KeepsDials(u)
    BY <1>1, <2>1, <2>2, <2>3, PerformsCounts
  <2>5. \A k \in 1..Len(t) : k + 1 \in 1..Len(requests)
    BY <2>2
  <2> QED BY <2>1, <2>2, <2>4, <2>5, RestCounts
<1>3. ASSUME NEW u \in Uuids, SystemButton(u) PROVE NativeCounts
  <2>1. UNCHANGED <<phone, requests>> /\ \E o : o # "start" /\ Performs(o, u)
    BY <1>3 DEF SystemButton
  <2>2. \A v \in Uuids : KeepsDials(v)
    BY <1>1, <2>1, PerformsCounts
  <2> QED BY <2>1, <2>2, RestCounts
<1>4. ASSUME NEW u \in Uuids, CallChanged(u) \/ PushArrives(u) \/ RingingTimer(u)
      PROVE  NativeCounts
  <2>1. UNCHANGED <<phone, requests>>
    BY <1>4 DEF CallChanged, PushArrives, RingingTimer
  <2>2. \A v \in Uuids : kit'[v] \in {kit[v], "ringing", "gone"}
    <3>1. CASE CallChanged(u)
      BY <3>1 DEF CallChanged
    <3>2. CASE PushArrives(u)
      BY <1>1, <3>2 DEF PushArrives
    <3>3. CASE RingingTimer(u)
      BY <1>1, <3>3 DEF RingingTimer, RingingDidTimeout
    <3> QED BY <1>4, <3>1, <3>2, <3>3
  <2>3. \A v \in Uuids : KeepsDials(v)
    BY <2>2 DEF KeepsDials, Connected
  <2> QED BY <2>1, <2>3, RestCounts
<1>5. ASSUME NEW i \in Ids, CoreActs(i) PROVE NativeCounts
  <2>1. UNCHANGED <<phone, requests>> /\ \E c : React(c, kit)
    BY <1>5 DEF CoreActs
  <2>2. \A v \in Uuids : kit'[v] \in {kit[v], "gone"}
    <3>1. kit' = kit \/ \E j : RingingDidTimeout(kit, j)
      BY <2>1 DEF React
    <3>2. kit' = kit \/ \E j : kit' = [kit EXCEPT ![j] = "gone"]
      BY <3>1 DEF RingingDidTimeout
    <3> QED BY <1>1, <3>2
  <2>3. \A v \in Uuids : KeepsDials(v)
    BY <2>2 DEF KeepsDials, Connected
  <2> QED BY <2>1, <2>3, RestCounts
<1> QED BY <1>2, <1>3, <1>4, <1>5, PerformCounts
-----------------------------------------------------------------------------
(* An incoming call answered on the system's screen.  CallKit shows a call *)
(* as dialling only once this phone makes it, so that a call not begun     *)
(* gets connected there by an answer, which Dart hears of; and what Dart   *)
(* heard it gives to the call or keeps until the call is announced.        *)
Reportable(j) == kit[j] # "none" \/ Begun(j)

Counted(i) ==
  core[i] \in {"none", "incoming"} /\ kit[i] \in Connected =>
    \/ Pending({"answerButtonPressed"}, i) \/ i \in phone.answerTime
    \/ i \in phone.callIdsAnswered /\ (core[i] = "none" \/ Pending({"lnIncomingReceived"}, i))
    \/ core[i] = "incoming" /\ EndIn(phone.out, i)

DialsBegun ==
  /\ \A i \in Ids : kit[i] = "dialing" => Begun(i)
  /\ \A k \in 1..Len(requests) :
       requests[k].op = "start" /\ requests[k].to \in Ids => Reportable(requests[k].to)
  /\ \A k \in 1..Len(phone.out) : phone.out[k].op = "reportOutgoingCall" =>
       \A i \in phone.out[k].to \cap Ids : Reportable(i)

Counts == NoneMistaken => DialsBegun /\ \A i \in Ids : Counted(i)

(* A phone that starts anew has nothing under way. *)
Idle == Fresh /\ Len(requests) = 0 /\ \A u \in Uuids : kit[u] # "dialing"

LEMMA CountsIdle == Idle => Counts
<1> SUFFICES ASSUME Idle PROVE Counts
  OBVIOUS
<1>1. /\ Len(requests) = 0 /\ phone = S!InitPhone
      /\ \A u \in Uuids : kit[u] # "dialing" /\ kit[u] \notin Connected
  BY DEF Idle, Fresh
<1>2. Len(phone.out) = 0
  <2>1. phone.out = <<>>
    BY <1>1 DEF S!InitPhone
  <2> QED BY <2>1
<1>3. 1..Len(requests) = {} /\ 1..Len(phone.out) = {} /\ Ids \subseteq Uuids
  BY <1>1, <1>2 DEF Uuids
<1> QED BY <1>1, <1>3 DEF Counts, DialsBegun, Counted

LEMMA IdleInit ==
  ASSUME Init
  PROVE  Idle
<1>1. requests = <<>> /\ kit = [u \in Uuids |-> "none"]
  BY DEF Init
<1>2. Len(requests) = 0 /\ \A u \in Uuids : kit[u] # "dialing"
  BY <1>1
<1> QED BY <1>2, FreshInit DEF Idle

LEMMA IdleDies ==
  ASSUME Seen, ProcessDies
  PROVE  Idle'
<1>1. requests' = <<>> /\ kit' = [u \in Uuids |-> IF kit[u] \in OnScreen THEN "gone" ELSE kit[u]]
  BY DEF ProcessDies
<1>2. Len(requests') = 0 /\ \A u \in Uuids : kit'[u] # "dialing"
  BY <1>1 DEF OnScreen
<1> QED BY <1>2, FreshDies DEF Idle

LEMMA CountsNative ==
  ASSUME Seen, Apart, Counts, NativeStep, NativeCounts
  PROVE  Counts'
<1> SUFFICES ASSUME NoneMistaken' PROVE DialsBegun' /\ \A i \in Ids : Counted(i)'
  BY DEF Counts
<1>1. DialsBegun /\ \A i \in Ids : Counted(i)
  BY DEF Counts, NoneMistaken, NativeStep
<1>2. /\ toDart \in Seq(Event) /\ core \in [Ids -> CoreState] /\ Lawful(core')
      /\ \A u \in Uuids : kit[u] # "none" => kit'[u] # "none"
      /\ \A i \in Ids : i \in Uuids
  BY DEF Seen, NativeStep, Uuids
<1>3. PICK r \in Seq(Event) : toDart' = toDart \o r /\ Says(r)
  BY DEF NativeStep
<1>4. /\ \A i \in Ids : Begun(i) => Begun(i)'
      /\ \A i \in Ids : core'[i] = "none" => core[i] = "none"
      /\ \A i \in Ids : core'[i] = "incoming" => core[i] \in {"none", "incoming"}
  BY <1>2 DEF Lawful, Begun
<1>5. \A i \in Ids : Reportable(i) => Reportable(i)'
  BY <1>2, <1>4 DEF Reportable
<1>6. toDart' \in Seq(Event) /\ Grows(toDart, toDart')
      /\ \A k \in 1..Len(r) : Len(toDart) + k \in 1..Len(toDart') /\ toDart'[Len(toDart) + k] = r[k]
  <2> HIDE DEF Event
  <2> QED BY <1>2, <1>3, ConcatGrows
<1>7. \A ops, i : Pending(ops, i) => Pending(ops, i)'
  BY <1>2, <1>6, PendingGrows
<1>8. ASSUME NEW i \in Ids, core[i] = "none", core'[i] = "incoming"
      PROVE  Pending({"lnIncomingReceived"}, i)'
  <2>1. PICK k \in 1..Len(r) : Arrives(r[k], i)
    BY <1>3, <1>8 DEF Says
  <2>2. DOMAIN toDart' = 1..Len(toDart')
    BY <1>6, LenProperties
  <2> QED BY <1>6, <2>1, <2>2 DEF Pending, Arrives
<1>9. \A i \in Ids : kit'[i] = "dialing" => Begun(i)'
  BY <1>1, <1>2, <1>4 DEF NativeCounts, KeepsDials, DialsBegun, Reportable
<1>10. \A k \in 1..Len(phone'.out) : phone'.out[k].op = "reportOutgoingCall" =>
         \A i \in phone'.out[k].to \cap Ids : Reportable(i)'
  BY <1>1, <1>5 DEF NativeCounts, DialsBegun
<1>11. ASSUME NEW k \in 1..Len(requests'), requests'[k].op = "start",
              NEW i \in Ids, requests'[k].to = i
       PROVE  Reportable(i)'
  <2>1. \/ \E l \in 1..Len(requests) : requests[l] = requests'[k]
        \/ \E l \in 1..Len(phone.out) : /\ phone.out[l].op = "reportOutgoingCall"
                                        /\ requests'[k].to \in phone.out[l].to
    BY <1>11 DEF NativeCounts
  <2>2. Reportable(i)
    BY <1>1, <1>11, <2>1 DEF DialsBegun
  <2> QED BY <1>5, <2>2
<1>12. ASSUME NEW i \in Ids PROVE Counted(i)'
  <2>1. SUFFICES ASSUME core'[i] \in {"none", "incoming"}, kit'[i] \in Connected,
                        ~Pending({"answerButtonPressed"}, i)'
                 PROVE  \/ i \in phone'.answerTime
                        \/ /\ i \in phone'.callIdsAnswered
                           /\ core'[i] = "none" \/ Pending({"lnIncomingReceived"}, i)'
                        \/ core'[i] = "incoming" /\ EndIn(phone'.out, i)
    BY DEF Counted
  <2>2. core[i] \in {"none", "incoming"} /\ ~Begun(i)
    BY <1>4, <2>1 DEF Begun
  <2>3. kit[i] \in Connected
    BY <1>1, <1>2, <2>1, <2>2 DEF NativeCounts, KeepsDials, DialsBegun
  <2>4. ~Pending({"answerButtonPressed"}, i)
    BY <1>7, <2>1
  <2>5. \/ i \in phone.answerTime
        \/ i \in phone.callIdsAnswered /\ (core[i] = "none" \/ Pending({"lnIncomingReceived"}, i))
        \/ core[i] = "incoming" /\ EndIn(phone.out, i)
    BY <1>1, <2>2, <2>3, <2>4 DEF Counted
  <2>6. CASE i \in phone.answerTime
    BY <2>6 DEF NativeCounts
  <2>7. CASE i \in phone.callIdsAnswered /\ (core[i] = "none" \/ Pending({"lnIncomingReceived"}, i))
    BY <1>7, <1>8, <2>1, <2>7 DEF NativeCounts
  <2>8. CASE core[i] = "incoming" /\ EndIn(phone.out, i)
    <3>1. EndIn(phone'.out, i)
      BY <2>1, <2>8 DEF NativeCounts
    <3>2. core'[i] # "none"
      BY <1>4, <2>8
    <3> QED BY <2>1, <3>1, <3>2
  <2> QED BY <2>5, <2>6, <2>7, <2>8
<1>13. \A k \in 1..Len(requests') : requests'[k].op = "start" /\ requests'[k].to \in Ids =>
         kit'[requests'[k].to] # "none" \/ core'[requests'[k].to] \notin {"none", "incoming"}
  BY <1>11 DEF Reportable, Begun
<1> QED BY <1>9, <1>10, <1>12, <1>13 DEF DialsBegun, Reportable, Begun

(* The outgoing calls on the list have begun. *)
LEMMA ListedBegun ==
  ASSUME Seen, Apart, NoneMistaken
  PROVE  Covers(phone, phone.calls, {j \in Ids : Begun(j)})
<1>1. ASSUME NEW d \in phone.calls, d.direction = "OUTGOING"
      PROVE  phone.uuid[d.id] = d.id /\ d.id \in Ids /\ Begun(d.id)
  <2>1. d.id \in Ids /\ phone.uuid[d.id] # NoUuid
    BY DEF Seen, PhoneInv, Linked, S!Call
  <2>2. phone.uuid[d.id] = d.id
    BY <2>1 DEF NoneMistaken
  <2>3. Called(d.id)
    BY <1>1 DEF Called, Calling
  <2>4. Begun(d.id)
    BY <2>1, <2>3 DEF Apart, RungOrCalled
  <2> QED BY <2>1, <2>2, <2>4
<1> QED BY <1>1 DEF Covers

(* Whatever the phone does, what it reports to CallKit has begun.          *)
LEMMA DialsKept ==
  ASSUME DialsBegun, UNCHANGED <<core, requests, kit>>,
         NewReports(phone.out, phone'.out, {j \in Ids : Begun(j)})
  PROVE  DialsBegun'
<1>1. \A j : Reportable(j)' = Reportable(j) /\ Begun(j)' = Begun(j)
  BY DEF Reportable, Begun
<1>2. ASSUME NEW k \in 1..Len(phone'.out), phone'.out[k].op = "reportOutgoingCall",
             NEW i \in phone'.out[k].to \cap Ids
      PROVE  Reportable(i)
  BY <1>2 DEF NewReports, DialsBegun, Reportable
<1> QED BY <1>1, <1>2 DEF DialsBegun

LEMMA CountsUser ==
  ASSUME Seen, Apart, Counts, User
  PROVE  Counts'
<1> DEFINE R == {j \in Ids : Begun(j)}
<1> SUFFICES ASSUME NoneMistaken' PROVE DialsBegun' /\ \A i \in Ids : Counted(i)'
  BY DEF Counts
<1>1. /\ UNCHANGED <<core, toDart, requests, kit, answeredUuids>>
      /\ phone'.uuid = phone.uuid
  BY UserRests DEF Apart
<1>2. NoneMistaken /\ DialsBegun /\ \A i \in Ids : Counted(i)
  BY <1>1 DEF Counts, NoneMistaken
<1>3. Linked(phone) /\ phone.activeCall \in phone.calls \cup {NoCall}
  BY DEF Seen, PhoneInv, P!IosInv, P!FocusListed
<1>4. Minds(phone, phone', R)
  BY <1>2, <1>3, ListedBegun, UserMinds
<1>5. DialsBegun'
  BY <1>1, <1>2, <1>4, DialsKept DEF Minds
<1>6. \A i : EndIn(phone.out, i) => EndIn(phone'.out, i)
  <2>1. /\ phone.out \in Seq(S!Command) /\ phone'.out \in Seq(S!Command)
        /\ Grows(phone.out, phone'.out)
    BY <1>3, UserAccounts DEF Sheds, Accounts, Linked
  <2> HIDE DEF S!Command
  <2> QED BY <2>1, GrowsKeepsEnd
<1>7. \A ops, i : Pending(ops, i)' <=> Pending(ops, i)
  BY <1>1 DEF Pending
<1>8. ASSUME NEW i \in Ids, i \in phone.callIdsAnswered
      PROVE  i \in phone'.callIdsAnswered \/ i \in phone'.answerTime
  <2>1. Answers(phone', i)
    BY <1>4, <1>8 DEF Minds, Answers
  <2> QED BY <2>1, IosCallsAssumption DEF Answers, NoneMistaken, Uuids
<1>9. \A i \in Ids : Counted(i)'
  BY <1>1, <1>2, <1>4, <1>6, <1>7, <1>8 DEF Counted, Minds
<1> QED BY <1>5, <1>9
(* An event that makes no mistake forgets no answer.                       *)
LEMMA EventMinds ==
  ASSUME Seen, Apart, NoneMistaken, NoneMistaken', DartEvent
  PROVE  LET h == Head(toDart)
         IN  /\ phone.answerTime \subseteq phone'.answerTime
             /\ NewReports(phone.out, phone'.out, {j \in Ids : Begun(j)})
             /\ \A u \in Uuids : Answers(phone, u) => Answers(phone', u)
             /\ h.op = "lnIncomingReceived" /\ h.id \in phone.callIdsAnswered =>
                  \E j \in Ids : j \in phone'.answerTime /\ phone'.uuid[j] = h.id
             /\ h.op = "answerButtonPressed" =>
                  \/ S!CallByUuid(phone, h.id) = NoCall /\ h.id \in phone'.callIdsAnswered
                  \/ \E j \in Ids : j \in phone'.answerTime /\ phone'.uuid[j] = h.id
<1> DEFINE h == Head(toDart)
           R == {j \in Ids : Begun(j)}
           c == S!CallByUuid(phone, h.id)
<1>1. /\ h \in Event /\ Heard(h) /\ phone' = Handle(h)
      /\ h.op \in Announcements => h.id \in Ids /\ ~P!Keyed(phone, h.id)
  BY EventHeard
<1>2. h.op \in Dials => Pending(Dials, h.id)
  BY HeadIsPending
<1>3. /\ Linked(phone) /\ phone.activeCall \in phone.calls \cup {NoCall}
      /\ Covers(phone, phone.calls, R) /\ h.id \in Uuids
      /\ phone.uuid \in [Ids -> Uuids \cup {NoUuid}]
  BY <1>1, ListedBegun DEF Seen, PhoneInv, Linked, P!IosInv, P!FocusListed, Event
<1> HIDE DEF h
<1>4. ASSUME NEW dir \in {"INCOMING", "OUTGOING"}, dir = "OUTGOING" => h.op = "lnOutgoingInit",
             h.op \in Announcements,
             LET d == S!NewCall(phone, h.id, dir)
             IN  phone' = S!Keep(S!AddCall(S!LinkLnCallWithUuid(phone, h.id, h.id), d), d)
      PROVE  /\ phone.answerTime \subseteq phone'.answerTime
             /\ NewReports(phone.out, phone'.out, R)
             /\ \A u \in Uuids : Answers(phone, u) => Answers(phone', u)
             /\ h.id \in phone.callIdsAnswered =>
                  \E j \in Ids : j \in phone'.answerTime /\ phone'.uuid[j] = h.id
  <2>1. h.id \in Ids /\ phone.uuid[h.id] = NoUuid
    BY <1>1, <1>4 DEF Apart
  <2>2. phone.created < MaxObjects
    BY <1>1, <1>4, ObjectIsLeft DEF Seen
  <2>3. dir = "OUTGOING" => h.id \in R
    <3>1. dir = "OUTGOING" => Called(h.id)
      BY <1>2, <1>4 DEF Called, Dials
    <3> QED BY <2>1, <3>1 DEF Apart, RungOrCalled
  <2>4. Linked(phone)
    BY <1>3
  <2> HIDE DEF R
  <2> QED BY <1>4, <2>1, <2>2, <2>3, <2>4, AnnouncedMinds
<1>5. CASE h.op = "lnIncomingReceived"
  <2>1. Handle(h) = S!IncomingReceived(phone, h.id, h.id)
    BY <1>5, SMTT(30) DEF Handle, Announcements, ShownAs
  <2>2. h.op \in Announcements /\ h.op # "answerButtonPressed"
    BY <1>5 DEF Announcements
  <2> QED BY <1>1, <1>4, <1>5, <2>1, <2>2 DEF S!IncomingReceived, h
<1>6. CASE h.op = "lnOutgoingInit"
  <2>1. Handle(h) = S!OutgoingInit(phone, h.id, h.id)
    BY <1>6, SMTT(30) DEF Handle, Announcements, ShownAs
  <2>2. h.op \in Announcements /\ h.op \notin {"answerButtonPressed", "lnIncomingReceived"}
    BY <1>6 DEF Announcements
  <2> QED BY <1>1, <1>4, <1>6, <2>1, <2>2 DEF S!OutgoingInit, h
<1>7. CASE h.op = "answerButtonPressed"
  <2>1. Handle(h) = S!AnswerButtonPressed(phone, h.id)
    BY <1>7, SMTT(30) DEF Handle, Announcements, ShownAs
  <2>2. phone'.uuid = phone.uuid
    <3>1. ASSUME Adopts(h.id) PROVE phone'.uuid = phone.uuid
      <4>1. PICK a \in phone.calls : phone'.uuid = [phone.uuid EXCEPT ![a.id] = h.id]
        BY <3>1 DEF Adopts
      <4>2. a.id \in Ids /\ phone.uuid[a.id] # NoUuid
        BY <1>3 DEF Linked, S!Call
      <4>3. phone.uuid[a.id] = a.id /\ phone'.uuid[a.id] = h.id
        BY <1>3, <4>1, <4>2 DEF NoneMistaken
      <4>4. h.id = a.id
        BY <1>3, <4>2, <4>3, IosCallsAssumption DEF NoneMistaken
      <4> QED BY <1>3, <4>1, <4>3, <4>4
    <3>2. h.op \in Buttons
      BY <1>7 DEF Buttons
    <3> QED BY <1>1, <3>1, <3>2 DEF Heard
  <2>3. /\ Minds(phone, phone', R)
        /\ c = NoCall => h.id \in phone'.callIdsAnswered
        /\ c # NoCall => c.id \in phone'.answerTime
    <3> HIDE DEF R
    <3> QED BY <1>1, <1>3, <2>1, <2>2, AnswerButtonMinds
  <2>4. c # NoCall => c.id \in Ids /\ phone.uuid[c.id] = h.id
    BY <1>3, LookupByUuid DEF Linked, S!Call
  <2>5. h.op # "lnIncomingReceived"
    BY <1>7
  <2> QED BY <2>2, <2>3, <2>4, <2>5 DEF Minds, h
<1>8. CASE h.op \notin Announcements \cup {"answerButtonPressed"}
  <2>1. Minds(phone, phone', R)
    <3> HIDE DEF R
    <3> QED BY <1>1, <1>3, <1>8, UpdateMinds
  <2>2. h.op \notin {"lnIncomingReceived", "answerButtonPressed"}
    BY <1>8 DEF Announcements
  <2> QED BY <2>1, <2>2 DEF Minds, h
<1> QED BY <1>5, <1>6, <1>7, <1>8 DEF Announcements

LEMMA CountsEvent ==
  ASSUME Seen, Apart, Counts, DartEvent
  PROVE  Counts'
<1> DEFINE h == Head(toDart)
<1> SUFFICES ASSUME NoneMistaken' PROVE DialsBegun' /\ \A i \in Ids : Counted(i)'
  BY DEF Counts
<1>1. NoneMistaken /\ DialsBegun /\ \A i \in Ids : Counted(i)
  BY MistakesStay DEF Counts
<1>2. /\ UNCHANGED <<core, requests, kit, answeredUuids>> /\ Heard(h)
  BY EventHeard
<1>3. \A ops, u : /\ Pending(ops, u)' => Pending(ops, u)
                  /\ Pending(ops, u) => Pending(ops, u)' \/ (h.id = u /\ h.op \in ops)
  BY HeadIsPending
<1>4. /\ phone.answerTime \subseteq phone'.answerTime
      /\ NewReports(phone.out, phone'.out, {j \in Ids : Begun(j)})
      /\ \A u \in Uuids : Answers(phone, u) => Answers(phone', u)
      /\ h.op = "lnIncomingReceived" /\ h.id \in phone.callIdsAnswered =>
           \E j \in Ids : j \in phone'.answerTime /\ phone'.uuid[j] = h.id
      /\ h.op = "answerButtonPressed" =>
           \/ S!CallByUuid(phone, h.id) = NoCall /\ h.id \in phone'.callIdsAnswered
           \/ \E j \in Ids : j \in phone'.answerTime /\ phone'.uuid[j] = h.id
  BY <1>1, EventMinds
<1>5. Accounts(phone, phone') /\ Seen'
  BY SeenAnnouncement, OtherEvent, AnnouncedAccounts, SeenEvent
<1> HIDE DEF h
<1>6. DialsBegun'
  BY <1>1, <1>2, <1>4, DialsKept
<1>7. \A i : EndIn(phone.out, i) => EndIn(phone'.out, i)
  <2>1. /\ phone.out \in Seq(S!Command) /\ phone'.out \in Seq(S!Command)
        /\ Grows(phone.out, phone'.out)
    BY <1>5 DEF Seen, PhoneInv, Accounts, Linked
  <2> HIDE DEF S!Command
  <2> QED BY <2>1, GrowsKeepsEnd
<1>8. \A i \in Ids : (\E j \in Ids : j \in phone'.answerTime /\ phone'.uuid[j] = i)
                       => i \in phone'.answerTime
  BY IosCallsAssumption DEF NoneMistaken, Uuids
<1>9. ASSUME NEW i \in Ids, core[i] = "incoming", S!CallByUuid(phone, i) = NoCall,
             h.op = "answerButtonPressed"
      PROVE  Pending({"lnIncomingReceived"}, i)' \/ EndIn(phone'.out, i)
  <2>1. Watched(i)'
    BY <1>2, <1>5, <1>9 DEF Seen, LiveCalls
  <2>2. phone'.uuid[i] \in {i, NoUuid}
    BY DEF NoneMistaken
  <2>3. ASSUME S!IsListed(phone', i) PROVE FALSE
    <3>1. PICK d \in phone.calls : d.id = i
      BY <1>2, <1>9, <2>3, EventOps DEF Heard, S!IsListed, Announcements
    <3>2. d = S!CallByUuid(phone, i) /\ d # NoCall
      BY <1>1, <3>1, LookupFindsOwn, NoCallIsNull DEF Seen, PhoneInv, Linked
    <3> QED BY <1>9, <3>2
  <2>4. ASSUME Pending({"lnOutgoingInit"}, i)' PROVE FALSE
    <3>1. Pending(Dials, i)
      <4>1. Pending({"lnOutgoingInit"}, i)
        BY <1>3, <2>4
      <4> QED BY <4>1 DEF Pending, Dials
    <3>2. Begun(i)
      BY <3>1 DEF Called, Apart, RungOrCalled
    <3> QED BY <1>9, <3>2 DEF Begun
  <2>5. Pending(Announcements, i)' =>
          Pending({"lnOutgoingInit"}, i)' \/ Pending({"lnIncomingReceived"}, i)'
    BY DEF Pending, Announcements
  <2> QED BY <2>1, <2>2, <2>3, <2>4, <2>5 DEF Watched
<1>10. ASSUME NEW i \in Ids PROVE Counted(i)'
  <2>1. SUFFICES ASSUME core[i] \in {"none", "incoming"}, kit[i] \in Connected,
                        ~Pending({"answerButtonPressed"}, i)', i \notin phone'.answerTime
                 PROVE  \/ /\ i \in phone'.callIdsAnswered
                           /\ core[i] = "none" \/ Pending({"lnIncomingReceived"}, i)'
                        \/ core[i] = "incoming" /\ EndIn(phone'.out, i)
    BY <1>2 DEF Counted
  <2>2. i \in Uuids
    BY DEF Uuids
  <2>3. CASE Pending({"answerButtonPressed"}, i)
    <3>1. h.id = i /\ h.op = "answerButtonPressed"
      BY <1>3, <2>1, <2>3
    <3>2. S!CallByUuid(phone, i) = NoCall /\ i \in phone'.callIdsAnswered
      BY <1>4, <1>8, <2>1, <3>1
    <3> QED BY <1>9, <2>1, <3>1, <3>2
  <2>4. CASE i \in phone.callIdsAnswered /\ (core[i] = "none" \/ Pending({"lnIncomingReceived"}, i))
    <3>1. i \in phone'.callIdsAnswered
      BY <1>4, <1>8, <2>1, <2>2, <2>4 DEF Answers
    <3>2. Pending({"lnIncomingReceived"}, i) => Pending({"lnIncomingReceived"}, i)'
      BY <1>3, <1>4, <1>8, <2>1, <2>4
    <3> QED BY <2>4, <3>1, <3>2
  <2>5. CASE core[i] = "incoming" /\ EndIn(phone.out, i)
    BY <1>7, <2>5
  <2> QED BY <1>1, <1>4, <2>1, <2>3, <2>4, <2>5 DEF Counted
<1> QED BY <1>6, <1>10

LEMMA CountsNext ==
  ASSUME Seen, Apart, Counts, [Next]_vars
  PROVE  Counts'
<1>1. CASE UNCHANGED vars
  BY <1>1 DEF vars, Counts, NoneMistaken, DialsBegun, Reportable, Begun, Counted, Pending
<1>2. CASE NativeCommand
  <2>1. CASE Perform(Head(phone.out))
    BY <1>2, <2>1, NativeMoves, NativeMovesCount, CountsNative
  <2>2. CASE ProcessDies
    <3>1. Idle'
      BY <2>2, IdleDies
    <3> QED BY <3>1, CountsIdle, PTL
  <2> QED BY <1>2, <2>1, <2>2 DEF NativeCommand
<1> QED BY <1>1, <1>2, NativeMoves, NativeMovesCount, CountsNative, CountsEvent, CountsUser DEF Next

LEMMA AlwaysCounts == Spec => [](Seen /\ Apart /\ Counts)
<1>1. Init => Seen /\ Apart /\ Counts
  BY SeenInit, FreshInit, ApartFresh, IdleInit, CountsIdle
<1>2. Seen /\ Apart /\ Counts /\ [Next]_vars => (Seen /\ Apart /\ Counts)'
  BY SeenNext, ApartNext, CountsNext
<1> QED BY <1>1, <1>2, PTL DEF Spec

(* An incoming call answered on the system's screen, be it before the app  *)
(* heard of the call or after, is answered by Dart, or its answer is on    *)
(* the way, or kept until the call is announced; unless the app is ending  *)
(* it at the same time.  This holds as long as no answer was mistaken for  *)
(* one to a call this phone made.                                          *)
THEOREM IosAnswerCounts == Spec => []SystemAnswerCounts
<1>1. ASSUME Seen, Counts PROVE SystemAnswerCounts
  <2>1. SUFFICES ASSUME NoneMistaken, NEW i \in InState("incoming"), kit[i] \in Connected
                 PROVE  \/ Pending({"answerButtonPressed", "lnIncomingReceived"}, i)
                        \/ i \in phone.answerTime \/ Sent("lpEndCall", i)
    BY DEF SystemAnswerCounts
  <2>2. i \in Ids /\ core[i] = "incoming"
    BY DEF InState
  <2>3. \/ Pending({"answerButtonPressed"}, i) \/ i \in phone.answerTime
        \/ Pending({"lnIncomingReceived"}, i) \/ EndIn(phone.out, i)
    BY <1>1, <2>1, <2>2 DEF Counts, Counted
  <2>4. \/ Pending({"answerButtonPressed"}, i) \/ Pending({"lnIncomingReceived"}, i)
          => Pending({"answerButtonPressed", "lnIncomingReceived"}, i)
    BY DEF Pending
  <2>5. EndIn(phone.out, i) => Sent("lpEndCall", i)
    <3>1. DOMAIN phone.out = 1..Len(phone.out)
      BY <1>1, LenProperties DEF Seen, PhoneInv, Linked
    <3> QED BY <3>1 DEF EndIn, Sent
  <2> QED BY <2>3, <2>4, <2>5
<1> QED BY <1>1, AlwaysCounts, PTL


=============================================================================
