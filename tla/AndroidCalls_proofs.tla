------------------------- MODULE AndroidCalls_proofs -------------------------
(***************************************************************************)
(* Proofs about AndroidCalls for every set of calls, any number of         *)
(* listeners, resumes and messages on their way: no call goes on unseen.   *)
(* A lemma for each method of the Softphone object says that it accounts   *)
(* for the calls it takes off the list: it tells native code to end them.  *)
(***************************************************************************)
EXTENDS AndroidCalls, TLAPS, SequenceTheorems, FiniteSetTheorems, LeastElements

HasKey(p, i) == \E k \in 1..Len(p.keys) : p.keys[k] = i

(* What the methods need of a Softphone object; the other fields may hold  *)
(* anything.  A uuid is that of its call; a listed call is linked to its   *)
(* uuid and has an entry in callData.                                      *)
Linked(p) ==
  /\ DOMAIN p = DOMAIN S!InitPhone
  /\ p.calls \in SUBSET S!Call /\ p.activeCall \in S!Call \cup {NoCall}
  /\ p.created \in Nat
  /\ p.uuid \in [Ids -> Ids \cup {NoUuid}]
  /\ \A i \in Ids : p.uuid[i] \in {i, NoUuid}
  /\ p.keys \in Seq(Ids)
  /\ \A c \in p.calls : p.uuid[c.id] = c.id /\ HasKey(p, c.id)
  /\ p.out \in Seq(S!Command)

Grows(s, t) == Len(s) <= Len(t) /\ \A k \in 1..Len(s) : t[k] = s[k]

EndIn(out, i) == \E k \in 1..Len(out) : out[k].op = "lpEndCall" /\ i \in out[k].to

(* What leaves the list is told to end. *)
Accounts(p, q) ==
  /\ Linked(q) /\ Grows(p.out, q.out)
  /\ \A i \in Ids : S!IsListed(p, i) => S!IsListed(q, i) \/ EndIn(q.out, i)

(* What most methods do: nothing to the list. *)
Rests(p, q) ==
  /\ Linked(q) /\ Grows(p.out, q.out) /\ q.calls = p.calls /\ q.uuid = p.uuid
  /\ q.keys = p.keys

(* A method that takes calls off the list and adds none.                   *)
Sheds(p, q) == Accounts(p, q) /\ q.calls \subseteq p.calls

-----------------------------------------------------------------------------
LEMMA GrowsTransitive ==
  ASSUME NEW T, NEW s \in Seq(T), NEW t \in Seq(T), NEW u \in Seq(T), Grows(s, t), Grows(t, u)
  PROVE  Grows(s, u)
<1>1. Len(s) \in Nat /\ Len(t) \in Nat /\ Len(u) \in Nat
  BY LenProperties
<1> QED BY <1>1 DEF Grows

LEMMA GrowsKeepsEnd ==
  ASSUME NEW T, NEW s \in Seq(T), NEW t \in Seq(T), Grows(s, t), NEW i, EndIn(s, i)
  PROVE  EndIn(t, i)
<1>1. Len(s) \in Nat /\ Len(t) \in Nat
  BY LenProperties
<1> QED BY <1>1 DEF Grows, EndIn

LEMMA ConcatGrows ==
  ASSUME NEW T, NEW s \in Seq(T), NEW t \in Seq(T)
  PROVE  /\ s \o t \in Seq(T) /\ Grows(s, s \o t)
         /\ \A k \in 1..Len(t) : Len(s) + k \in 1..Len(s \o t) /\ (s \o t)[Len(s) + k] = t[k]
<1>1. Len(s) \in Nat /\ Len(t) \in Nat
  BY LenProperties
<1>2. /\ s \o t \in Seq(T) /\ Len(s \o t) = Len(s) + Len(t)
      /\ \A k \in 1..Len(s) + Len(t) :
           (s \o t)[k] = IF k <= Len(s) THEN s[k] ELSE t[k - Len(s)]
  BY ConcatProperties
<1> HIDE DEF Grows
<1>3. ASSUME NEW k \in 1..Len(t)
      PROVE  Len(s) + k \in 1..Len(s \o t) /\ (s \o t)[Len(s) + k] = t[k]
  <2>1. Len(s) + k \in 1..Len(s) + Len(t) /\ ~(Len(s) + k <= Len(s)) /\ Len(s) + k - Len(s) = k
    BY <1>1
  <2> QED BY <1>2, <2>1
<1>4. Grows(s, s \o t)
  BY <1>1, <1>2 DEF Grows
<1> QED BY <1>2, <1>3, <1>4

LEMMA RestsAccounts ==
  ASSUME NEW p, NEW q, Rests(p, q)
  PROVE  Accounts(p, q)
BY DEF Rests, Accounts, S!IsListed

LEMMA RestsSheds ==
  ASSUME NEW p, NEW q, Rests(p, q)
  PROVE  Sheds(p, q)
BY RestsAccounts DEF Rests, Sheds

LEMMA RestsListed ==
  ASSUME NEW p, NEW q, Rests(p, q), NEW i
  PROVE  S!IsListed(q, i) <=> S!IsListed(p, i)
BY DEF Rests, S!IsListed

LEMMA RestsItself ==
  ASSUME NEW p, Linked(p)
  PROVE  Rests(p, p)
<1>1. Len(p.out) \in Nat
  BY LenProperties DEF Linked
<1> QED BY <1>1 DEF Rests, Grows

LEMMA RestsTransitive ==
  ASSUME NEW p, NEW q, NEW r, Linked(p), Rests(p, q), Rests(q, r)
  PROVE  Rests(p, r)
<1>1. p.out \in Seq(S!Command) /\ q.out \in Seq(S!Command) /\ r.out \in Seq(S!Command)
  BY DEF Rests, Linked
<1>2. Grows(p.out, q.out) /\ Grows(q.out, r.out)
  BY DEF Rests
<1>3. Grows(p.out, r.out)
  <2> HIDE DEF S!Command
  <2> QED BY <1>1, <1>2, GrowsTransitive
<1> QED BY <1>3 DEF Rests

LEMMA AccountsTransitive ==
  ASSUME NEW p, NEW q, NEW r, Linked(p), Accounts(p, q), Accounts(q, r)
  PROVE  Accounts(p, r)
<1>1. p.out \in Seq(S!Command) /\ q.out \in Seq(S!Command) /\ r.out \in Seq(S!Command)
  BY DEF Accounts, Linked
<1>2. Grows(p.out, q.out) /\ Grows(q.out, r.out)
  BY DEF Accounts
<1>3. Grows(p.out, r.out)
  <2> HIDE DEF S!Command
  <2> QED BY <1>1, <1>2, GrowsTransitive
<1>4. \A i : EndIn(q.out, i) => EndIn(r.out, i)
  <2> HIDE DEF S!Command
  <2> QED BY <1>1, <1>2, GrowsKeepsEnd
<1> QED BY <1>3, <1>4 DEF Accounts

LEMMA ShedsTransitive ==
  ASSUME NEW p, NEW q, NEW r, Linked(p), Sheds(p, q), Sheds(q, r)
  PROVE  Sheds(p, r)
BY AccountsTransitive DEF Sheds

(* A field that no method here reads may change.                           *)
LEMMA OtherField ==
  ASSUME NEW p, Linked(p), NEW v,
         NEW f \in {"state", "answerTime", "muted", "isReported",
                    "callIdsAnswered", "endedCalls", "assistedTransferInit"}
  PROVE  Rests(p, [p EXCEPT ![f] = v])
<1> DEFINE q == [p EXCEPT ![f] = v]
<1>1. /\ DOMAIN q = DOMAIN p /\ q.calls = p.calls /\ q.activeCall = p.activeCall
      /\ q.created = p.created /\ q.uuid = p.uuid /\ q.keys = p.keys
      /\ q.out = p.out
  BY DEF Linked, S!InitPhone
<1> HIDE DEF q
<1>2. Linked(q)
  BY <1>1 DEF Linked, HasKey
<1>3. Grows(p.out, q.out)
  BY <1>1, RestsItself DEF Rests
<1> QED BY <1>1, <1>2, <1>3 DEF Rests, q

LEMMA ActiveField ==
  ASSUME NEW p, Linked(p), NEW c \in S!Call \cup {NoCall}
  PROVE  Rests(p, [p EXCEPT !.activeCall = c])
<1> DEFINE q == [p EXCEPT !.activeCall = c]
<1>1. /\ DOMAIN q = DOMAIN p /\ q.calls = p.calls /\ q.activeCall = c
      /\ q.created = p.created /\ q.uuid = p.uuid /\ q.keys = p.keys
      /\ q.out = p.out
  BY DEF Linked, S!InitPhone
<1> HIDE DEF q
<1>2. Linked(q)
  BY <1>1 DEF Linked, HasKey
<1>3. Grows(p.out, q.out)
  BY <1>1, RestsItself DEF Rests
<1> QED BY <1>1, <1>2, <1>3 DEF Rests, q

LEMMA SendRests ==
  ASSUME NEW p, Linked(p), NEW cmds \in Seq(S!Command)
  PROVE  /\ Rests(p, S!Send(p, cmds))
         /\ \A k \in 1..Len(cmds) : \E l \in 1..Len(S!Send(p, cmds).out) :
              S!Send(p, cmds).out[l] = cmds[k]
<1> DEFINE q == S!Send(p, cmds)
<1>1. /\ DOMAIN q = DOMAIN p /\ q.calls = p.calls /\ q.activeCall = p.activeCall
      /\ q.created = p.created /\ q.uuid = p.uuid /\ q.keys = p.keys
      /\ q.out = p.out \o cmds
  BY DEF Linked, S!InitPhone, S!Send
<1> HIDE DEF q
<1>2. p.out \in Seq(S!Command)
  BY DEF Linked
<1>3. /\ q.out \in Seq(S!Command) /\ Grows(p.out, q.out)
      /\ \A k \in 1..Len(cmds) : Len(p.out) + k \in 1..Len(q.out) /\ q.out[Len(p.out) + k] = cmds[k]
  <2> HIDE DEF S!Command
  <2> QED BY <1>1, <1>2, ConcatGrows
<1>4. Linked(q)
  BY <1>1, <1>3 DEF Linked, HasKey
<1> QED BY <1>1, <1>3, <1>4 DEF Rests, q

LEMMA UuidsType ==
  ASSUME NEW p, Linked(p), NEW cs \in SUBSET S!Call
  PROVE  S!OwnUuids(cs) \in SUBSET Ids /\ S!DataUuids(p, cs) \in SUBSET Ids
<1>1. \A c \in cs : c.id \in Ids
  BY DEF S!Call
<1>2. S!OwnUuids(cs) \in SUBSET Ids
  BY <1>1 DEF S!OwnUuids
<1>3. S!DataUuids(p, cs) \in SUBSET Ids
  BY <1>1 DEF S!DataUuids, Linked
<1> QED BY <1>2, <1>3

Ops == {"lpStartCall", "lpAnswer", "lpEndCall", "lpHold", "lpResume", "lpMuteCall",
        "lpUnmuteCall", "lpRefer", "lpAssistedTransfer", "setHold", "setUnhold"}

LEMMA CmdType ==
  ASSUME NEW o \in Ops, NEW us \in SUBSET Ids
  PROVE  S!Cmd(o, us) \in S!Command /\ S!Cmd(o, us).op = o /\ S!Cmd(o, us).to = us
BY DEF Ops, S!Cmd, S!Command

LEMMA HoldCallsRests ==
  ASSUME NEW p, Linked(p), NEW cs \in SUBSET S!Call
  PROVE  Rests(p, S!HoldCalls(p, cs))
<1>1. S!OwnUuids(cs) \in SUBSET Ids /\ S!DataUuids(p, cs) \in SUBSET Ids
  BY UuidsType
<1> DEFINE a == S!Cmd("lpHold", S!DataUuids(p, cs))
           b == S!Cmd("lpHold", S!OwnUuids(cs))
           d == S!Cmd("setHold", S!DataUuids(p, cs))
<1>2. a \in S!Command /\ b \in S!Command /\ d \in S!Command
  BY <1>1, CmdType DEF Ops
<1>3. S!HoldCalls(p, cs) = IF cs = {} THEN p ELSE S!Send(p, <<a>> \o <<b, d>>)
  BY DEF S!HoldCalls, S!OnAndroid
<1> HIDE DEF a, b, d
<1>4. <<a>> \o <<b, d>> \in Seq(S!Command)
  <2> HIDE DEF S!Command
  <2> QED BY <1>2
<1> QED BY <1>3, <1>4, SendRests, RestsItself

LEMMA UnholdCallRests ==
  ASSUME NEW p, Linked(p), NEW c \in S!Call
  PROVE  Rests(p, S!UnholdCall(p, c))
<1>1. S!OwnUuids({c}) \in SUBSET Ids /\ S!DataUuids(p, {c}) \in SUBSET Ids
  BY UuidsType
<1> DEFINE a == S!Cmd("lpResume", S!DataUuids(p, {c}))
           b == S!Cmd("lpResume", S!OwnUuids({c}))
           d == S!Cmd("setUnhold", S!DataUuids(p, {c}))
<1>2. a \in S!Command /\ b \in S!Command /\ d \in S!Command
  BY <1>1, CmdType DEF Ops
<1>3. S!UnholdCall(p, c) = S!Send(p, <<a>> \o <<b, d>>)
  BY DEF S!UnholdCall, S!OnAndroid
<1> HIDE DEF a, b, d
<1>4. <<a>> \o <<b, d>> \in Seq(S!Command)
  <2> HIDE DEF S!Command
  <2> QED BY <1>2
<1> QED BY <1>3, <1>4, SendRests

LEMMA OneCommand ==
  ASSUME NEW p, Linked(p), NEW o \in Ops, NEW us \in SUBSET Ids
  PROVE  Rests(p, S!Send(p, <<S!Cmd(o, us)>>))
<1>1. S!Cmd(o, us) \in S!Command
  BY CmdType
<1>2. <<S!Cmd(o, us)>> \in Seq(S!Command)
  <2> HIDE DEF S!Command
  <2> QED BY <1>1
<1> QED BY <1>2, SendRests

LEMMA MakeActiveCallRests ==
  ASSUME NEW p, Linked(p), NEW c \in S!Call
  PROVE  Rests(p, S!MakeActiveCall(p, c))
<1> DEFINE q == [p EXCEPT !.activeCall = c]
           others == {d \in p.calls : d.id # c.id}
           r == S!HoldCalls(q, others)
           t == S!Send(r, <<S!Cmd("lpUnmuteCall", S!OwnUuids({c}))>>)
<1>1. Rests(p, q) /\ Linked(q)
  BY ActiveField DEF Rests
<1>2. others \in SUBSET S!Call
  BY DEF Linked
<1>3. S!MakeActiveCall(p, c) = S!UnholdCall(t, c)
  BY DEF S!MakeActiveCall, S!ReportOutgoing
<1> HIDE DEF q, others
<1>4. Rests(q, r) /\ Linked(r)
  BY <1>1, <1>2, HoldCallsRests DEF Rests
<1> HIDE DEF r
<1>5. S!OwnUuids({c}) \in SUBSET Ids
  BY <1>1, UuidsType
<1>6. Rests(r, t) /\ Linked(t)
  BY <1>4, <1>5, OneCommand DEF Ops, Rests
<1> HIDE DEF t
<1>7. Rests(t, S!UnholdCall(t, c))
  BY <1>6, UnholdCallRests
<1> QED BY <1>1, <1>3, <1>4, <1>6, <1>7, RestsTransitive

LEMMA AnswerCallRests ==
  ASSUME NEW p, Linked(p), NEW c \in S!Call
  PROVE  Rests(p, S!AnswerCall(p, c))
<1> DEFINE a == [p EXCEPT !.callIdsAnswered = @ \ {p.uuid[c.id]}]
           q == S!Send(a, <<S!Cmd("lpAnswer", S!OwnUuids({c}))>>)
           m == S!MakeActiveCall(q, c)
           r == [m EXCEPT !.answerTime = @ \cup {c.id}]
<1>1. S!AnswerCall(p, c) = IF S!IsConnected(p, c) THEN p ELSE r
  BY DEF S!AnswerCall
<1>2. Rests(p, a) /\ Linked(a)
  BY OtherField DEF Rests
<1> HIDE DEF a
<1>3. S!OwnUuids({c}) \in SUBSET Ids
  BY UuidsType
<1>4. Rests(a, q) /\ Linked(q)
  BY <1>2, <1>3, OneCommand DEF Ops, Rests
<1> HIDE DEF q
<1>5. Rests(q, m) /\ Linked(m)
  BY <1>4, MakeActiveCallRests DEF Rests
<1> HIDE DEF m
<1>6. Rests(m, r)
  BY <1>5, OtherField
<1> HIDE DEF r
<1> QED BY <1>1, <1>2, <1>4, <1>5, <1>6, RestsItself, RestsTransitive

LEMMA OldestIsMember ==
  ASSUME NEW cs \in SUBSET S!Call, cs # {}
  PROVE  S!Oldest(cs) \in cs
<1> DEFINE T == {c.n : c \in cs}
<1>1. T \subseteq 1..MaxObjects /\ T # {} /\ T \subseteq Nat
  BY DEF S!Call
<1>2. IsFiniteSet(T)
  <2>1. IsFiniteSet(1..MaxObjects)
    BY AndroidCallsAssumption, FS_Interval
  <2> HIDE DEF T
  <2> QED BY <1>1, <2>1, FS_Subset
<1>3. PICK x \in T : \A y \in T : x <= y
  <2> HIDE DEF T
  <2> QED BY <1>1, <1>2, LeastElement
<1>4. PICK c \in cs : c.n = x
  OBVIOUS
<1>5. \A d \in cs : c.n <= d.n
  BY <1>3, <1>4
<1> QED BY <1>5 DEF S!Oldest

LEMMA LookupFindsListed ==
  ASSUME NEW p, Linked(p), NEW u
  PROVE  S!CallByUuid(p, u) \in p.calls \cup {NoCall}
<1>1. ASSUME NEW i PROVE S!CallById(p, i) \in p.calls \cup {NoCall}
  <2>1. CASE S!IsListed(p, i)
    <3> DEFINE cs == {c \in p.calls : c.id = i}
    <3>1. cs # {} /\ cs \in SUBSET S!Call
      BY <2>1 DEF S!IsListed, Linked
    <3>2. S!Oldest(cs) \in cs
      <4> HIDE DEF cs
      <4> QED BY <3>1, OldestIsMember
    <3> QED BY <2>1, <3>2 DEF S!CallById
  <2>2. CASE ~S!IsListed(p, i)
    BY <2>2 DEF S!CallById
  <2> QED BY <2>1, <2>2
<1> QED BY <1>1 DEF S!CallByUuid

-----------------------------------------------------------------------------
(* Removing a call: its end is sent with it. *)

LEMMA UnlistAccounts ==
  ASSUME NEW p, Linked(p), NEW c \in S!Call
  PROVE  LET q == S!Unlist(S!Send(p, S!EndCommands(p, c)), c)
         IN  Accounts(p, q) /\ q.calls = {d \in p.calls : d.id # c.id}
<1> DEFINE us == S!DataUuids(p, {c})
           cmds == <<S!Cmd("lpEndCall", us)>>
           e == S!Send(p, cmds)
           q == S!Unlist(e, c)
<1>1. us \in SUBSET Ids
  BY UuidsType
<1>2. /\ S!Cmd("lpEndCall", us) \in S!Command
      /\ S!Cmd("lpEndCall", us).op = "lpEndCall" /\ S!Cmd("lpEndCall", us).to = us
  <2>1. "lpEndCall" \in Ops
    BY DEF Ops
  <2> HIDE DEF us
  <2> QED BY <1>1, <2>1, CmdType
<1>3. p.uuid[c.id] = c.id => c.id \in us
  <2>1. c.id \in Ids
    BY DEF S!Call
  <2> QED BY <2>1, AndroidCallsAssumption DEF S!DataUuids
<1>4. S!EndCommands(p, c) = cmds
  BY DEF S!EndCommands
<1>5. cmds \in Seq(S!Command) /\ Len(cmds) = 1 /\ cmds[1] = S!Cmd("lpEndCall", us)
  <2> HIDE DEF S!Command
  <2> QED BY <1>2
<1> HIDE DEF cmds
<1>6. /\ Rests(p, e) /\ Linked(e)
      /\ \E l \in 1..Len(e.out) : e.out[l] = S!Cmd("lpEndCall", us)
  BY <1>5, SendRests DEF Rests
<1> HIDE DEF us, e
<1>7. p.uuid[c.id] = c.id => EndIn(e.out, c.id)
  BY <1>2, <1>3, <1>6 DEF EndIn
<1>8. e.calls = p.calls /\ DOMAIN e = DOMAIN S!InitPhone
  BY <1>6 DEF Rests, Linked
<1>9. /\ DOMAIN q = DOMAIN e /\ q.calls = {d \in p.calls : d.id # c.id}
      /\ q.activeCall \in {e.activeCall, NoCall} /\ q.uuid = e.uuid /\ q.out = e.out
      /\ q.created = e.created /\ q.keys = e.keys
  BY <1>8 DEF S!Unlist, S!InitPhone
<1> HIDE DEF q
<1>10. Linked(q)
  BY <1>6, <1>9, <1>8 DEF Linked, HasKey
<1>11. Grows(p.out, q.out)
  BY <1>6, <1>9 DEF Rests
<1>12. ASSUME NEW i \in Ids, S!IsListed(p, i)
       PROVE  S!IsListed(q, i) \/ EndIn(q.out, i)
  <2>1. PICK d \in p.calls : d.id = i
    BY <1>12 DEF S!IsListed
  <2>2. CASE i = c.id
    <3>1. p.uuid[c.id] = c.id
      BY <2>1, <2>2 DEF Linked
    <3> QED BY <1>7, <1>9, <2>2, <3>1
  <2>3. CASE i # c.id
    BY <1>9, <2>1, <2>3 DEF S!IsListed
  <2> QED BY <2>2, <2>3
<1>13. q = S!Unlist(S!Send(p, S!EndCommands(p, c)), c)
  BY <1>4 DEF q, e
<1> QED BY <1>9, <1>10, <1>11, <1>12, <1>13 DEF Accounts

LEMMA RefocusRests ==
  ASSUME NEW p, Linked(p), NEW c \in S!Call, p.calls # {}
  PROVE  Rests(p, S!Refocus(p, c))
<1> DEFINE newActive == S!Oldest(p.calls)
           m == S!MakeActiveCall(p, newActive)
           x == S!Cmd("lpResume", S!OwnUuids({newActive}))
           y == S!Cmd("lpResume", S!DataUuids(p, {c}))
           z == S!Cmd("setUnhold", S!DataUuids(p, {c}))
           q == S!Send(m, <<x, y, z>>)
           s == [q EXCEPT !.state = [@ EXCEPT ![c.n] = "CONFIRMED"]]
           r == [s EXCEPT !.answerTime = @ \cup {c.id}]
<1>1. S!Refocus(p, c) = r
  BY DEF S!Refocus
<1>2. newActive \in S!Call
  BY OldestIsMember DEF Linked
<1> HIDE DEF newActive
<1>3. Rests(p, m) /\ Linked(m)
  BY <1>2, MakeActiveCallRests DEF Rests
<1> HIDE DEF m
<1>4. x \in S!Command /\ y \in S!Command /\ z \in S!Command
  <2>1. S!OwnUuids({newActive}) \in SUBSET Ids /\ S!DataUuids(p, {c}) \in SUBSET Ids
    BY <1>2, UuidsType
  <2> QED BY <2>1, CmdType DEF Ops
<1> HIDE DEF x, y, z
<1>5. <<x, y, z>> \in Seq(S!Command)
  <2> HIDE DEF S!Command
  <2> QED BY <1>4, SMTT(30)
<1>6. Rests(m, q) /\ Linked(q)
  BY <1>3, <1>5, SendRests DEF Rests
<1> HIDE DEF q
<1>7. Rests(q, s) /\ Linked(s)
  BY <1>6, OtherField DEF Rests
<1> HIDE DEF s
<1>8. Rests(s, r)
  BY <1>7, OtherField
<1> HIDE DEF r
<1> QED BY <1>1, <1>3, <1>6, <1>7, <1>8, RestsTransitive

LEMMA RemoveCallAccounts ==
  ASSUME NEW p, Linked(p), NEW c \in S!Call
  PROVE  Sheds(p, S!RemoveCall(p, c)) /\ ~S!IsListed(S!RemoveCall(p, c), c.id)
<1> DEFINE q == S!Unlist(S!Send(p, S!EndCommands(p, c)), c)
           r == IF q.calls = {} THEN q ELSE S!Refocus(q, c)
           s == [r EXCEPT !.assistedTransferInit = FALSE]
<1>1. S!RemoveCall(p, c) = s
  BY DEF S!RemoveCall
<1>2. Sheds(p, q) /\ Linked(q) /\ ~S!IsListed(q, c.id)
  BY UnlistAccounts DEF Accounts, Sheds, S!IsListed
<1> HIDE DEF q
<1>3. Rests(q, r) /\ Linked(r)
  BY <1>2, RefocusRests, RestsItself DEF Rests
<1> HIDE DEF r
<1>4. Rests(r, s)
  BY <1>3, OtherField
<1> HIDE DEF s
<1> QED BY <1>1, <1>2, <1>3, <1>4, RestsSheds, RestsListed, ShedsTransitive

LEMMA HangUpAccounts ==
  ASSUME NEW p, Linked(p), NEW c \in S!Call
  PROVE  Sheds(p, S!HangUp(p, c)) /\ Sheds(p, S!Transfer(p, c))
<1>1. S!OwnUuids({c}) \in SUBSET Ids
  BY UuidsType
<1>2. ASSUME NEW o \in {"lpEndCall", "lpRefer"}
      PROVE  Sheds(p, S!RemoveCall(S!Send(p, <<S!Cmd(o, S!OwnUuids({c}))>>), c))
  <2> DEFINE q == S!Send(p, <<S!Cmd(o, S!OwnUuids({c}))>>)
  <2>1. o \in Ops
    BY DEF Ops
  <2>2. Rests(p, q) /\ Linked(q)
    BY <1>1, <2>1, OneCommand DEF Rests
  <2> HIDE DEF q
  <2>3. Sheds(q, S!RemoveCall(q, c))
    BY <2>2, RemoveCallAccounts
  <2>4. Sheds(p, S!RemoveCall(q, c))
    BY <2>2, <2>3, RestsSheds, ShedsTransitive
  <2> QED BY <2>4 DEF q
<1> QED BY <1>2 DEF S!HangUp, S!Transfer

LEMMA CompleteAssistedTransferAccounts ==
  ASSUME NEW p, Linked(p), NEW a \in S!Call, NEW b \in S!Call
  PROVE  Sheds(p, S!CompleteAssistedTransfer(p, a, b))
<1> DEFINE i == [p EXCEPT !.assistedTransferInit = FALSE]
           us == S!DataUuids(p, {a, b})
           q == S!Send(i, <<S!Cmd("lpAssistedTransfer", us)>>)
           r == S!RemoveCall(q, a)
<1>1. S!CompleteAssistedTransfer(p, a, b) = S!RemoveCall(r, b)
  BY DEF S!CompleteAssistedTransfer
<1>2. us \in SUBSET Ids
  BY UuidsType
<1> HIDE DEF us
<1>3. Rests(p, i) /\ Linked(i)
  BY OtherField DEF Rests
<1> HIDE DEF i
<1>4. Rests(i, q) /\ Linked(q)
  BY <1>2, <1>3, OneCommand DEF Ops, Rests
<1> HIDE DEF q
<1>5. Sheds(q, r) /\ Linked(r)
  BY <1>4, RemoveCallAccounts DEF Accounts, Sheds
<1> HIDE DEF r
<1>6. Sheds(r, S!RemoveCall(r, b))
  BY <1>5, RemoveCallAccounts
<1> QED BY <1>1, <1>3, <1>4, <1>5, <1>6, RestsSheds, ShedsTransitive

LEMMA SetLpCallStateAccounts ==
  ASSUME NEW p, Linked(p), NEW c \in S!Call, NEW s
  PROVE  /\ Sheds(p, S!SetLpCallState(p, c, s))
         /\ s = "ENDED" => ~S!IsListed(S!SetLpCallState(p, c, s), c.id)
<1> DEFINE q == [p EXCEPT !.state = [@ EXCEPT ![c.n] = s]]
           r == [q EXCEPT !.answerTime = @ \cup {c.id}]
<1>1. /\ s = "ENDED" => S!SetLpCallState(p, c, s) = S!RemoveCall(q, c)
      /\ s # "ENDED" => S!SetLpCallState(p, c, s) \in {q, r}
  BY DEF S!SetLpCallState
<1>2. Rests(p, q) /\ Linked(q)
  BY OtherField DEF Rests
<1> HIDE DEF q
<1>3. Sheds(q, S!RemoveCall(q, c)) /\ ~S!IsListed(S!RemoveCall(q, c), c.id)
  BY <1>2, RemoveCallAccounts
<1>4. Rests(q, r)
  BY <1>2, OtherField
<1> HIDE DEF r
<1> QED BY <1>1, <1>2, <1>3, <1>4, RestsSheds, ShedsTransitive

-----------------------------------------------------------------------------
(* Announcing a call lists it, and takes no call off the list.             *)

LEMMA LinkAccounts ==
  ASSUME NEW p, Linked(p), NEW i \in Ids
  PROVE  LET q == S!LinkLnCallWithUuid(p, i, i)
         IN  Accounts(p, q) /\ q.uuid[i] = i /\ HasKey(q, i) /\ q.calls = p.calls
<1> DEFINE q == S!LinkLnCallWithUuid(p, i, i)
           ks == IF \E k \in DOMAIN p.keys : p.keys[k] = i THEN p.keys ELSE Append(p.keys, i)
<1>1. /\ DOMAIN q = DOMAIN p /\ q.calls = p.calls /\ q.activeCall = p.activeCall
      /\ q.created = p.created /\ q.uuid = [p.uuid EXCEPT ![i] = i] /\ q.out = p.out
      /\ q.keys = ks
  BY DEF Linked, S!InitPhone, S!LinkLnCallWithUuid
<1> HIDE DEF q
<1>2. /\ q.uuid \in [Ids -> Ids \cup {NoUuid}] /\ q.uuid[i] = i
      /\ \A j \in Ids \ {i} : q.uuid[j] = p.uuid[j]
  BY <1>1 DEF Linked
<1>3. /\ ks \in Seq(Ids) /\ \E k \in 1..Len(ks) : ks[k] = i
      /\ \A k \in 1..Len(p.keys) : k \in 1..Len(ks) /\ ks[k] = p.keys[k]
  <2>1. p.keys \in Seq(Ids) /\ Len(p.keys) \in Nat /\ DOMAIN p.keys = 1..Len(p.keys)
    BY LenProperties DEF Linked
  <2> DEFINE a == Append(p.keys, i)
  <2>2. /\ a \in Seq(Ids) /\ Len(a) = Len(p.keys) + 1
        /\ \A k \in 1..Len(p.keys) : a[k] = p.keys[k]
        /\ a[Len(p.keys) + 1] = i
    BY <2>1, AppendProperties
  <2> HIDE DEF a
  <2>3. ks = p.keys \/ ks = a
    BY DEF a
  <2>4. CASE \E k \in DOMAIN p.keys : p.keys[k] = i
    BY <2>1, <2>4
  <2>5. CASE ~\E k \in DOMAIN p.keys : p.keys[k] = i
    <3>1. ks = a
      BY <2>5 DEF a
    <3> HIDE DEF ks
    <3> QED BY <2>1, <2>2, <3>1
  <2> QED BY <2>4, <2>5
<1> HIDE DEF ks
<1>4. ASSUME NEW c \in q.calls PROVE q.uuid[c.id] = c.id /\ HasKey(q, c.id)
  <2>1. c \in S!Call /\ p.uuid[c.id] = c.id /\ HasKey(p, c.id)
    BY <1>1, <1>4 DEF Linked
  <2>2. c.id \in Ids
    BY <2>1 DEF S!Call
  <2> QED BY <1>1, <1>2, <1>3, <2>1, <2>2 DEF HasKey
<1>5. HasKey(q, i)
  BY <1>1, <1>3 DEF HasKey
<1>6. Linked(q)
  BY <1>1, <1>2, <1>3, <1>4 DEF Linked
<1>7. Grows(p.out, q.out)
  BY <1>1, RestsItself DEF Rests
<1> QED BY <1>1, <1>2, <1>5, <1>6, <1>7 DEF Accounts, S!IsListed, q

LEMMA ListAccounts ==
  ASSUME NEW p, Linked(p), NEW c \in S!Call, p.uuid[c.id] = c.id, HasKey(p, c.id)
  PROVE  LET q == [p EXCEPT !.calls = @ \cup {c}]
         IN  Accounts(p, q) /\ S!IsListed(q, c.id) /\ q.calls = p.calls \cup {c}
<1> DEFINE q == [p EXCEPT !.calls = @ \cup {c}]
<1>1. /\ DOMAIN q = DOMAIN p /\ q.calls = p.calls \cup {c} /\ q.activeCall = p.activeCall
      /\ q.created = p.created /\ q.uuid = p.uuid /\ q.keys = p.keys
      /\ q.out = p.out
  BY DEF Linked, S!InitPhone
<1> HIDE DEF q
<1>2. Linked(q)
  BY <1>1 DEF Linked, HasKey
<1>3. Grows(p.out, q.out)
  BY <1>1, RestsItself DEF Rests
<1> QED BY <1>1, <1>2, <1>3 DEF Accounts, S!IsListed, q

(* What an announcement of call i does: no other call is listed anew.       *)
Announced(p, q, i) ==
  /\ Accounts(p, q) /\ S!IsListed(q, i)
  /\ \A j : S!IsListed(q, j) => S!IsListed(p, j) \/ j = i

LEMMA KeepRests ==
  ASSUME NEW p, Linked(p), NEW c \in S!Call
  PROVE  Rests(p, S!Keep(p, c))
<1> DEFINE q == [p EXCEPT !.created = c.n]
<1>1. /\ DOMAIN q = DOMAIN p /\ q.calls = p.calls /\ q.activeCall = p.activeCall
      /\ q.created = c.n /\ q.uuid = p.uuid /\ q.keys = p.keys
      /\ q.out = p.out
  BY DEF Linked, S!InitPhone
<1>2. S!Keep(p, c) \in {p, q}
  BY DEF S!Keep
<1> HIDE DEF q
<1>3. c.n \in Nat
  BY DEF S!Call
<1>4. Linked(q)
  BY <1>1, <1>3 DEF Linked, HasKey
<1>5. Grows(p.out, q.out)
  BY <1>1, RestsItself DEF Rests
<1>6. Rests(p, q)
  BY <1>1, <1>4, <1>5 DEF Rests
<1> QED BY <1>2, <1>6, RestsItself

LEMMA AnnouncedThenRests ==
  ASSUME NEW p, Linked(p), NEW q, NEW r, NEW i, Announced(p, q, i), Rests(q, r)
  PROVE  Announced(p, r, i)
BY RestsAccounts, RestsListed, AccountsTransitive DEF Announced

LEMMA AddCallAnnounced ==
  ASSUME NEW p, Linked(p), NEW c \in S!Call, p.uuid[c.id] = c.id, HasKey(p, c.id)
  PROVE  Announced(p, S!AddCall(p, c), c.id)
<1> DEFINE q == [p EXCEPT !.calls = @ \cup {c}]
           r == IF S!IsListed(p, c.id) THEN p
                ELSE IF p.activeCall = NoCall \/ c.direction = "OUTGOING"
                     THEN S!MakeActiveCall(q, c) ELSE q
           s == IF r.uuid[c.id] \in r.callIdsAnswered THEN S!AnswerCall(r, c) ELSE r
<1>1. S!AddCall(p, c) = s
  BY DEF S!AddCall
<1>2. Announced(p, q, c.id) /\ Linked(q)
  BY ListAccounts DEF Accounts, Announced, S!IsListed
<1> HIDE DEF q
<1>3. Announced(p, S!MakeActiveCall(q, c), c.id)
  BY <1>2, MakeActiveCallRests, AnnouncedThenRests
<1>4. Announced(p, r, c.id) /\ Linked(r)
  <2>1. CASE S!IsListed(p, c.id)
    BY <2>1, RestsItself, RestsAccounts DEF Announced
  <2>2. CASE ~S!IsListed(p, c.id)
    <3>1. Announced(p, r, c.id)
      BY <1>2, <1>3, <2>2
    <3> QED BY <3>1 DEF Announced, Accounts
  <2> QED BY <2>1, <2>2
<1> HIDE DEF r
<1>5. Rests(r, s)
  BY <1>4, AnswerCallRests, RestsItself
<1> HIDE DEF s
<1> QED BY <1>1, <1>4, <1>5, AnnouncedThenRests

LEMMA NewCallType ==
  ASSUME NEW p, Linked(p), p.created < MaxObjects, NEW i \in Ids,
         NEW dir \in {"INCOMING", "OUTGOING"}
  PROVE  S!NewCall(p, i, dir) \in S!Call /\ S!NewCall(p, i, dir).id = i
<1>1. p.created + 1 \in 1..MaxObjects
  BY AndroidCallsAssumption DEF Linked
<1> QED BY <1>1 DEF S!NewCall, S!Call

LEMMA LinkedThenAnnounced ==
  ASSUME NEW p, Linked(p), NEW i \in Ids,
         NEW q, Announced(S!LinkLnCallWithUuid(p, i, i), q, i)
  PROVE  Announced(p, q, i)
<1> DEFINE l == S!LinkLnCallWithUuid(p, i, i)
<1>1. Accounts(p, l) /\ l.calls = p.calls
  BY LinkAccounts
<1> HIDE DEF l
<1>2. Announced(l, q, i)
  BY DEF l
<1> QED BY <1>1, <1>2, AccountsTransitive DEF Announced, S!IsListed

LEMMA LinkedCallAdded ==
  ASSUME NEW p, Linked(p), NEW i \in Ids, NEW c \in S!Call, c.id = i
  PROVE  Announced(p, S!AddCall(S!LinkLnCallWithUuid(p, i, i), c), i)
<1> DEFINE q == S!LinkLnCallWithUuid(p, i, i)
<1>1. Linked(q) /\ q.uuid[i] = i /\ HasKey(q, i)
  BY LinkAccounts DEF Accounts
<1> HIDE DEF q
<1>2. Announced(q, S!AddCall(q, c), i)
  BY <1>1, AddCallAnnounced
<1> QED BY <1>2, LinkedThenAnnounced DEF q

LEMMA CallAddedAnnounced ==
  ASSUME NEW p, Linked(p), p.created < MaxObjects, NEW i \in Ids
  PROVE  /\ Announced(p, S!OutgoingInit(p, i, i), i)
         /\ Announced(p, S!IncomingReceived(p, i, i), i)
         /\ Announced(p, S!AnsweredFromNotification(p, i, i), i)
<1>1. ASSUME NEW dir \in {"INCOMING", "OUTGOING"}
      PROVE  LET c == S!NewCall(p, i, dir)
                 q == S!AddCall(S!LinkLnCallWithUuid(p, i, i), c)
             IN  Announced(p, S!Keep(q, c), i) /\ Announced(p, S!Keep(S!AnswerCall(q, c), c), i)
  <2> DEFINE c == S!NewCall(p, i, dir)
             q == S!AddCall(S!LinkLnCallWithUuid(p, i, i), c)
  <2>1. c \in S!Call /\ c.id = i
    BY NewCallType
  <2> HIDE DEF c
  <2>2. Announced(p, q, i) /\ Linked(q)
    BY <2>1, LinkedCallAdded DEF Announced, Accounts
  <2> HIDE DEF q
  <2>3. Announced(p, S!AnswerCall(q, c), i) /\ Linked(S!AnswerCall(q, c))
    BY <2>1, <2>2, AnswerCallRests, AnnouncedThenRests DEF Announced, Accounts
  <2>4. Announced(p, S!Keep(q, c), i)
    BY <2>1, <2>2, KeepRests, AnnouncedThenRests
  <2>5. Announced(p, S!Keep(S!AnswerCall(q, c), c), i)
    BY <2>1, <2>3, KeepRests, AnnouncedThenRests
  <2> QED BY <2>4, <2>5 DEF c, q
<1> QED BY <1>1 DEF S!OutgoingInit, S!IncomingReceived, S!AnsweredFromNotification

LEMMA AnsweredWhileOnCallAnnounced ==
  ASSUME NEW p, Linked(p), p.created < MaxObjects, NEW i \in Ids
  PROVE  Announced(p, S!AnsweredWhileOnCall(p, i, i), i)
<1> DEFINE c == S!NewCall(p, i, "INCOMING")
           l == S!LinkLnCallWithUuid(p, i, i)
           q == [l EXCEPT !.calls = @ \cup {c}]
           r == IF q.activeCall = NoCall THEN S!MakeActiveCall(q, c) ELSE q
           s == [r EXCEPT !.answerTime = @ \cup {i}]
           t == S!Send(s, <<S!Cmd("lpHold", S!OwnUuids({c}))>>)
<1>1. S!AnsweredWhileOnCall(p, i, i) = S!Keep(t, c)
  BY DEF S!AnsweredWhileOnCall
<1>2. c \in S!Call /\ c.id = i
  BY NewCallType
<1> HIDE DEF c
<1>3. Linked(l) /\ l.uuid[i] = i /\ HasKey(l, i)
  BY LinkAccounts DEF Accounts
<1>4. ASSUME Announced(l, S!Keep(t, c), i) PROVE Announced(p, S!Keep(t, c), i)
  BY <1>4, LinkedThenAnnounced
<1> HIDE DEF l
<1>5. Announced(l, q, i) /\ Linked(q)
  BY <1>2, <1>3, ListAccounts DEF Accounts, Announced, S!IsListed
<1> HIDE DEF q
<1>6. Rests(q, r) /\ Linked(r)
  BY <1>2, <1>5, MakeActiveCallRests, RestsItself DEF Rests
<1> HIDE DEF r
<1>7. Rests(r, s) /\ Linked(s)
  BY <1>6, OtherField DEF Rests
<1> HIDE DEF s
<1>8. Rests(s, t) /\ Linked(t)
  <2>1. S!OwnUuids({c}) \in SUBSET Ids
    BY <1>2, <1>7, UuidsType
  <2>2. "lpHold" \in Ops
    BY DEF Ops
  <2> QED BY <1>7, <2>1, <2>2, OneCommand DEF Rests
<1> HIDE DEF t
<1>9. Rests(t, S!Keep(t, c))
  BY <1>2, <1>8, KeepRests
<1>10. Announced(l, S!Keep(t, c), i)
  <2>1. Announced(l, r, i)
    BY <1>3, <1>5, <1>6, AnnouncedThenRests
  <2>2. Announced(l, s, i)
    BY <1>3, <1>7, <2>1, AnnouncedThenRests
  <2>3. Announced(l, t, i)
    BY <1>3, <1>8, <2>2, AnnouncedThenRests
  <2> QED BY <1>3, <1>9, <2>3, AnnouncedThenRests
<1> QED BY <1>1, <1>4, <1>10

-----------------------------------------------------------------------------
(* What Dart does on an event or a tap.                                    *)

LEMMA LookupFindsCall ==
  ASSUME NEW p, Linked(p), NEW i \in Ids, S!IsListed(p, i)
  PROVE  S!CallByUuid(p, i) \in p.calls /\ S!CallByUuid(p, i).id = i
<1> DEFINE K == S!KeysWithUuid(p, i)
<1>1. PICK d \in p.calls : d.id = i
  BY DEF S!IsListed
<1>2. p.uuid[i] = i /\ HasKey(p, i)
  BY <1>1 DEF Linked
<1>3. /\ Len(p.keys) \in Nat /\ DOMAIN p.keys = 1..Len(p.keys)
      /\ \A k \in 1..Len(p.keys) : p.keys[k] \in Ids
  BY LenProperties, ElementOfSeq DEF Linked
<1>4. K \subseteq 1..Len(p.keys) /\ K # {} /\ \A k \in K : p.keys[k] = i
  <2>1. \A k \in 1..Len(p.keys) : p.uuid[p.keys[k]] \in {p.keys[k], NoUuid}
    BY <1>3 DEF Linked
  <2> QED BY <1>2, <1>3, <2>1, AndroidCallsAssumption DEF S!KeysWithUuid, HasKey
<1>5. IsFiniteSet(K) /\ K \subseteq Nat
  <2>1. IsFiniteSet(1..Len(p.keys)) /\ 1..Len(p.keys) \subseteq Nat
    BY <1>3, FS_Interval
  <2> HIDE DEF K
  <2> QED BY <1>4, <2>1, FS_Subset
<1>6. \E k \in K : \A l \in K : k <= l
  <2> HIDE DEF K
  <2> QED BY <1>4, <1>5, LeastElement
<1>7. S!CallByUuid(p, i) = S!CallById(p, i)
  <2> DEFINE k == CHOOSE k \in K : \A l \in K : k <= l
  <2>1. k \in K
    BY <1>6
  <2>2. S!CallByUuid(p, i) = S!CallById(p, p.keys[k])
    BY <1>4 DEF S!CallByUuid
  <2> HIDE DEF k, K
  <2> QED BY <1>4, <2>1, <2>2
<1> DEFINE cs == {c \in p.calls : c.id = i}
<1>8. S!Oldest(cs) \in cs
  <2>1. cs # {} /\ cs \in SUBSET S!Call
    BY <1>1 DEF Linked
  <2> HIDE DEF cs
  <2> QED BY <2>1, OldestIsMember
<1> QED BY <1>7, <1>8 DEF S!CallById

LEMMA HandleAccounts ==
  ASSUME Linked(phone), NEW e \in Event,
         e.op \in Announcements => phone.created < MaxObjects
  PROVE  /\ e.op \in Announcements => Announced(phone, Handle(e), e.id)
         /\ e.op \notin Announcements => Sheds(phone, Handle(e))
         /\ e.op = "lnReleased" => ~S!IsListed(Handle(e), e.id)
<1>1. e.id \in Ids
  BY DEF Event
<1>2. CASE e.op \in Announcements
  <2>1. \/ Handle(e) = S!OutgoingInit(phone, e.id, e.id)
        \/ Handle(e) = S!IncomingReceived(phone, e.id, e.id)
        \/ Handle(e) = S!AnsweredFromNotification(phone, e.id, e.id)
        \/ Handle(e) = S!AnsweredWhileOnCall(phone, e.id, e.id)
    BY <1>2 DEF Handle, Announcements
  <2>2. Announced(phone, Handle(e), e.id)
    BY <1>1, <1>2, <2>1, CallAddedAnnounced, AnsweredWhileOnCallAnnounced
  <2> QED BY <1>2, <2>2 DEF Announcements
<1>3. CASE e.op \notin Announcements
  <2> DEFINE c == S!CallByUuid(phone, e.id)
  <2>1. c \in S!Call \cup {NoCall}
    BY LookupFindsListed DEF Linked
  <2>2. S!IsListed(phone, e.id) => c \in S!Call /\ c.id = e.id
    BY <1>1, LookupFindsCall DEF Linked
  <2>3. Handle(e) = IF c = NoCall THEN phone ELSE S!SetLpCallState(phone, c, ShownAs[e.op])
    BY <1>3 DEF Handle, Announcements
  <2> HIDE DEF c
  <2>4. Sheds(phone, Handle(e))
    BY <2>1, <2>3, SetLpCallStateAccounts, RestsItself, RestsSheds
  <2>5. ASSUME e.op = "lnReleased" PROVE ~S!IsListed(Handle(e), e.id)
    <3>1. CASE S!IsListed(phone, e.id) /\ c # NoCall
      BY <2>2, <2>3, <2>5, <3>1, SetLpCallStateAccounts DEF ShownAs
    <3>2. CASE S!IsListed(phone, e.id) /\ c = NoCall
      BY <2>2, <3>2, NoCallIsNull
    <3>3. CASE ~S!IsListed(phone, e.id)
      BY <2>4, <3>3 DEF Sheds, S!IsListed
    <3> QED BY <3>1, <3>2, <3>3
  <2> QED BY <1>3, <2>4, <2>5
<1> QED BY <1>2, <1>3

LEMMA DoIs ==
  ASSUME NEW q, S!Do(q)
  PROVE  phone' = q
BY AndroidCallsAssumption DEF S!Do

LEMMA UserAccounts ==
  ASSUME Linked(phone), User
  PROVE  Sheds(phone, phone')
<1>1. phone.activeCall \in S!Call \cup {NoCall} /\ phone.calls \in SUBSET S!Call
  BY DEF Linked
<1>2. S!ConnectedRows \in SUBSET S!Call /\ S!IncomingPopup \in SUBSET S!Call
  BY <1>1 DEF S!ConnectedRows, S!IncomingPopup, S!Waiting
<1>3. "lpStartCall" \in Ops /\ {} \in SUBSET Ids
  BY DEF Ops
<1>4. CASE S!Dial
  <2>1. phone' = S!Send(phone, <<S!Cmd("lpStartCall", {})>>)
    BY <1>4, DoIs DEF S!Dial
  <2> QED BY <1>3, <2>1, OneCommand, RestsSheds
<1>5. CASE S!AssistedTransfer
  <2> DEFINE q == [phone EXCEPT !.assistedTransferInit = TRUE]
  <2>1. phone' = S!Send(q, <<>>) \/ phone' = S!Send(q, <<S!Cmd("lpStartCall", {})>>)
    BY <1>5, DoIs DEF S!AssistedTransfer, S!Dialled
  <2>2. Rests(phone, q) /\ Linked(q)
    BY OtherField DEF Rests
  <2> HIDE DEF q
  <2>3. Rests(q, S!Send(q, <<>>))
    <3>1. <<>> \in Seq(S!Command) OBVIOUS
    <3> QED BY <2>2, <3>1, SendRests
  <2>4. Rests(q, S!Send(q, <<S!Cmd("lpStartCall", {})>>))
    BY <1>3, <2>2, OneCommand
  <2> QED BY <2>1, <2>2, <2>3, <2>4, RestsTransitive, RestsSheds
<1>6. CASE S!TapAnswer
  <2>1. \E c \in S!Call : phone' = S!AnswerCall(phone, c)
    BY <1>1, <1>2, <1>6, DoIs DEF S!TapAnswer
  <2> QED BY <2>1, AnswerCallRests, RestsSheds
<1>7. CASE S!TapHangUp
  <2>1. \E c \in S!Call : phone' = S!HangUp(phone, c)
    BY <1>1, <1>2, <1>7, DoIs DEF S!TapHangUp
  <2> QED BY <2>1, HangUpAccounts
<1>8. CASE S!TapHold
  <2>1. phone.activeCall \in S!Call
    BY <1>1, <1>8 DEF S!TapHold, S!ActiveConnected
  <2>2. phone' \in {S!HoldCalls(phone, {phone.activeCall}), S!UnholdCall(phone, phone.activeCall)}
    BY <1>8, DoIs DEF S!TapHold, S!SetHold
  <2> QED BY <2>1, <2>2, HoldCallsRests, UnholdCallRests, RestsSheds
<1>9. CASE S!TapRow
  <2>1. \E c \in S!Call : phone' = S!MakeActiveCall(phone, c)
    BY <1>2, <1>9, DoIs DEF S!TapRow
  <2> QED BY <2>1, MakeActiveCallRests, RestsSheds
<1>10. CASE S!TapTransfer
  <2>1. \E c \in S!Call : phone' = S!Transfer(phone, c)
    BY <1>1, <1>10, DoIs DEF S!TapTransfer, S!ActiveConnected
  <2> QED BY <2>1, HangUpAccounts
<1>11. CASE S!TapCompleteTransfer
  <2>1. \E a, b \in S!Call : phone' = S!CompleteAssistedTransfer(phone, a, b)
    BY <1>1, <1>2, <1>11, DoIs DEF S!TapCompleteTransfer
  <2> QED BY <2>1, CompleteAssistedTransferAccounts
<1>12. ASSUME NEW i \in Ids, S!SaveDisposition(i) PROVE Sheds(phone, phone')
  <2>1. phone' = [phone EXCEPT !.endedCalls = [@ EXCEPT ![i] = 0]]
    BY <1>12, DoIs DEF S!SaveDisposition
  <2> QED BY <2>1, OtherField, RestsSheds
<1> QED BY <1>4, <1>5, <1>6, <1>7, <1>8, <1>9, <1>10, <1>11, <1>12 DEF User

-----------------------------------------------------------------------------
(* What native code reports.                                               *)

EventOp == Announcements \cup DOMAIN ShownAs

LEMMA ReportsType ==
  ASSUME NEW s \in CoreState
  PROVE  Reports[s] \in Seq(EventOp)
<1> DEFINE a == "lnIncomingReceived"
           b == "lnOutgoingInit"
           d == "lnOutgoingProgress"
           e == "lnConnected"
           f == "lnStreamsRunning"
           g == "lnPaused"
           h == "lnPausedByRemote"
           l == "lnReleased"
<1>1. /\ a \in EventOp /\ b \in EventOp /\ d \in EventOp /\ e \in EventOp /\ f \in EventOp
      /\ g \in EventOp /\ h \in EventOp /\ l \in EventOp
  BY DEF EventOp, Announcements, ShownAs
<1>2. Reports[s] \in {<<>>, <<a>>, <<b, d>>, <<e>>, <<f>>, <<g>>, <<h>>, <<l>>}
  BY DEF Reports, CoreState
<1> HIDE DEF a, b, d, e, f, g, h, l, EventOp
<1>3. <<>> \in Seq(EventOp) /\ <<a>> \in Seq(EventOp) /\ <<b, d>> \in Seq(EventOp)
  BY <1>1
<1>4. <<e>> \in Seq(EventOp) /\ <<f>> \in Seq(EventOp) /\ <<g>> \in Seq(EventOp)
  BY <1>1
<1>5. <<h>> \in Seq(EventOp) /\ <<l>> \in Seq(EventOp)
  BY <1>1
<1> QED BY <1>2, <1>3, <1>4, <1>5

LEMMA EvType ==
  ASSUME NEW o \in EventOp, NEW i \in Ids
  PROVE  Ev(o, i) \in Event /\ Ev(o, i).op = o /\ Ev(o, i).id = i
BY DEF Ev, Event, EventOp

LEMMA EventsOfType ==
  ASSUME NEW i \in Ids, NEW s \in CoreState
  PROVE  /\ EventsOf(i, s) \in Seq(Event) /\ Len(EventsOf(i, s)) = Len(Reports[s])
         /\ \A k \in 1..Len(Reports[s]) : EventsOf(i, s)[k] = Ev(Reports[s][k], i)
<1> DEFINE r == Reports[s]
           v == [k \in DOMAIN r |-> Ev(r[k], i)]
<1>1. r \in Seq(EventOp)
  BY ReportsType
<1>2. EventsOf(i, s) = v
  BY DEF EventsOf
<1> HIDE DEF r, EventOp
<1>3. /\ Len(r) \in Nat /\ DOMAIN r = 1..Len(r)
      /\ \A k \in 1..Len(r) : r[k] \in EventOp
  BY <1>1, LenProperties, ElementOfSeq
<1>4. v \in [1..Len(r) -> Event]
  BY <1>3, EvType
<1>5. v \in Seq(Event) /\ Len(v) = Len(r)
  <2> HIDE DEF v
  <2> QED BY <1>3, <1>4, IsASeq, LenProperties
<1> QED BY <1>2, <1>3, <1>5 DEF r

LEMMA Quotient ==
  ASSUME NEW n \in Nat \ {0}, NEW m \in Nat
  PROVE  /\ n * m \in Nat
         /\ \A k \in 1..n * m : ((k - 1) \div n) + 1 \in 1..m
         /\ \A j \in 1..m : (j - 1) * n + 1 \in 1..n * m /\ (((j - 1) * n + 1) - 1) \div n = j - 1
         /\ \A k, l \in 1..n * m : k <= l => (k - 1) \div n <= (l - 1) \div n
<1>1. ASSUME NEW k \in 1..n * m, NEW l \in 1..n * m, k <= l
      PROVE  (k - 1) \div n <= (l - 1) \div n
  <2> DEFINE a == (k - 1) \div n
             b == (l - 1) \div n
  <2>1. a \in Int /\ b \in Int /\ n * a <= k - 1 /\ l - 1 < n * (b + 1)
    OBVIOUS
  <2>2. k \in Int /\ l \in Int
    OBVIOUS
  <2> HIDE DEF a, b
  <2>3. n * a < n * (b + 1)
    BY <1>1, <2>1, <2>2
  <2>4. a < b + 1
    BY <2>1, <2>3
  <2> QED BY <2>1, <2>4 DEF a, b
<1> QED BY <1>1

LEMMA RepeatedType ==
  ASSUME listeners \in Nat \ {0}, NEW events \in Seq(Event)
  PROVE  /\ Repeated(events) \in Seq(Event)
         /\ \A j \in 1..Len(events) :
              \E k \in 1..Len(Repeated(events)) : Repeated(events)[k] = events[j]
         /\ \A k \in 1..Len(Repeated(events)) :
              \E j \in 1..Len(events) : Repeated(events)[k] = events[j]
         /\ \A k, l \in 1..Len(Repeated(events)) : k <= l =>
              \E i, j \in 1..Len(events) :
                i <= j /\ Repeated(events)[k] = events[i] /\ Repeated(events)[l] = events[j]
<1> DEFINE n == listeners * Len(events)
           r == [k \in 1..n |-> events[((k - 1) \div listeners) + 1]]
<1>1. Repeated(events) = r
  BY DEF Repeated
<1>2. Len(events) \in Nat
  BY LenProperties
<1>3. /\ n \in Nat
      /\ \A k \in 1..n : ((k - 1) \div listeners) + 1 \in 1..Len(events)
      /\ \A j \in 1..Len(events) :
           (j - 1) * listeners + 1 \in 1..n
           /\ (((j - 1) * listeners + 1) - 1) \div listeners = j - 1
      /\ \A k, l \in 1..n : k <= l => (k - 1) \div listeners <= (l - 1) \div listeners
  BY <1>2, Quotient
<1> HIDE DEF n
<1>4. \A k \in 1..Len(events) : events[k] \in Event
  BY ElementOfSeq
<1>5. r \in [1..n -> Event]
  BY <1>3, <1>4
<1>6. r \in Seq(Event) /\ Len(r) = n
  <2> HIDE DEF r
  <2> QED BY <1>3, <1>5, IsASeq, LenProperties
<1>7. ASSUME NEW j \in 1..Len(events)
      PROVE  \E k \in 1..n : r[k] = events[j]
  <2> DEFINE k == (j - 1) * listeners + 1
  <2>1. k \in 1..n /\ ((k - 1) \div listeners) + 1 = j
    BY <1>3
  <2> HIDE DEF k
  <2>2. r[k] = events[j]
    BY <2>1
  <2> QED BY <2>1, <2>2
<1>8. \A k \in 1..n : \E j \in 1..Len(events) : r[k] = events[j]
  BY <1>3
<1>9. ASSUME NEW k \in 1..n, NEW l \in 1..n, k <= l
      PROVE  \E i, j \in 1..Len(events) : i <= j /\ r[k] = events[i] /\ r[l] = events[j]
  <2> DEFINE i == ((k - 1) \div listeners) + 1
             j == ((l - 1) \div listeners) + 1
  <2>1. i \in 1..Len(events) /\ j \in 1..Len(events)
    BY <1>3
  <2>2. i <= j
    BY <1>3, <1>9, <2>1
  <2>3. r[k] = events[i] /\ r[l] = events[j]
    OBVIOUS
  <2> HIDE DEF i, j
  <2> QED BY <2>1, <2>2, <2>3
<1> HIDE DEF r
<1>10. \A k, l \in 1..Len(r) : k <= l =>
         \E i, j \in 1..Len(events) : i <= j /\ r[k] = events[i] /\ r[l] = events[j]
  BY <1>6, <1>9
<1> QED BY <1>1, <1>6, <1>7, <1>8, <1>10

LEMMA OrdersType ==
  ASSUME NEW T \in SUBSET Event, IsFiniteSet(T), NEW order \in SetToSeqs(T)
  PROVE  /\ order \in Seq(Event) /\ \A k \in 1..Len(order) : order[k] \in T
         /\ \A e \in T : \E k \in 1..Len(order) : order[k] = e
<1> DEFINE D == 1..Cardinality(T)
<1>1. Cardinality(T) \in Nat
  BY FS_CardinalityType
<1>2. order \in [D -> T] /\ \A i, j \in D : i # j => order[i] # order[j]
  BY DEF SetToSeqs
<1>3. order \in Seq(T) /\ Len(order) = Cardinality(T)
  BY <1>1, <1>2, IsASeq, LenProperties
<1>4. order \in Seq(Event)
  BY <1>3, SeqMonotonic
<1>5. IsFiniteSet(D) /\ Cardinality(D) = Cardinality(T)
  BY <1>1, FS_Interval
<1>6. order \in Injection(D, T)
  <2> HIDE DEF D
  <2> QED BY <1>2 DEF Injection, IsInjective
<1>7. order \in Surjection(D, T)
  <2> HIDE DEF D
  <2> QED BY <1>5, <1>6, FS_Injection
<1>8. \A e \in T : \E k \in D : order[k] = e
  <2> HIDE DEF D
  <2> QED BY <1>7 DEF Surjection
<1> QED BY <1>3, <1>4, <1>8, ElementOfSeq

(* How the core changes calls: none is forgotten or revived, a call starts  *)
(* as incoming or outgoing, and where one enters a state that MainActivity  *)
(* reports, but for its end, no other call does.                            *)
Lawful(c) ==
  \A i \in Ids : c[i] # core[i] =>
    /\ c[i] # "none" /\ core[i] # "released"
    /\ c[i] \in {"incoming", "outgoing"} <=> core[i] = "none"
    /\ c[i] = "pausing" => core[i] \in {"streaming", "pausedByRemote"}
    /\ c[i] = "resuming" => core[i] = "paused"
    /\ c[i] \notin {"released", "pausing"} =>
         \A j \in Ids \ {i} : c[j] \in {core[j], "pausing"}

Announces(e, i) == e.id = i /\ e.op \in Announcements

LEMMA EventsOfReports ==
  ASSUME NEW i \in Ids, NEW s \in CoreState
  PROVE  /\ s \in {"incoming", "outgoing"} =>
              \E k \in 1..Len(EventsOf(i, s)) : Announces(EventsOf(i, s)[k], i)
         /\ s = "released" =>
              /\ \E k \in 1..Len(EventsOf(i, s)) : EventsOf(i, s)[k] = Ev("lnReleased", i)
              /\ \A k \in 1..Len(EventsOf(i, s)) : EventsOf(i, s)[k] = Ev("lnReleased", i)
         /\ \A k \in 1..Len(EventsOf(i, s)) : EventsOf(i, s)[k].id = i
<1> DEFINE r == Reports[s]
           v == EventsOf(i, s)
<1>1. r \in Seq(EventOp) /\ Len(r) \in Nat
  BY ReportsType, LenProperties
<1>2. Len(v) = Len(r) /\ \A k \in 1..Len(r) : v[k] = Ev(r[k], i)
  BY EventsOfType
<1>3. s \in {"incoming", "outgoing"} => Len(r) >= 1 /\ r[1] \in Announcements
  BY DEF Reports, Announcements
<1>4. s = "released" => r = <<"lnReleased">>
  BY DEF Reports
<1> HIDE DEF r, v
<1>5. s = "released" => Len(r) = 1 /\ r[1] = "lnReleased"
  BY <1>4
<1>6. 1 <= Len(r) => 1 \in 1..Len(r) /\ v[1] = Ev(r[1], i)
  BY <1>1, <1>2
<1>7. ASSUME s \in {"incoming", "outgoing"}
      PROVE  \E k \in 1..Len(v) : Announces(v[k], i)
  BY <1>1, <1>2, <1>3, <1>6, <1>7 DEF Announces, Ev
<1>8. ASSUME s = "released"
      PROVE  /\ \E k \in 1..Len(v) : v[k] = Ev("lnReleased", i)
             /\ \A k \in 1..Len(v) : v[k] = Ev("lnReleased", i)
  <2>1. 1 \in 1..Len(v) /\ \A k \in 1..Len(v) : v[k] = Ev("lnReleased", i)
    BY <1>1, <1>2, <1>5, <1>6, <1>8
  <2> QED BY <2>1
<1>9. ASSUME NEW k \in 1..Len(v)
      PROVE  v[k].id = i
  <2>1. v[k] = Ev(r[k], i)
    BY <1>2
  <2> QED BY <2>1 DEF Ev
<1>10. /\ s \in {"incoming", "outgoing"} => \E k \in 1..Len(v) : Announces(v[k], i)
       /\ s = "released" => /\ \E k \in 1..Len(v) : v[k] = Ev("lnReleased", i)
                            /\ \A k \in 1..Len(v) : v[k] = Ev("lnReleased", i)
  BY <1>7, <1>8, Zenon
<1> QED BY <1>9, <1>10 DEF v

(* What the core reports: the end of every call that ends, no announcement *)
(* of a call that has ended, and an announcement of a call that starts.    *)
Reported(c, r) ==
  /\ \A i \in Ids : c[i] = "released" =>
        /\ \A k \in 1..Len(r) : ~Announces(r[k], i)
        /\ core[i] # "released" => \E k \in 1..Len(r) : r[k] = Ev("lnReleased", i)
  /\ Lawful(c) => \A i \in Ids :
        core[i] \in {"none", "released"} /\ c[i] \notin {"none", "released"}
          => \E k \in 1..Len(r) : Announces(r[k], i)

LEMMA ReactReports ==
  ASSUME listeners \in Nat \ {0}, core \in [Ids -> CoreState],
         NEW c \in [Ids -> CoreState], React(c)
  PROVE  core' = c /\ \E r \in Seq(Event) : toDart' = toDart \o r /\ Reported(c, r)
<1> DEFINE told == {i \in Ids : c[i] # core[i] /\ Reports[c[i]] # <<>>}
           ended == {Ev("lnReleased", i) : i \in told}
<1>1. core' = c
  BY DEF React
<1>2. \/ \E i \in Ids : told = {i} /\ toDart' = toDart \o Repeated(EventsOf(i, c[i]))
      \/ Cardinality(told) # 1 /\ \E ends \in SetToSeqs(ended) : toDart' = toDart \o Repeated(ends)
  BY DEF React
<1>3. ASSUME NEW i \in Ids, c[i] = "released", core[i] # "released"
      PROVE  i \in told
  BY <1>3 DEF Reports
<1>4. ASSUME Lawful(c), NEW i \in Ids,
             core[i] \in {"none", "released"}, c[i] \notin {"none", "released"}
      PROVE  told = {i} /\ c[i] \in {"incoming", "outgoing"}
  <2>1. c[i] \in {"incoming", "outgoing"} /\ \A j \in Ids \ {i} : c[j] = core[j] \/ c[j] = "pausing"
    BY <1>4 DEF Lawful
  <2>2. Reports[c[i]] # <<>>
    BY <2>1 DEF Reports
  <2>3. Reports["pausing"] = <<>>
    BY DEF Reports
  <2> QED BY <1>4, <2>1, <2>2, <2>3
<1>5. told \in SUBSET Ids /\ IsFiniteSet(told)
  BY AndroidCallsAssumption, FS_Subset
<1>6. ended \in SUBSET Event /\ IsFiniteSet(ended)
  <2> DEFINE f == [i \in told |-> Ev("lnReleased", i)]
  <2>1. "lnReleased" \in EventOp
    BY DEF EventOp, ShownAs
  <2>2. ended \in SUBSET Event
    BY <1>5, <2>1, EvType
  <2>3. f \in Surjection(told, ended)
    BY DEF Surjection
  <2> HIDE DEF told, ended, f
  <2> QED BY <1>5, <2>2, <2>3, FS_Surjection
<1>7. ASSUME NEW i \in Ids, told = {i}
      PROVE  Cardinality(told) = 1
  BY <1>7, FS_Singleton
<1>8. /\ \A e \in ended : e.op \notin Announcements
      /\ \A i \in told : Ev("lnReleased", i) \in ended
  BY DEF Ev, Announcements
<1> HIDE DEF told, ended
<1>9. CASE \E i \in Ids : told = {i} /\ toDart' = toDart \o Repeated(EventsOf(i, c[i]))
  <2>1. PICK i \in Ids : told = {i} /\ toDart' = toDart \o Repeated(EventsOf(i, c[i]))
    BY <1>9
  <2> DEFINE v == EventsOf(i, c[i])
             r == Repeated(v)
  <2>2. v \in Seq(Event)
    BY EventsOfType
  <2>3. /\ c[i] \in {"incoming", "outgoing"} => \E k \in 1..Len(v) : Announces(v[k], i)
        /\ c[i] = "released" => /\ \E k \in 1..Len(v) : v[k] = Ev("lnReleased", i)
                                /\ \A k \in 1..Len(v) : v[k] = Ev("lnReleased", i)
        /\ \A k \in 1..Len(v) : v[k].id = i
    BY EventsOfReports
  <2> HIDE DEF v
  <2>4. /\ r \in Seq(Event)
        /\ \A j \in 1..Len(v) : \E k \in 1..Len(r) : r[k] = v[j]
        /\ \A k \in 1..Len(r) : \E j \in 1..Len(v) : r[k] = v[j]
    BY <2>2, RepeatedType
  <2>5. toDart' = toDart \o r
    BY <2>1 DEF v
  <2> HIDE DEF r
  <2>6. ASSUME NEW j \in Ids, c[j] = "released", NEW k \in 1..Len(r)
        PROVE  ~Announces(r[k], j)
    <3>1. j = i => r[k] = Ev("lnReleased", i)
      BY <2>3, <2>4, <2>6
    <3>2. r[k].id = i
      BY <2>3, <2>4
    <3> QED BY <3>1, <3>2 DEF Announces, Ev, Announcements
  <2>7. ASSUME NEW j \in Ids, c[j] = "released", core[j] # "released"
        PROVE  \E k \in 1..Len(r) : r[k] = Ev("lnReleased", j)
    <3>1. j = i
      BY <1>3, <2>1, <2>7
    <3> QED BY <2>3, <2>4, <2>7, <3>1
  <2>8. ASSUME Lawful(c), NEW j \in Ids,
               core[j] \in {"none", "released"}, c[j] \notin {"none", "released"}
        PROVE  \E k \in 1..Len(r) : Announces(r[k], j)
    <3>1. j = i /\ c[i] \in {"incoming", "outgoing"}
      BY <1>4, <2>1, <2>8
    <3> QED BY <2>3, <2>4, <3>1
  <2>9. Reported(c, r)
    BY <2>6, <2>7, <2>8 DEF Reported
  <2> QED BY <1>1, <2>4, <2>5, <2>9
<1>10. CASE Cardinality(told) # 1
            /\ \E ends \in SetToSeqs(ended) : toDart' = toDart \o Repeated(ends)
  <2>1. PICK ends \in SetToSeqs(ended) : toDart' = toDart \o Repeated(ends)
    BY <1>10
  <2>2. /\ ends \in Seq(Event) /\ \A k \in 1..Len(ends) : ends[k] \in ended
        /\ \A e \in ended : \E k \in 1..Len(ends) : ends[k] = e
    BY <1>6, OrdersType
  <2> DEFINE r == Repeated(ends)
  <2>3. /\ r \in Seq(Event)
        /\ \A j \in 1..Len(ends) : \E k \in 1..Len(r) : r[k] = ends[j]
        /\ \A k \in 1..Len(r) : \E j \in 1..Len(ends) : r[k] = ends[j]
    BY <2>2, RepeatedType
  <2>4. toDart' = toDart \o r
    BY <2>1
  <2> HIDE DEF r
  <2>5. ASSUME NEW j, NEW k \in 1..Len(r)
        PROVE  ~Announces(r[k], j)
    <3>1. r[k] \in ended
      BY <2>2, <2>3
    <3> QED BY <1>8, <3>1 DEF Announces
  <2>6. ASSUME NEW j \in Ids, c[j] = "released", core[j] # "released"
        PROVE  \E k \in 1..Len(r) : r[k] = Ev("lnReleased", j)
    <3>1. Ev("lnReleased", j) \in ended
      BY <1>3, <1>8, <2>6
    <3> QED BY <2>2, <2>3, <3>1
  <2>7. ASSUME Lawful(c), NEW j \in Ids
        PROVE  ~(core[j] \in {"none", "released"} /\ c[j] \notin {"none", "released"})
    BY <1>4, <1>7, <1>10, <2>7
  <2>8. Reported(c, r)
    BY <2>5, <2>6, <2>7 DEF Reported
  <2> QED BY <1>1, <2>3, <2>4, <2>8
<1> QED BY <1>2, <1>9, <1>10

LEMMA ReactAnnounces ==
  ASSUME listeners \in Nat \ {0}, toDart \in Seq(Event), core \in [Ids -> CoreState],
         NEW c \in [Ids -> CoreState], React(c), Lawful(c)
  PROVE  /\ core' = c /\ toDart' \in Seq(Event) /\ Grows(toDart, toDart')
         /\ \A i \in LiveCalls' : i \in LiveCalls \/ Pending(Announcements, i)'
<1>1. core' = c
  BY ReactReports
<1>2. PICK r \in Seq(Event) : toDart' = toDart \o r /\ Reported(c, r)
  BY ReactReports
<1>3. /\ toDart' \in Seq(Event) /\ Grows(toDart, toDart')
      /\ \A k \in 1..Len(r) : /\ Len(toDart) + k \in 1..Len(toDart')
                              /\ toDart'[Len(toDart) + k] = r[k]
  BY <1>2, ConcatGrows
<1>4. DOMAIN toDart' = 1..Len(toDart')
  BY <1>3, LenProperties
<1>5. ASSUME NEW i \in LiveCalls', i \notin LiveCalls
      PROVE  Pending(Announcements, i)'
  <2>1. i \in Ids /\ core[i] \in {"none", "released"} /\ c[i] \notin {"none", "released"}
    BY <1>1, <1>5 DEF LiveCalls
  <2>2. PICK k \in 1..Len(r) : Announces(r[k], i)
    BY <1>2, <2>1 DEF Reported
  <2> QED BY <1>3, <1>4, <2>2 DEF Pending, Announces
<1> QED BY <1>1, <1>3, <1>5

-----------------------------------------------------------------------------
(* The functions and the own steps of the core are lawful.                 *)

LEMMA TakingLawful ==
  ASSUME core \in [Ids -> CoreState], NEW i \in Ids, NEW s \in CoreState,
         <<core[i], s>> \in {<<"none", "outgoing">>, <<"incoming", "connected">>,
                            <<"paused", "resuming">>}
  PROVE  Taking(i, s) \in [Ids -> CoreState] /\ Lawful(Taking(i, s))
<1> DEFINE c == Taking(i, s)
<1>1. /\ c \in [Ids -> CoreState] /\ c[i] = s
      /\ \A j \in Ids \ {i} : c[j] = core[j] \/ (core[j] = "streaming" /\ c[j] = "pausing")
  BY DEF Taking, CoreState
<1> HIDE DEF c
<1>2. Lawful(c)
  BY <1>1 DEF Lawful
<1> QED BY <1>1, <1>2 DEF c

LEMMA CoreLawful ==
  ASSUME core \in [Ids -> CoreState]
  PROVE  /\ Lawful(core)
         /\ \A i \in InState("none") : Invite(i) \in [Ids -> CoreState] /\ Lawful(Invite(i))
         /\ \A i \in Ids : /\ Accept(i) \in [Ids -> CoreState] /\ Lawful(Accept(i))
                           /\ Resume(i) \in [Ids -> CoreState] /\ Lawful(Resume(i))
         /\ \A is \in SUBSET Ids :
              /\ Pause(is) \in [Ids -> CoreState] /\ Lawful(Pause(is))
              /\ Terminate(is) \in [Ids -> CoreState] /\ Lawful(Terminate(is))
<1>1. Lawful(core)
  BY DEF Lawful
<1>2. ASSUME NEW i \in InState("none")
      PROVE  Invite(i) \in [Ids -> CoreState] /\ Lawful(Invite(i))
  <2>1. i \in Ids /\ core[i] = "none" /\ "outgoing" \in CoreState
    BY DEF InState, CoreState
  <2> QED BY <1>1, <2>1, TakingLawful DEF Invite
<1>3. ASSUME NEW i \in Ids
      PROVE  /\ Accept(i) \in [Ids -> CoreState] /\ Lawful(Accept(i))
             /\ Resume(i) \in [Ids -> CoreState] /\ Lawful(Resume(i))
  <2>1. "connected" \in CoreState /\ "resuming" \in CoreState
    BY DEF CoreState
  <2>2. Accept(i) \in [Ids -> CoreState] /\ Lawful(Accept(i))
    BY <1>1, <2>1, TakingLawful DEF Accept
  <2>3. Resume(i) \in [Ids -> CoreState] /\ Lawful(Resume(i))
    BY <1>1, <2>1, TakingLawful DEF Resume
  <2> QED BY <2>2, <2>3
<1>4. ASSUME NEW is \in SUBSET Ids
      PROVE  /\ Pause(is) \in [Ids -> CoreState] /\ Lawful(Pause(is))
             /\ Terminate(is) \in [Ids -> CoreState] /\ Lawful(Terminate(is))
  <2>1. "pausing" \in CoreState /\ "released" \in CoreState
    BY DEF CoreState
  <2>2. Pause(is) \in [Ids -> CoreState] /\ Terminate(is) \in [Ids -> CoreState]
    BY <2>1 DEF Pause, PauseFrom, Terminate
  <2>3. \A i \in Ids : Pause(is)[i] # core[i] =>
          Pause(is)[i] = "pausing" /\ core[i] \in {"streaming", "pausedByRemote"}
    BY DEF Pause, PauseFrom
  <2>4. \A i \in Ids : Terminate(is)[i] # core[i] =>
          Terminate(is)[i] = "released" /\ core[i] \notin {"none", "released"}
    BY DEF Terminate, LiveCalls
  <2> HIDE DEF Pause, Terminate
  <2>5. Lawful(Pause(is)) /\ Lawful(Terminate(is))
    BY <2>3, <2>4 DEF Lawful
  <2> QED BY <2>2, <2>5
<1> QED BY <1>1, <1>2, <1>3, <1>4

LEMMA OwnStepLawful ==
  ASSUME core \in [Ids -> CoreState], NEW i \in Ids, NEW step \in OwnSteps, core[i] = step[1]
  PROVE  LET c == [core EXCEPT ![i] = step[2]]
         IN  c \in [Ids -> CoreState] /\ Lawful(c)
<1> DEFINE c == [core EXCEPT ![i] = step[2]]
<1>1. /\ step[2] \in CoreState \ {"none", "released", "pausing", "resuming"}
      /\ core[i] # "released" /\ (step[2] \in {"incoming", "outgoing"} <=> core[i] = "none")
  BY DEF OwnSteps, CoreState
<1>2. c \in [Ids -> CoreState] /\ c[i] = step[2] /\ \A j \in Ids \ {i} : c[j] = core[j]
  BY <1>1
<1> HIDE DEF c
<1>3. Lawful(c)
  BY <1>1, <1>2 DEF Lawful
<1> QED BY <1>2, <1>3 DEF c

-----------------------------------------------------------------------------
(* The inductive invariant.                                                *)
Seen ==
  /\ Linked(phone) /\ core \in [Ids -> CoreState]
  /\ toDart \in Seq(Event) /\ listeners \in Nat \ {0}
  /\ NoCallUnseen

LEMMA SeenInit ==
  ASSUME Init
  PROVE  Seen
<1>1. phone = S!InitPhone
  BY DEF Init, S!Init
<1>2. /\ phone.calls = {} /\ phone.activeCall = NoCall /\ phone.created = 0
      /\ phone.uuid = [i \in Ids |-> NoUuid] /\ phone.out = <<>>
      /\ phone.keys = <<>>
  BY <1>1 DEF S!InitPhone
<1>3. <<>> \in Seq(S!Command) /\ <<>> \in Seq(Event) /\ <<>> \in Seq(Ids)
  <2> HIDE DEF S!Command, Event
  <2> QED OBVIOUS
<1>4. Linked(phone)
  BY <1>1, <1>2, <1>3 DEF Linked
<1>5. core \in [Ids -> CoreState] /\ LiveCalls = {}
  BY DEF Init, CoreState, LiveCalls
<1> QED BY <1>3, <1>4, <1>5 DEF Init, Seen, NoCallUnseen

LEMMA PendingGrows ==
  ASSUME toDart \in Seq(Event), toDart' \in Seq(Event), Grows(toDart, toDart'),
         NEW ops, NEW i, Pending(ops, i)
  PROVE  Pending(ops, i)'
<1>1. /\ Len(toDart) \in Nat /\ Len(toDart') \in Nat
      /\ DOMAIN toDart = 1..Len(toDart) /\ DOMAIN toDart' = 1..Len(toDart')
  BY LenProperties
<1> QED BY <1>1 DEF Pending, Grows

LEMMA EndSentIsEndIn ==
  ASSUME Linked(phone), NEW i
  PROVE  EndSent(i) <=> EndIn(phone.out, i)
<1>1. DOMAIN phone.out = 1..Len(phone.out)
  BY LenProperties DEF Linked
<1> QED BY <1>1 DEF EndSent, EndIn

(* The core changes the calls and Dart does not move.                      *)
LEMMA SeenReact ==
  ASSUME Seen, NEW c \in [Ids -> CoreState], React(c), Lawful(c),
         UNCHANGED phone, listeners' \in Nat \ {0}
  PROVE  Seen'
<1>1. /\ core' = c /\ toDart' \in Seq(Event) /\ Grows(toDart, toDart')
      /\ \A i \in LiveCalls' : i \in LiveCalls \/ Pending(Announcements, i)'
  BY ReactAnnounces DEF Seen
<1>2. ASSUME NEW i \in LiveCalls
      PROVE  S!IsListed(phone', i) \/ Pending(Announcements, i)' \/ EndSent(i)'
  <2>1. S!IsListed(phone, i) \/ Pending(Announcements, i) \/ EndSent(i)
    BY DEF Seen, NoCallUnseen
  <2>2. EndSent(i) => EndSent(i)'
    BY DEF EndSent
  <2>3. Pending(Announcements, i) => Pending(Announcements, i)'
    BY <1>1, PendingGrows DEF Seen
  <2> QED BY <2>1, <2>2, <2>3
<1>3. NoCallUnseen'
  BY <1>1, <1>2 DEF NoCallUnseen
<1> QED BY <1>1, <1>3 DEF Seen

LEMMA CommandReacts ==
  ASSUME core \in [Ids -> CoreState], phone.out \in Seq(S!Command), NativeCommand
  PROVE  LET h == Head(phone.out)
         IN  \E c \in [Ids -> CoreState] :
               React(c) /\ Lawful(c) /\ (h.op = "lpEndCall" => c = Terminate(h.to))
<1> DEFINE h == Head(phone.out)
<1> SUFFICES \E c \in [Ids -> CoreState] :
               React(c) /\ Lawful(c) /\ (h.op = "lpEndCall" => c = Terminate(h.to))
  OBVIOUS
<1>1. h.to \in SUBSET Ids
  <2>1. h \in S!Command
    <3>1. phone.out # <<>>
      BY DEF NativeCommand
    <3> HIDE DEF S!Command
    <3> QED BY <3>1, HeadTailProperties
  <2> QED BY <2>1 DEF S!Command
<1> HIDE DEF h
<1>2. CASE h.op = "lpStartCall"
  <2>1. StartCall
    BY <1>2 DEF NativeCommand, h
  <2>2. \/ React(core) \/ \E i \in InState("none") : React(Invite(i))
    BY <2>1 DEF StartCall
  <2> QED BY <1>1, <1>2, <2>2, CoreLawful
<1>3. CASE h.op \in {"lpAnswer", "lpResume"}
  <2>1. \/ React(core) \/ \E i \in h.to : React(Accept(i)) \/ React(Resume(i))
    BY <1>3 DEF NativeCommand, OnCall, h
  <2> QED BY <1>1, <1>3, <2>1, CoreLawful
<1>4. CASE h.op = "lpEndCall"
  <2>1. React(Terminate(h.to))
    BY <1>4 DEF NativeCommand, h
  <2> QED BY <1>1, <2>1, CoreLawful
<1>5. CASE h.op \notin {"lpStartCall", "lpAnswer", "lpResume", "lpEndCall"}
  <2>1. React(core) \/ React(Pause(h.to))
    BY <1>5 DEF NativeCommand, h
  <2> QED BY <1>1, <1>5, <2>1, CoreLawful
<1> QED BY <1>2, <1>3, <1>4, <1>5

LEMMA SeenCommand ==
  ASSUME Seen, NativeCommand
  PROVE  Seen'
<1> DEFINE h == Head(phone.out)
           t == Tail(phone.out)
<1>1. /\ phone.out # <<>> /\ phone.out \in Seq(S!Command)
      /\ phone' = [phone EXCEPT !.out = t] /\ listeners' = listeners
  BY DEF NativeCommand, Seen, Linked
<1>2. /\ h \in S!Command /\ t \in Seq(S!Command)
      /\ Len(phone.out) \in Nat \ {0} /\ Len(t) = Len(phone.out) - 1
      /\ h = phone.out[1] /\ \A k \in 1..Len(t) : t[k] = phone.out[k + 1]
  <2> HIDE DEF S!Command
  <2> QED BY <1>1, HeadTailProperties, EmptySeq, LenProperties
<1>3. h.to \in SUBSET Ids
  BY <1>2 DEF S!Command
<1>4. /\ DOMAIN phone' = DOMAIN phone /\ phone'.calls = phone.calls
      /\ phone'.activeCall = phone.activeCall /\ phone'.created = phone.created
      /\ phone'.uuid = phone.uuid /\ phone'.keys = phone.keys /\ phone'.out = t
  BY <1>1 DEF Seen, Linked, S!InitPhone
<1>5. Linked(phone')
  BY <1>2, <1>4 DEF Seen, Linked, HasKey
<1>6. \E c \in [Ids -> CoreState] :
        React(c) /\ Lawful(c) /\ (h.op = "lpEndCall" => c = Terminate(h.to))
  BY <1>1, CommandReacts DEF Seen
<1>7. PICK c \in [Ids -> CoreState] :
        React(c) /\ Lawful(c) /\ (h.op = "lpEndCall" => c = Terminate(h.to))
  BY <1>6
<1>8. /\ core' = c /\ toDart' \in Seq(Event) /\ Grows(toDart, toDart')
      /\ \A i \in LiveCalls' : i \in LiveCalls \/ Pending(Announcements, i)'
  BY <1>7, ReactAnnounces DEF Seen
<1>9. ASSUME NEW i \in LiveCalls', i \in LiveCalls
      PROVE  S!IsListed(phone', i) \/ Pending(Announcements, i)' \/ EndSent(i)'
  <2>1. S!IsListed(phone, i) \/ Pending(Announcements, i) \/ EndIn(phone.out, i)
    BY <1>9, EndSentIsEndIn DEF Seen, NoCallUnseen
  <2>2. Pending(Announcements, i) => Pending(Announcements, i)'
    BY <1>8, PendingGrows DEF Seen
  <2>3. S!IsListed(phone, i) => S!IsListed(phone', i)
    BY <1>4 DEF S!IsListed
  <2>4. ASSUME EndIn(phone.out, i) PROVE EndIn(phone'.out, i)
    <3>1. PICK k \in 1..Len(phone.out) : phone.out[k].op = "lpEndCall" /\ i \in phone.out[k].to
      BY <2>4 DEF EndIn
    <3>2. k # 1
      <4>1. ~(h.op = "lpEndCall" /\ i \in h.to)
        BY <1>7, <1>8, <1>9 DEF Terminate, LiveCalls
      <4> QED BY <1>2, <3>1, <4>1
    <3>3. k - 1 \in 1..Len(t) /\ t[k - 1] = phone.out[k]
      BY <1>2, <3>2
    <3> QED BY <1>4, <3>1, <3>3 DEF EndIn
  <2>5. DOMAIN phone'.out = 1..Len(phone'.out)
    BY <1>5, LenProperties DEF Linked
  <2>6. EndIn(phone'.out, i) => EndSent(i)'
    BY <2>5 DEF EndIn, EndSent
  <2> QED BY <2>1, <2>2, <2>3, <2>4, <2>6
<1>10. NoCallUnseen'
  BY <1>8, <1>9 DEF NoCallUnseen
<1> QED BY <1>1, <1>5, <1>7, <1>8, <1>10 DEF Seen

(* Dart moves and the core does not.                                       *)
LEMMA SeenDart ==
  ASSUME Seen, Accounts(phone, phone'), UNCHANGED <<core, listeners>>, toDart' \in Seq(Event),
         \A i \in LiveCalls : Pending(Announcements, i) =>
            Pending(Announcements, i)' \/ S!IsListed(phone', i)
  PROVE  Seen'
<1>1. Linked(phone') /\ Grows(phone.out, phone'.out)
  BY DEF Accounts
<1>2. LiveCalls' = LiveCalls
  BY DEF LiveCalls
<1>3. DOMAIN phone'.out = 1..Len(phone'.out)
  BY <1>1, LenProperties DEF Linked
<1>4. ASSUME NEW i \in LiveCalls
      PROVE  S!IsListed(phone', i) \/ Pending(Announcements, i)' \/ EndSent(i)'
  <2>1. EndIn(phone'.out, i) => EndSent(i)'
    BY <1>3 DEF EndIn, EndSent
  <2>2. EndSent(i) => EndIn(phone'.out, i)
    <3>1. phone.out \in Seq(S!Command) /\ phone'.out \in Seq(S!Command)
      BY <1>1 DEF Seen, Linked
    <3>2. EndSent(i) => EndIn(phone.out, i)
      BY EndSentIsEndIn DEF Seen
    <3> HIDE DEF S!Command
    <3> QED BY <1>1, <3>1, <3>2, GrowsKeepsEnd
  <2>3. i \in Ids /\ (S!IsListed(phone, i) \/ Pending(Announcements, i) \/ EndSent(i))
    BY DEF Seen, NoCallUnseen, LiveCalls
  <2>4. S!IsListed(phone, i) => S!IsListed(phone', i) \/ EndIn(phone'.out, i)
    BY <2>3 DEF Accounts
  <2> QED BY <2>1, <2>2, <2>3, <2>4
<1>5. NoCallUnseen'
  BY <1>2, <1>4 DEF NoCallUnseen
<1> QED BY <1>1, <1>5 DEF Seen

LEMMA SeenEvent ==
  ASSUME Seen, DartEvent
  PROVE  Seen'
<1> DEFINE h == Head(toDart)
           t == Tail(toDart)
<1>1. /\ toDart # <<>> /\ toDart \in Seq(Event) /\ toDart' = t /\ UNCHANGED <<core, listeners>>
      /\ h.op \in Announcements => phone.created < MaxObjects
  BY DEF DartEvent, Seen
<1>2. phone' = Handle(h)
  BY DoIs DEF DartEvent
<1>3. /\ h \in Event /\ t \in Seq(Event)
      /\ Len(toDart) \in Nat \ {0} /\ Len(t) = Len(toDart) - 1
      /\ h = toDart[1] /\ \A k \in 1..Len(t) : t[k] = toDart[k + 1]
  <2> HIDE DEF Event
  <2> QED BY <1>1, HeadTailProperties, EmptySeq, LenProperties
<1> HIDE DEF h, t
<1>4. /\ Accounts(phone, phone')
      /\ h.op \in Announcements => S!IsListed(phone', h.id)
  BY <1>1, <1>2, <1>3, HandleAccounts DEF Seen, Announced, Sheds
<1>5. ASSUME NEW i, Pending(Announcements, i)
      PROVE  Pending(Announcements, i)' \/ S!IsListed(phone', i)
  <2>1. DOMAIN toDart = 1..Len(toDart) /\ DOMAIN t = 1..Len(t)
    BY <1>1, <1>3, LenProperties
  <2>2. PICK k \in 1..Len(toDart) : toDart[k].id = i /\ toDart[k].op \in Announcements
    BY <1>5, <2>1 DEF Pending
  <2>3. CASE k = 1
    BY <1>3, <1>4, <2>2, <2>3
  <2>4. CASE k # 1
    <3>1. k - 1 \in 1..Len(t) /\ t[k - 1] = toDart[k]
      BY <1>3, <2>4
    <3> QED BY <1>1, <2>1, <2>2, <3>1 DEF Pending
  <2> QED BY <2>3, <2>4
<1> QED BY <1>1, <1>3, <1>4, <1>5, SeenDart

LEMMA SeenUser ==
  ASSUME Seen, User
  PROVE  Seen'
<1>1. Accounts(phone, phone') /\ UNCHANGED <<core, toDart, listeners>>
  BY UserAccounts DEF Seen, User, Sheds
<1>2. \A i : Pending(Announcements, i) => Pending(Announcements, i)'
  BY <1>1 DEF Pending
<1>3. toDart' \in Seq(Event)
  BY <1>1 DEF Seen
<1> QED BY <1>1, <1>2, <1>3, SeenDart

LEMMA OutsideReacts ==
  ASSUME core \in [Ids -> CoreState], NEW i \in Ids, Core(i)
  PROVE  \E c \in [Ids -> CoreState] : Outside(c) /\ Lawful(c)
<1> {i} \in SUBSET Ids
  OBVIOUS
<1>1. CASE CoreActs(i)
  BY <1>1, OwnStepLawful DEF CoreActs
<1>2. CASE EndsOutside(i)
  BY <1>2, CoreLawful DEF EndsOutside
<1>3. CASE NotificationAnswer(i)
  BY <1>3, CoreLawful DEF NotificationAnswer
<1>4. CASE TelecomHold(i)
  BY <1>4, CoreLawful DEF TelecomHold
<1>5. CASE TelecomUnhold(i)
  BY <1>5, CoreLawful DEF TelecomUnhold
<1> QED BY <1>1, <1>2, <1>3, <1>4, <1>5 DEF Core

LEMMA SeenOutside ==
  ASSUME Seen, NEW i \in Ids, Core(i)
  PROVE  Seen'
<1>1. core \in [Ids -> CoreState] /\ listeners \in Nat \ {0}
  BY DEF Seen
<1>2. \E c \in [Ids -> CoreState] : Outside(c) /\ Lawful(c)
  BY <1>1, OutsideReacts
<1> QED BY <1>1, <1>2, SeenReact DEF Outside

LEMMA SeenResumed ==
  ASSUME Seen, MainActivityResumes
  PROVE  Seen'
<1> DEFINE shown == {i \in Ids : core[i] \in DOMAIN ResumeEvent}
<1>1. /\ UNCHANGED <<phone, core, listeners>> /\ toDart \in Seq(Event)
      /\ \E order \in SetToSeqs(shown) :
           toDart' = toDart \o [k \in DOMAIN order |-> Ev(ResumeEvent[core[order[k]]], order[k])]
  BY DEF MainActivityResumes, Seen
<1>2. shown \in SUBSET Ids /\ IsFiniteSet(shown)
  BY AndroidCallsAssumption, FS_Subset
<1>3. \A i \in shown : Ev(ResumeEvent[core[i]], i) \in Event
  BY EvType DEF ResumeEvent, EventOp, Announcements
<1> HIDE DEF shown
<1>4. PICK order \in SetToSeqs(shown) :
        toDart' = toDart \o [k \in DOMAIN order |-> Ev(ResumeEvent[core[order[k]]], order[k])]
  BY <1>1
<1> DEFINE r == [k \in DOMAIN order |-> Ev(ResumeEvent[core[order[k]]], order[k])]
<1>5. Cardinality(shown) \in Nat /\ order \in [1..Cardinality(shown) -> shown]
  BY <1>2, FS_CardinalityType DEF SetToSeqs
<1>6. r \in [1..Cardinality(shown) -> Event]
  BY <1>3, <1>5
<1>7. r \in Seq(Event) /\ toDart' = toDart \o r
  <2>1. toDart' = toDart \o r
    BY <1>4
  <2> HIDE DEF r
  <2> QED BY <1>5, <1>6, <2>1, IsASeq
<1> HIDE DEF r
<1>8. toDart' \in Seq(Event) /\ Grows(toDart, toDart')
  BY <1>1, <1>7, ConcatGrows
<1>9. \A i \in LiveCalls : Pending(Announcements, i) => Pending(Announcements, i)'
  BY <1>1, <1>8, PendingGrows
<1>10. Accounts(phone, phone')
  BY <1>1, RestsItself, RestsAccounts DEF Seen
<1> QED BY <1>1, <1>8, <1>9, <1>10, SeenDart

LEMMA SeenRecreated ==
  ASSUME Seen, MainActivityRecreated
  PROVE  Seen'
<1>1. core \in [Ids -> CoreState] /\ Ids \in SUBSET Ids
  BY DEF Seen
<1>2. Terminate(Ids) \in [Ids -> CoreState] /\ Lawful(Terminate(Ids))
  BY <1>1, CoreLawful
<1>3. React(Terminate(Ids)) /\ listeners' \in Nat \ {0} /\ UNCHANGED phone
  BY DEF MainActivityRecreated, Seen
<1> QED BY <1>2, <1>3, SeenReact

LEMMA SeenNext ==
  ASSUME Seen, [Next]_vars
  PROVE  Seen'
<1>1. CASE UNCHANGED vars
  BY <1>1 DEF vars, Seen, NoCallUnseen, LiveCalls, Pending, EndSent
<1> QED
  BY <1>1, SeenCommand, SeenEvent, SeenUser, SeenOutside, SeenResumed, SeenRecreated DEF Next

(* No call goes on unseen in any behaviour of the app: every live call is  *)
(* listed, or its announcement is on its way to Dart, or the command that  *)
(* ends it is on its way to native code.                                   *)
THEOREM AndroidSeen == Spec => []NoCallUnseen
<1>1. Init => Seen
  BY SeenInit
<1>2. Seen /\ [Next]_vars => Seen'
  BY SeenNext
<1>3. Seen => NoCallUnseen
  BY DEF Seen
<1> QED BY <1>1, <1>2, <1>3, PTL DEF Spec

-----------------------------------------------------------------------------
(* A call that has ended leaves the list.  The invariant: while it is      *)
(* listed or announced, its end is on the channel, after every             *)
(* announcement of it.                                                     *)
EndsLast(i) ==
  \E k \in 1..Len(toDart) :
    /\ toDart[k] = Ev("lnReleased", i)
    /\ \A l \in 1..Len(toDart) : l > k => ~Announces(toDart[l], i)

Leaving ==
  \A i \in InState("released") :
    S!IsListed(phone, i) \/ Pending(Announcements, i) => EndsLast(i)

LEMMA AppendedEvents ==
  ASSUME toDart \in Seq(Event), NEW r \in Seq(Event), toDart' = toDart \o r
  PROVE  /\ toDart' \in Seq(Event)
         /\ Len(toDart) \in Nat /\ Len(r) \in Nat /\ Len(toDart') = Len(toDart) + Len(r)
         /\ \A k \in 1..Len(toDart) : k \in 1..Len(toDart') /\ toDart'[k] = toDart[k]
         /\ \A k \in 1..Len(r) : Len(toDart) + k \in 1..Len(toDart')
                                 /\ toDart'[Len(toDart) + k] = r[k]
         /\ \A k \in 1..Len(toDart') : k > Len(toDart) =>
              k - Len(toDart) \in 1..Len(r) /\ toDart'[k] = r[k - Len(toDart)]
<1>1. Len(toDart) \in Nat /\ Len(r) \in Nat
  BY LenProperties
<1>2. /\ toDart \o r \in Seq(Event) /\ Len(toDart \o r) = Len(toDart) + Len(r)
      /\ \A k \in 1..Len(toDart) + Len(r) :
           (toDart \o r)[k] = IF k <= Len(toDart) THEN toDart[k] ELSE r[k - Len(toDart)]
  BY ConcatProperties
<1> DEFINE t == toDart \o r
<1>3. /\ t \in Seq(Event) /\ Len(t) = Len(toDart) + Len(r)
      /\ \A k \in 1..Len(toDart) + Len(r) :
           t[k] = IF k <= Len(toDart) THEN toDart[k] ELSE r[k - Len(toDart)]
  BY <1>2
<1>4. toDart' = t
  OBVIOUS
<1> HIDE DEF t
<1>5. \A k \in 1..Len(toDart) : k \in 1..Len(t) /\ t[k] = toDart[k]
  BY <1>1, <1>3
<1>6. ASSUME NEW k \in 1..Len(r)
      PROVE  Len(toDart) + k \in 1..Len(t) /\ t[Len(toDart) + k] = r[k]
  <2>1. Len(toDart) + k \in 1..Len(t) /\ ~(Len(toDart) + k <= Len(toDart))
        /\ Len(toDart) + k - Len(toDart) = k
    BY <1>1, <1>3
  <2> QED BY <1>3, <2>1
<1>7. ASSUME NEW k \in 1..Len(t), k > Len(toDart)
      PROVE  k - Len(toDart) \in 1..Len(r) /\ t[k] = r[k - Len(toDart)]
  BY <1>1, <1>3, <1>7
<1> QED BY <1>1, <1>3, <1>4, <1>5, <1>6, <1>7

(* Events are added, of which none announces a call that has ended.        *)
LEMMA LeavingAppended ==
  ASSUME Seen, Leaving, NEW r \in Seq(Event), toDart' = toDart \o r,
         \A i \in Ids : S!IsListed(phone', i) => S!IsListed(phone, i),
         \A i \in InState("released")' :
            /\ \A k \in 1..Len(r) : ~Announces(r[k], i)
            /\ core[i] # "released" => \E k \in 1..Len(r) : r[k] = Ev("lnReleased", i)
  PROVE  Leaving'
<1>1. /\ toDart' \in Seq(Event)
      /\ Len(toDart) \in Nat /\ Len(r) \in Nat /\ Len(toDart') = Len(toDart) + Len(r)
      /\ \A k \in 1..Len(toDart) : k \in 1..Len(toDart') /\ toDart'[k] = toDart[k]
      /\ \A k \in 1..Len(r) : Len(toDart) + k \in 1..Len(toDart')
                              /\ toDart'[Len(toDart) + k] = r[k]
      /\ \A k \in 1..Len(toDart') : k > Len(toDart) =>
           k - Len(toDart) \in 1..Len(r) /\ toDart'[k] = r[k - Len(toDart)]
  BY AppendedEvents DEF Seen
<1>2. DOMAIN toDart = 1..Len(toDart) /\ DOMAIN toDart' = 1..Len(toDart')
  BY <1>1, LenProperties DEF Seen
<1>3. ASSUME NEW i \in InState("released")',
             S!IsListed(phone', i) \/ Pending(Announcements, i)'
      PROVE  EndsLast(i)'
  <2>1. i \in Ids /\ \A k \in 1..Len(r) : ~Announces(r[k], i)
    BY DEF InState
  <2>2. CASE core[i] = "released"
    <3>1. Pending(Announcements, i)' => Pending(Announcements, i)
      <4>1. SUFFICES ASSUME NEW k \in 1..Len(toDart'), Announces(toDart'[k], i)
                     PROVE  Pending(Announcements, i)
        BY <1>2 DEF Pending, Announces
      <4>2. ~(k > Len(toDart))
        BY <1>1, <2>1, <4>1
      <4>3. k \in 1..Len(toDart)
        BY <1>1, <4>2
      <4> QED BY <1>1, <1>2, <4>1, <4>3 DEF Pending, Announces
    <3>2. EndsLast(i)
      BY <1>3, <2>1, <2>2, <3>1 DEF Leaving, InState
    <3>3. PICK k \in 1..Len(toDart) :
            /\ toDart[k] = Ev("lnReleased", i)
            /\ \A l \in 1..Len(toDart) : l > k => ~Announces(toDart[l], i)
      BY <3>2 DEF EndsLast
    <3>4. ASSUME NEW l \in 1..Len(toDart'), l > k PROVE ~Announces(toDart'[l], i)
      <4>1. CASE l > Len(toDart)
        BY <1>1, <2>1, <4>1
      <4>2. CASE ~(l > Len(toDart))
        <5>1. l \in 1..Len(toDart)
          BY <1>1, <4>2
        <5> QED BY <1>1, <3>3, <3>4, <5>1
      <4> QED BY <4>1, <4>2
    <3>5. k \in 1..Len(toDart') /\ toDart'[k] = Ev("lnReleased", i)
      BY <1>1, <3>3
    <3> QED BY <3>4, <3>5 DEF EndsLast
  <2>3. CASE core[i] # "released"
    <3>1. PICK k \in 1..Len(r) : r[k] = Ev("lnReleased", i)
      BY <2>3
    <3> DEFINE n == Len(toDart) + k
    <3>2. n \in 1..Len(toDart') /\ toDart'[n] = Ev("lnReleased", i) /\ n > Len(toDart)
      BY <1>1, <3>1
    <3> HIDE DEF n
    <3>3. ASSUME NEW l \in 1..Len(toDart'), l > n PROVE ~Announces(toDart'[l], i)
      <4>1. l > Len(toDart)
        BY <1>1, <3>2, <3>3
      <4> QED BY <1>1, <2>1, <4>1
    <3> QED BY <3>2, <3>3 DEF EndsLast
  <2> QED BY <2>2, <2>3
<1> QED BY <1>3 DEF Leaving

LEMMA LeavingReact ==
  ASSUME Seen, Leaving, NEW c \in [Ids -> CoreState], React(c), phone'.calls = phone.calls
  PROVE  Leaving'
<1>1. core' = c
  BY ReactReports DEF Seen
<1>2. PICK r \in Seq(Event) : toDart' = toDart \o r /\ Reported(c, r)
  BY ReactReports DEF Seen
<1>3. \A i \in Ids : S!IsListed(phone', i) => S!IsListed(phone, i)
  BY DEF S!IsListed
<1>4. ASSUME NEW i \in InState("released")'
      PROVE  /\ \A k \in 1..Len(r) : ~Announces(r[k], i)
             /\ core[i] # "released" => \E k \in 1..Len(r) : r[k] = Ev("lnReleased", i)
  BY <1>1, <1>2 DEF Reported, InState
<1> QED BY <1>2, <1>3, <1>4, LeavingAppended

LEMMA LeavingResumed ==
  ASSUME Seen, Leaving, MainActivityResumes
  PROVE  Leaving'
<1> DEFINE shown == {i \in Ids : core[i] \in DOMAIN ResumeEvent}
<1>1. /\ UNCHANGED <<phone, core>>
      /\ \E order \in SetToSeqs(shown) :
           toDart' = toDart \o [k \in DOMAIN order |-> Ev(ResumeEvent[core[order[k]]], order[k])]
  BY DEF MainActivityResumes
<1>2. IsFiniteSet(shown) /\ shown \in SUBSET Ids
  BY AndroidCallsAssumption, FS_Subset
<1>3. /\ \A i \in shown : Ev(ResumeEvent[core[i]], i) \in Event
      /\ \A i \in shown : core[i] # "released"
  BY EvType DEF ResumeEvent, EventOp, Announcements
<1> HIDE DEF shown
<1>4. PICK order \in SetToSeqs(shown) :
        toDart' = toDart \o [k \in DOMAIN order |-> Ev(ResumeEvent[core[order[k]]], order[k])]
  BY <1>1
<1> DEFINE r == [k \in DOMAIN order |-> Ev(ResumeEvent[core[order[k]]], order[k])]
<1>5. Cardinality(shown) \in Nat /\ order \in [1..Cardinality(shown) -> shown]
  BY <1>2, FS_CardinalityType DEF SetToSeqs
<1>6. r \in [1..Cardinality(shown) -> Event]
  BY <1>3, <1>5
<1>7. \A k \in 1..Cardinality(shown) : r[k].id \in shown
  BY <1>5 DEF Ev
<1>8. r \in Seq(Event) /\ Len(r) = Cardinality(shown) /\ toDart' = toDart \o r
  <2>1. toDart' = toDart \o r
    BY <1>4
  <2> HIDE DEF r
  <2> QED BY <1>5, <1>6, <2>1, IsASeq, LenProperties
<1> HIDE DEF r
<1>9. ASSUME NEW i \in InState("released")'
      PROVE  /\ \A k \in 1..Len(r) : ~Announces(r[k], i)
             /\ core[i] = "released"
  <2>1. core[i] = "released"
    BY <1>1 DEF InState
  <2> QED BY <1>3, <1>7, <1>8, <2>1 DEF Announces
<1> QED BY <1>1, <1>8, <1>9, LeavingAppended

LEMMA LeavingUser ==
  ASSUME Seen, Leaving, User
  PROVE  Leaving'
<1>1. phone'.calls \subseteq phone.calls /\ UNCHANGED <<core, toDart>>
  BY UserAccounts DEF Seen, User, Sheds
<1>2. \A i : S!IsListed(phone', i) => S!IsListed(phone, i)
  BY <1>1 DEF S!IsListed
<1> QED BY <1>1, <1>2 DEF Leaving, InState, Pending, EndsLast

LEMMA LeavingEvent ==
  ASSUME Seen, Leaving, DartEvent
  PROVE  Leaving'
<1> DEFINE h == Head(toDart)
           t == Tail(toDart)
<1>1. /\ toDart # <<>> /\ toDart \in Seq(Event) /\ toDart' = t /\ UNCHANGED core
      /\ h.op \in Announcements => phone.created < MaxObjects
  BY DEF DartEvent, Seen
<1>2. phone' = Handle(h)
  BY DoIs DEF DartEvent
<1>3. /\ h \in Event /\ t \in Seq(Event)
      /\ Len(toDart) \in Nat \ {0} /\ Len(t) = Len(toDart) - 1
      /\ h = toDart[1] /\ \A k \in 1..Len(t) : t[k] = toDart[k + 1]
  <2> HIDE DEF Event
  <2> QED BY <1>1, HeadTailProperties, EmptySeq, LenProperties
<1> HIDE DEF h, t
<1>4. /\ h.op \in Announcements => Announced(phone, phone', h.id)
      /\ h.op \notin Announcements => Sheds(phone, phone')
      /\ h.op = "lnReleased" => ~S!IsListed(phone', h.id)
  BY <1>1, <1>2, <1>3, HandleAccounts DEF Seen
<1>5. DOMAIN toDart = 1..Len(toDart) /\ DOMAIN t = 1..Len(t)
  BY <1>1, <1>3, LenProperties
<1>6. ASSUME NEW i \in InState("released")',
             S!IsListed(phone', i) \/ Pending(Announcements, i)'
      PROVE  EndsLast(i)'
  <2>1. S!IsListed(phone', i) => S!IsListed(phone, i) \/ Announces(h, i)
    BY <1>4 DEF Announced, Sheds, S!IsListed, Announces
  <2>2. Announces(h, i) => Pending(Announcements, i)
    BY <1>3, <1>5 DEF Announces, Pending
  <2>3. ASSUME Pending(Announcements, i)'
        PROVE  \E k \in 1..Len(t) : Announces(t[k], i)
    BY <1>1, <1>5, <2>3 DEF Pending, Announces
  <2>4. (\E k \in 1..Len(t) : Announces(t[k], i)) => Pending(Announcements, i)
    <3>1. SUFFICES ASSUME NEW k \in 1..Len(t), Announces(t[k], i)
                   PROVE  Pending(Announcements, i)
      OBVIOUS
    <3>2. k + 1 \in 1..Len(toDart) /\ toDart[k + 1] = t[k]
      BY <1>3
    <3> QED BY <1>5, <3>1, <3>2 DEF Announces, Pending
  <2>5. EndsLast(i)
    BY <1>1, <1>6, <2>1, <2>2, <2>3, <2>4 DEF Leaving, InState
  <2>6. PICK k \in 1..Len(toDart) :
          /\ toDart[k] = Ev("lnReleased", i)
          /\ \A l \in 1..Len(toDart) : l > k => ~Announces(toDart[l], i)
    BY <2>5 DEF EndsLast
  <2>7. ASSUME NEW l \in 1..Len(t), l + 1 > k
        PROVE  ~Announces(t[l], i)
    <3>1. l + 1 \in 1..Len(toDart) /\ toDart[l + 1] = t[l]
      BY <1>3
    <3> QED BY <2>6, <2>7, <3>1
  <2>8. k # 1
    <3>1. SUFFICES ASSUME k = 1 PROVE FALSE
      OBVIOUS
    <3>2. h.op = "lnReleased" /\ h.id = i
      BY <1>3, <2>6, <3>1 DEF Ev
    <3>3. ~S!IsListed(phone', i)
      BY <1>4, <3>2
    <3>4. \A l \in 1..Len(t) : l + 1 > k
      BY <1>3, <3>1
    <3> QED BY <1>6, <2>3, <2>7, <3>3, <3>4
  <2>9. /\ k - 1 \in 1..Len(t) /\ t[k - 1] = Ev("lnReleased", i)
        /\ \A l \in 1..Len(t) : l > k - 1 => ~Announces(t[l], i)
    BY <1>3, <2>6, <2>7, <2>8
  <2> QED BY <1>1, <2>9 DEF EndsLast
<1> QED BY <1>6 DEF Leaving

LEMMA LeavingInit ==
  ASSUME Init
  PROVE  Leaving
BY DEF Init, Leaving, InState

LEMMA LeavingNext ==
  ASSUME Seen, Leaving, [Next]_vars
  PROVE  Leaving'
<1>1. core \in [Ids -> CoreState] /\ phone.out \in Seq(S!Command) /\ Ids \in SUBSET Ids
  BY DEF Seen, Linked
<1>2. CASE NativeCommand
  <2>1. \E c \in [Ids -> CoreState] : React(c)
    BY <1>1, <1>2, CommandReacts
  <2>2. phone'.calls = phone.calls
    BY <1>2 DEF NativeCommand, Seen, Linked, S!InitPhone
  <2> QED BY <2>1, <2>2, LeavingReact
<1>3. ASSUME NEW i \in Ids, Core(i) PROVE Leaving'
  BY <1>1, <1>3, OutsideReacts, LeavingReact DEF Outside
<1>4. CASE MainActivityRecreated
  <2>1. Terminate(Ids) \in [Ids -> CoreState]
    BY <1>1, CoreLawful
  <2> QED BY <1>4, <2>1, LeavingReact DEF MainActivityRecreated
<1>5. CASE UNCHANGED vars
  BY <1>5 DEF vars, Leaving, InState, Pending, EndsLast
<1> QED
  BY <1>2, <1>3, <1>4, <1>5, LeavingEvent, LeavingUser, LeavingResumed DEF Next

LEMMA LeavingMeans ==
  ASSUME Seen, Leaving
  PROVE  EndedCallLeaves
<1>1. DOMAIN toDart = 1..Len(toDart)
  BY LenProperties DEF Seen
<1>2. ASSUME NEW i, EndsLast(i) PROVE Pending({"lnReleased"}, i)
  BY <1>1, <1>2 DEF EndsLast, Pending, Ev
<1> QED BY <1>2 DEF Leaving, EndedCallLeaves

(* A call that is over leaves the screen however many times it was         *)
(* announced: while it is listed, the event that removes it is on its way. *)
THEOREM AndroidLeaves == Spec => []EndedCallLeaves
<1>1. Init => Seen /\ Leaving
  BY SeenInit, LeavingInit
<1>2. (Seen /\ Leaving) /\ [Next]_vars => (Seen /\ Leaving)'
  BY SeenNext, LeavingNext
<1>3. Seen /\ Leaving => EndedCallLeaves
  BY LeavingMeans
<1> QED BY <1>1, <1>2, <1>3, PTL DEF Spec

-----------------------------------------------------------------------------
(* The Softphone object of this module is the one of Softphone_proofs: its *)
(* handlers are steps of Softphone, while native code only takes commands  *)
(* off phone.out.  The theorem about the focus there carries over.  The    *)
(* two instances, S of Softphone and P of its proofs, say the same.        *)
P == INSTANCE Softphone_proofs WITH
       Uuids <- Ids, NativeUuid <- [i \in Ids |-> i], Android <- TRUE

LEMMA FiniteIsFinite == \A s : P!IsFiniteSet(s) = IsFiniteSet(s)
BY DEF IsFiniteSet, P!IsFiniteSet

LEMMA SoftphoneAssumed == P!SoftphoneAssumption
<1>1. [i \in Ids |-> i] \in [Ids -> Ids]
  OBVIOUS
<1> QED BY <1>1, FiniteIsFinite, AndroidCallsAssumption DEF P!SoftphoneAssumption

LEMMA NullAssumed == P!NoCallIsNull
BY NoCallIsNull DEF P!NoCallIsNull, P!Call, S!Call

LEMMA SamePhones == S!Phone = P!Phone /\ S!InitPhone = P!InitPhone
BY DEF S!Phone, P!Phone, S!InitPhone, P!InitPhone, S!Call, P!Call, S!Command, P!Command,
       S!CallState, P!CallState

(* Looking calls up. *)
LEMMA SameLookUps ==
  /\ \A p, i : S!IsListed(p, i) = P!IsListed(p, i)
  /\ \A cs : S!Oldest(cs) = P!Oldest(cs)
  /\ \A p, i : S!CallById(p, i) = P!CallById(p, i)
  /\ \A p, u : S!KeysWithUuid(p, u) = P!KeysWithUuid(p, u)
  /\ \A p, u : S!CallByUuid(p, u) = P!CallByUuid(p, u)
  /\ \A p, c : S!IsConnected(p, c) = P!IsConnected(p, c)
<1>1. \A p, i : S!IsListed(p, i) = P!IsListed(p, i)
  BY DEF S!IsListed, P!IsListed
<1>2. \A cs : S!Oldest(cs) = P!Oldest(cs)
  BY DEF S!Oldest, P!Oldest
<1>3. \A p, i : S!CallById(p, i) = P!CallById(p, i)
  BY <1>1, <1>2 DEF S!CallById, P!CallById
<1>4. \A p, u : S!KeysWithUuid(p, u) = P!KeysWithUuid(p, u)
  BY DEF S!KeysWithUuid, P!KeysWithUuid
<1>5. \A p, u : S!CallByUuid(p, u) = P!CallByUuid(p, u)
  BY <1>3 DEF S!CallByUuid, P!CallByUuid, S!KeysWithUuid, P!KeysWithUuid
<1>6. \A p, c : S!IsConnected(p, c) = P!IsConnected(p, c)
  BY DEF S!IsConnected, P!IsConnected
<1> QED BY <1>1, <1>2, <1>3, <1>4, <1>5, <1>6

(* Commands. *)
LEMMA SameCommands ==
  /\ \A p, cmds : S!Send(p, cmds) = P!Send(p, cmds)
  /\ \A o, us : S!Cmd(o, us) = P!Cmd(o, us)
  /\ \A cs : S!OwnUuids(cs) = P!OwnUuids(cs)
  /\ \A p, cs : S!DataUuids(p, cs) = P!DataUuids(p, cs)
  /\ \A cmds : S!OnAndroid(cmds) = P!OnAndroid(cmds)
  /\ \A p, cs : S!HoldCalls(p, cs) = P!HoldCalls(p, cs)
  /\ \A p, c : S!UnholdCall(p, c) = P!UnholdCall(p, c)
  /\ \A p, c, hold, fromUi : S!SetHold(p, c, hold, fromUi) = P!SetHold(p, c, hold, fromUi)
  /\ \A p, c, mute, fromUi : S!SetMute(p, c, mute, fromUi) = P!SetMute(p, c, mute, fromUi)
<1>1. \A p, cmds : S!Send(p, cmds) = P!Send(p, cmds)
  BY DEF S!Send, P!Send
<1>2. \A o, us : S!Cmd(o, us) = P!Cmd(o, us)
  BY DEF S!Cmd, P!Cmd
<1>3. \A cs : S!OwnUuids(cs) = P!OwnUuids(cs)
  BY DEF S!OwnUuids, P!OwnUuids
<1>4. \A p, cs : S!DataUuids(p, cs) = P!DataUuids(p, cs)
  BY DEF S!DataUuids, P!DataUuids
<1>5. \A cmds : S!OnAndroid(cmds) = P!OnAndroid(cmds)
  BY DEF S!OnAndroid, P!OnAndroid
<1>6. \A p, cs : S!HoldCalls(p, cs) = P!HoldCalls(p, cs)
  BY <1>1, <1>2, <1>3, <1>4, <1>5 DEF S!HoldCalls, P!HoldCalls
<1>7. \A p, c : S!UnholdCall(p, c) = P!UnholdCall(p, c)
  BY <1>1, <1>2, <1>3, <1>4, <1>5 DEF S!UnholdCall, P!UnholdCall
<1>8. \A p, c, hold, fromUi : S!SetHold(p, c, hold, fromUi) = P!SetHold(p, c, hold, fromUi)
  BY <1>6, <1>7, <1>1, <1>2, <1>3 DEF S!SetHold, P!SetHold
<1>9. \A p, c, mute, fromUi : S!SetMute(p, c, mute, fromUi) = P!SetMute(p, c, mute, fromUi)
  BY <1>1, <1>2, <1>3, <1>4 DEF S!SetMute, P!SetMute
<1> QED BY <1>1, <1>2, <1>3, <1>4, <1>5, <1>6, <1>7, <1>8, <1>9

(* The focus and the end of calls. *)
LEMMA SameFocus ==
  /\ \A p, c : S!ReportOutgoing(p, c) = P!ReportOutgoing(p, c)
  /\ \A p, c : S!MakeActiveCall(p, c) = P!MakeActiveCall(p, c)
  /\ \A p, c : S!AnswerCall(p, c) = P!AnswerCall(p, c)
  /\ \A p, c : S!EndCommands(p, c) = P!EndCommands(p, c)
  /\ \A p, c : S!Unlist(p, c) = P!Unlist(p, c)
  /\ \A p, c : S!Refocus(p, c) = P!Refocus(p, c)
  /\ \A p, c : S!RemoveCall(p, c) = P!RemoveCall(p, c)
  /\ \A p, c : S!HangUp(p, c) = P!HangUp(p, c)
  /\ \A p, c : S!Transfer(p, c) = P!Transfer(p, c)
  /\ \A p, a, b : S!CompleteAssistedTransfer(p, a, b) = P!CompleteAssistedTransfer(p, a, b)
  /\ \A p, c, s : S!SetLpCallState(p, c, s) = P!SetLpCallState(p, c, s)
<1>1. \A p, c : S!ReportOutgoing(p, c) = P!ReportOutgoing(p, c)
  BY SameCommands DEF S!ReportOutgoing, P!ReportOutgoing
<1>2. \A p, c : S!MakeActiveCall(p, c) = P!MakeActiveCall(p, c)
  BY <1>1, SameCommands DEF S!MakeActiveCall, P!MakeActiveCall
<1>3. \A p, c : S!AnswerCall(p, c) = P!AnswerCall(p, c)
  <2> TAKE p, c
  <2> QED BY SameLookUps, SameCommands, <1>2, SMTT(30) DEF S!AnswerCall,
     P!AnswerCall
<1>4. \A p, c : S!EndCommands(p, c) = P!EndCommands(p, c)
  BY SameCommands DEF S!EndCommands, P!EndCommands
<1>5. \A p, c : S!Unlist(p, c) = P!Unlist(p, c)
  <2>1. \A s : S!Cardinality(s) = P!Cardinality(s)
    BY DEF S!Cardinality, P!Cardinality
  <2> QED BY <2>1 DEF S!Unlist, P!Unlist, S!IsConnected, P!IsConnected
<1>6. \A p, c : S!Refocus(p, c) = P!Refocus(p, c)
  BY SameLookUps, SameCommands, <1>2 DEF S!Refocus, P!Refocus
<1>7. \A p, c : S!RemoveCall(p, c) = P!RemoveCall(p, c)
  BY <1>5, SameCommands, <1>4, <1>6 DEF S!RemoveCall, P!RemoveCall
<1>8. \A p, c : S!HangUp(p, c) = P!HangUp(p, c)
  BY <1>7, SameCommands DEF S!HangUp, P!HangUp
<1>9. \A p, c : S!Transfer(p, c) = P!Transfer(p, c)
  BY <1>7, SameCommands DEF S!Transfer, P!Transfer
<1>10. \A p, a, b : S!CompleteAssistedTransfer(p, a, b) = P!CompleteAssistedTransfer(p, a, b)
  BY <1>7, SameCommands DEF S!CompleteAssistedTransfer,
     P!CompleteAssistedTransfer
<1>11. \A p, c, s : S!SetLpCallState(p, c, s) = P!SetLpCallState(p, c, s)
  BY <1>7, SameCommands DEF S!SetLpCallState, P!SetLpCallState
<1> QED BY <1>1, <1>2, <1>3, <1>4, <1>5, <1>6, <1>7, <1>8, <1>9, <1>10, <1>11

(* Arriving calls and answers. *)
LEMMA SameArrivals ==
  /\ \A p, i, dir : S!NewCall(p, i, dir) = P!NewCall(p, i, dir)
  /\ \A p, c : S!Keep(p, c) = P!Keep(p, c)
  /\ \A p, i, u : S!LinkLnCallWithUuid(p, i, u) = P!LinkLnCallWithUuid(p, i, u)
  /\ \A p, c : S!AddCall(p, c) = P!AddCall(p, c)
  /\ \A p, i, u : S!OutgoingInit(p, i, u) = P!OutgoingInit(p, i, u)
  /\ \A p, i, u : S!IncomingReceived(p, i, u) = P!IncomingReceived(p, i, u)
  /\ \A p, i, u : S!AnsweredFromNotification(p, i, u) = P!AnsweredFromNotification(p, i, u)
  /\ \A p, i, u : S!AnsweredWhileOnCall(p, i, u) = P!AnsweredWhileOnCall(p, i, u)
  /\ \A p, u : S!AnswerButtonPressed(p, u) = P!AnswerButtonPressed(p, u)
  /\ \A q : S!Do(q) = P!Do(q)
<1>1. \A p, i, dir : S!NewCall(p, i, dir) = P!NewCall(p, i, dir)
  BY DEF S!NewCall, P!NewCall
<1>2. \A p, c : S!Keep(p, c) = P!Keep(p, c)
  BY DEF S!Keep, P!Keep
<1>3. \A p, i, u : S!LinkLnCallWithUuid(p, i, u) = P!LinkLnCallWithUuid(p, i, u)
  BY DEF S!LinkLnCallWithUuid, P!LinkLnCallWithUuid
<1>4. \A p, c : S!AddCall(p, c) = P!AddCall(p, c)
  BY SameLookUps, SameFocus DEF S!AddCall, P!AddCall
<1>5. \A p, i, u : S!OutgoingInit(p, i, u) = P!OutgoingInit(p, i, u)
  BY <1>1, <1>2, <1>4, <1>3 DEF S!OutgoingInit, P!OutgoingInit
<1>6. \A p, i, u : S!IncomingReceived(p, i, u) = P!IncomingReceived(p, i, u)
  BY <1>1, <1>2, <1>4, <1>3 DEF S!IncomingReceived, P!IncomingReceived
<1>7. \A p, i, u : S!AnsweredFromNotification(p, i, u) = P!AnsweredFromNotification(p, i, u)
  BY <1>1, <1>2, SameFocus, <1>4, <1>3 DEF S!AnsweredFromNotification,
     P!AnsweredFromNotification
<1>8. \A p, i, u : S!AnsweredWhileOnCall(p, i, u) = P!AnsweredWhileOnCall(p, i, u)
  <2> TAKE p, i, u
  <2> QED BY <1>1, <1>2, <1>3, SameFocus, SameCommands, SMTT(30) DEF
     S!AnsweredWhileOnCall, P!AnsweredWhileOnCall
<1>9. \A p, u : S!AnswerButtonPressed(p, u) = P!AnswerButtonPressed(p, u)
  BY SameLookUps, SameFocus DEF S!AnswerButtonPressed, P!AnswerButtonPressed
<1>10. \A q : S!Do(q) = P!Do(q)
  BY DEF S!Do, P!Do
<1> QED BY <1>1, <1>2, <1>3, <1>4, <1>5, <1>6, <1>7, <1>8, <1>9, <1>10

(* What the user does in the one instance is done in the other. *)
LEMMA SameTaps ==
  /\ S!Dial \/ S!AssistedTransfer \/ S!TapTransfer => P!Dial \/ P!AssistedTransfer \/ P!TapTransfer
  /\ S!TapAnswer \/ S!TapHangUp \/ S!TapRow => P!TapAnswer \/ P!TapHangUp \/ P!TapRow
  /\ S!TapHold \/ S!TapMute => P!TapHold \/ P!TapMute
  /\ S!TapCompleteTransfer => P!TapCompleteTransfer
  /\ \A i : S!SaveDisposition(i) => P!SaveDisposition(i)
<1>1. /\ S!ConnectedRows = P!ConnectedRows /\ S!IncomingPopup = P!IncomingPopup
      /\ S!ActiveRinging = P!ActiveRinging /\ S!ActiveConnected = P!ActiveConnected
      /\ S!HoldState = P!HoldState /\ S!Dialled = P!Dialled
  <2>1. S!ConnectedRows = P!ConnectedRows
    BY DEF S!ConnectedRows, P!ConnectedRows, S!IsConnected, P!IsConnected
  <2>2. S!Waiting = P!Waiting
    BY DEF S!Waiting, P!Waiting, S!IsConnected, P!IsConnected
  <2>3. S!IncomingPopup = P!IncomingPopup
    BY <2>2 DEF S!IncomingPopup, P!IncomingPopup
  <2>4. S!ActiveRinging = P!ActiveRinging /\ S!ActiveConnected = P!ActiveConnected
    BY SameLookUps DEF S!ActiveRinging, P!ActiveRinging, S!ActiveConnected, P!ActiveConnected
  <2>5. S!HoldState = P!HoldState /\ S!Dialled = P!Dialled
    BY SameCommands DEF S!HoldState, P!HoldState, S!Dialled, P!Dialled
  <2> QED BY <2>1, <2>3, <2>4, <2>5
<1>2. S!Dial \/ S!AssistedTransfer \/ S!TapTransfer => P!Dial \/ P!AssistedTransfer \/ P!TapTransfer
  BY <1>1, SameCommands, SameFocus, SameArrivals
     DEF S!Dial, P!Dial, S!AssistedTransfer, P!AssistedTransfer, S!TapTransfer, P!TapTransfer
<1>3. S!TapAnswer \/ S!TapHangUp \/ S!TapRow => P!TapAnswer \/ P!TapHangUp \/ P!TapRow
  BY <1>1, SameFocus, SameArrivals
     DEF S!TapAnswer, P!TapAnswer, S!TapHangUp, P!TapHangUp, S!TapRow, P!TapRow
<1>4. S!TapHold \/ S!TapMute => P!TapHold \/ P!TapMute
  BY <1>1, SameCommands, SameArrivals DEF S!TapHold, P!TapHold, S!TapMute, P!TapMute
<1>5. S!TapCompleteTransfer => P!TapCompleteTransfer
  BY <1>1, SameFocus, SameArrivals DEF S!TapCompleteTransfer, P!TapCompleteTransfer
<1>6. \A i : S!SaveDisposition(i) => P!SaveDisposition(i)
  BY SameArrivals DEF S!SaveDisposition, P!SaveDisposition
<1> QED BY <1>2, <1>3, <1>4, <1>5, <1>6

(* Every step of the one instance is a step of the other. *)
LEMMA SameSteps == S!Next => P!Next
<1>1. ASSUME NEW i \in Ids, S!CallAnnounced(i) PROVE P!CallAnnounced(i)
  BY <1>1, SameArrivals DEF S!CallAnnounced, P!CallAnnounced, S!Announce, P!Announce
<1>2. ASSUME NEW u, NEW s, S!LinphoneState(u, s) PROVE P!LinphoneState(u, s)
  BY <1>2, SameLookUps, SameFocus, SameArrivals DEF S!LinphoneState, P!LinphoneState
<1>3. ASSUME NEW u, S!CallKitButton(u) PROVE P!CallKitButton(u)
  BY <1>3, SameLookUps, SameCommands, SameFocus, SameArrivals
     DEF S!CallKitButton, P!CallKitButton
<1>4. S!User => P!User
  BY SameTaps DEF S!User, P!User
<1> QED BY <1>1, <1>2, <1>3, <1>4 DEF S!Next, P!Next, S!CallState, P!CallState

-----------------------------------------------------------------------------
(* An event of native code is one that Softphone expects. *)
LEMMA EventIsExpected ==
  ASSUME Seen, DartEvent
  PROVE  S!Next \/ phone' = phone
<1> DEFINE h == Head(toDart)
           c == S!CallByUuid(phone, h.id)
<1>1. toDart \in Seq(Event) /\ toDart # <<>>
  BY DEF Seen, DartEvent
<1>2. h \in Event
  <2> HIDE DEF Event
  <2> QED BY <1>1, HeadTailProperties
<1>3. h.id \in Ids /\ [i \in Ids |-> i][h.id] = h.id
  BY <1>2 DEF Event
<1>4. S!Do(Handle(h)) /\ (h.op \in Announcements => phone.created < MaxObjects)
  BY DEF DartEvent
<1> HIDE DEF h
<1>5. CASE h.op \in Announcements
  <2>1. \/ Handle(h) = S!OutgoingInit(phone, h.id, h.id)
        \/ Handle(h) = S!IncomingReceived(phone, h.id, h.id)
        \/ Handle(h) = S!AnsweredFromNotification(phone, h.id, h.id)
        \/ Handle(h) = S!AnsweredWhileOnCall(phone, h.id, h.id)
    BY <1>5 DEF Handle, Announcements
  <2>2. S!CallAnnounced(h.id)
    BY <1>3, <1>4, <1>5, <2>1 DEF S!CallAnnounced, S!Announce
  <2> QED BY <1>3, <2>2 DEF S!Next
<1>6. CASE h.op \notin Announcements /\ c = NoCall
  BY <1>4, <1>6, DoIs DEF Handle, Announcements
<1>7. CASE h.op \notin Announcements /\ c # NoCall
  <2>1. Handle(h) = S!SetLpCallState(phone, c, ShownAs[h.op])
    BY <1>7 DEF Handle, Announcements
  <2>2. ShownAs[h.op] \in S!CallState \ {"NONE"}
    BY <1>2, <1>7 DEF Event, ShownAs, S!CallState
  <2>3. S!LinphoneState(h.id, ShownAs[h.op])
    BY <1>4, <1>7, <2>1 DEF S!LinphoneState
  <2> QED BY <1>3, <2>2, <2>3 DEF S!Next
<1> QED BY <1>5, <1>6, <1>7

LEMMA PhoneSteps ==
  ASSUME Seen, [Next]_vars
  PROVE  \/ S!Next \/ phone' = phone
         \/ phone.out # <<>> /\ phone' = [phone EXCEPT !.out = Tail(@)]
<1>1. CASE User
  BY <1>1 DEF User, S!Next, S!User
<1>2. CASE \E i \in Ids : Core(i)
  BY <1>2 DEF Core, CoreActs, EndsOutside, NotificationAnswer, TelecomHold, TelecomUnhold,
              Outside
<1> QED BY <1>1, <1>2, EventIsExpected
        DEF Next, vars, NativeCommand, MainActivityResumes, MainActivityRecreated

(* What the two halves of the app rely on together. *)
Typed ==
  /\ Seen /\ P!Sound(phone) /\ P!Focused(phone)
  /\ listeners \in 1..MaxActivities /\ resumes \in 0..MaxResumes

LEMMA TypedInit == Init => Typed
<1> SUFFICES ASSUME Init PROVE Typed
  OBVIOUS
<1>1. P!Init
  BY SamePhones DEF Init, S!Init, P!Init
<1>2. P!Sound(phone) /\ P!Focused(phone)
  BY <1>1, SoftphoneAssumed, NullAssumed, P!InitSound
<1> QED BY <1>2, SeenInit, AndroidCallsAssumption DEF Typed, Init

LEMMA TakenKeepsFocus ==
  ASSUME P!Sound(phone), P!Focused(phone), phone.out # <<>>,
         phone' = [phone EXCEPT !.out = Tail(@)]
  PROVE  P!Sound(phone') /\ P!Focused(phone')
<1>1. phone.out \in Seq(P!Command)
  BY DEF P!Sound, P!Phone
<1>2. Tail(phone.out) \in Seq(P!Command)
  <2> HIDE DEF P!Command
  <2> QED BY <1>1, HeadTailProperties
<1>3. phone' \in P!Phone
  BY <1>2 DEF P!Sound, P!Phone
<1> QED BY <1>3 DEF P!Sound, P!Focused, P!Phone

LEMMA TypedStep ==
  ASSUME Typed, [Next]_vars
  PROVE  Typed'
<1>1. Seen'
  BY SeenNext DEF Typed
<1>2. P!Sound(phone') /\ P!Focused(phone')
  <2>1. CASE S!Next \/ phone' = phone
    <3>1. [P!Next]_(P!vars)
      BY <2>1, SameSteps DEF P!vars
    <3>2. P!Handled(phone, phone')
      BY <3>1, SoftphoneAssumed, NullAssumed, P!NextHandled DEF Typed
    <3> QED BY <3>2, SoftphoneAssumed, NullAssumed, P!HandledFocused DEF Typed
  <2>2. CASE phone.out # <<>> /\ phone' = [phone EXCEPT !.out = Tail(@)]
    BY <2>2, TakenKeepsFocus DEF Typed
  <2> QED BY <2>1, <2>2, PhoneSteps DEF Typed
<1>3. listeners' \in 1..MaxActivities /\ resumes' \in 0..MaxResumes
  <2>1. \/ UNCHANGED <<listeners, resumes>>
        \/ resumes < MaxResumes /\ resumes' = resumes + 1 /\ UNCHANGED listeners
        \/ listeners < MaxActivities /\ listeners' = listeners + 1 /\ UNCHANGED resumes
    BY DEF Next, vars, NativeCommand, DartEvent, User, Core, CoreActs, EndsOutside,
           NotificationAnswer, TelecomHold, TelecomUnhold, Outside, MainActivityResumes,
           MainActivityRecreated
  <2> QED BY <2>1, AndroidCallsAssumption DEF Typed
<1> QED BY <1>1, <1>2, <1>3 DEF Typed

LEMMA AlwaysTyped == Spec => []Typed
BY TypedInit, TypedStep, PTL DEF Spec

(* Messages and states keep their types whatever crosses on the channel,   *)
(* and the bounds of the model are never exceeded.                         *)
THEOREM AndroidTypes == Spec => []TypeOK
<1>1. Typed => TypeOK
  BY SamePhones DEF Typed, Seen, P!Sound, TypeOK, S!TypeOK
<1> QED BY <1>1, AlwaysTyped, PTL

(* Whatever the core and MainActivity announce and report, some listed     *)
(* call has the focus while any is listed.                                 *)
THEOREM AndroidFocus == Spec => []CallsHaveFocus
<1>1. Typed => CallsHaveFocus
  BY DEF Typed, P!Focused, CallsHaveFocus, S!CallsHaveFocus
<1> QED BY <1>1, AlwaysTyped, PTL

(* Whenever Dart moves the focus, it tells every other listed call to      *)
(* hold, so the commands that reach the core leave no two calls running by *)
(* its doing (softphone.dart 883-917).  Native code takes commands off the *)
(* channel but never moves the focus.                                      *)
THEOREM AndroidHoldsOthers == Spec => FocusHoldsTheOthers
<1>1. ASSUME Typed, [Next]_vars PROVE P!Tells(phone, phone')
  <2>1. CASE S!Next \/ phone' = phone
    <3>1. [P!Next]_(P!vars)
      BY <2>1, SameSteps DEF P!vars
    <3>2. MaxPending # 0
      BY AndroidCallsAssumption
    <3> QED BY <1>1, <3>1, <3>2, SoftphoneAssumed, NullAssumed, P!NextTells DEF Typed
  <2>2. CASE phone' = [phone EXCEPT !.out = Tail(@)]
    <3>1. phone'.activeCall = phone.activeCall
      BY <1>1, <2>2 DEF Typed, P!Sound, P!Phone
    <3> QED BY <3>1 DEF P!Tells
  <2> QED BY <1>1, <2>1, <2>2, PhoneSteps DEF Typed
<1>2. P!Tells(phone, phone') =>
        (phone'.activeCall \notin {NoCall, phone.activeCall} =>
           \A d \in phone'.calls : d.id # phone'.activeCall.id =>
             \E k \in Len(phone.out) + 1 .. Len(phone'.out) :
               phone'.out[k].op = "lpHold"
               /\ [i \in Ids |-> i][d.id] \in phone'.out[k].to)
  BY DEF P!Tells, P!ToldToHold
<1> QED BY <1>1, <1>2, AlwaysTyped, PTL
        DEF Spec, FocusHoldsTheOthers, S!FocusHoldsTheOthers, S!vars

-----------------------------------------------------------------------------
(* What the events say.  An update is an event that sets the state a call  *)
(* is shown in.                                                            *)
Updates(e, i) == e.id = i /\ e.op \in DOMAIN ShownAs

(* MainActivity announces a call as it starts and before it updates it,    *)
(* and updates it with the state the core has it in.                       *)
LEMMA EventsOfTell ==
  ASSUME NEW i \in Ids, NEW s \in CoreState
  PROVE  LET v == EventsOf(i, s)
         IN  /\ \A k \in 1..Len(v) :
                  /\ v[k].id = i
                  /\ v[k].op \in Announcements =>
                       s \in {"incoming", "outgoing"}
                       /\ v[k].op \in {"lnOutgoingInit", "lnIncomingReceived"}
                  /\ v[k].op \in DOMAIN ShownAs =>
                       s = "released" \/ ShownAs[v[k].op] \in Shows[s]
             /\ s \notin {"none", "incoming", "pausing", "resuming"} =>
                  \E k \in 1..Len(v) : Updates(v[k], i)
             /\ \A k, l \in 1..Len(v) : Announces(v[k], i) /\ Updates(v[l], i) => k < l
<1> DEFINE r == Reports[s]
           v == EventsOf(i, s)
<1>1. r \in Seq(EventOp) /\ Len(r) \in Nat /\ DOMAIN r = 1..Len(r)
  BY ReportsType, LenProperties
<1>2. Len(v) = Len(r) /\ \A k \in 1..Len(r) : v[k].op = r[k] /\ v[k].id = i
  <2>1. Len(v) = Len(r) /\ \A k \in 1..Len(r) : v[k] = Ev(r[k], i)
    BY EventsOfType
  <2>2. \A o : Ev(o, i).op = o /\ Ev(o, i).id = i
    BY DEF Ev
  <2> HIDE DEF r, v
  <2> QED BY <2>1, <2>2
<1>3. \/ s \in {"none", "pausing", "resuming"} /\ r = <<>>
      \/ s = "incoming" /\ r = <<"lnIncomingReceived">>
      \/ s = "outgoing" /\ r = <<"lnOutgoingInit", "lnOutgoingProgress">>
      \/ s = "connected" /\ r = <<"lnConnected">>
      \/ s = "streaming" /\ r = <<"lnStreamsRunning">>
      \/ s = "paused" /\ r = <<"lnPaused">>
      \/ s = "pausedByRemote" /\ r = <<"lnPausedByRemote">>
      \/ s = "released" /\ r = <<"lnReleased">>
  BY DEF Reports, CoreState
<1> HIDE DEF r, v
<1>4. \/ s \in {"none", "pausing", "resuming"} /\ Len(r) = 0
      \/ s = "incoming" /\ Len(r) = 1 /\ r[1] = "lnIncomingReceived"
      \/ s = "outgoing" /\ Len(r) = 2 /\ r[1] = "lnOutgoingInit" /\ r[2] = "lnOutgoingProgress"
      \/ s = "connected" /\ Len(r) = 1 /\ r[1] = "lnConnected"
      \/ s = "streaming" /\ Len(r) = 1 /\ r[1] = "lnStreamsRunning"
      \/ s = "paused" /\ Len(r) = 1 /\ r[1] = "lnPaused"
      \/ s = "pausedByRemote" /\ Len(r) = 1 /\ r[1] = "lnPausedByRemote"
      \/ s = "released" /\ Len(r) = 1 /\ r[1] = "lnReleased"
  BY <1>3
<1>5. ASSUME NEW k \in 1..Len(r)
      PROVE  /\ r[k] \in Announcements =>
                  s \in {"incoming", "outgoing"} /\ k = 1
                  /\ r[k] \in {"lnOutgoingInit", "lnIncomingReceived"}
             /\ r[k] \in DOMAIN ShownAs =>
                  s = "released" \/ ShownAs[r[k]] \in Shows[s]
             /\ r[k] \in DOMAIN ShownAs => s # "incoming" /\ (s = "outgoing" => k = 2)
  BY <1>4 DEF Announcements, ShownAs, Shows
<1>6. s \notin {"none", "incoming", "pausing", "resuming"} =>
        Len(r) \in 1..Len(r) /\ r[Len(r)] \in DOMAIN ShownAs
  BY <1>4 DEF ShownAs
<1>7. \A k \in 1..Len(v) :
        /\ v[k].id = i
        /\ v[k].op \in Announcements =>
             s \in {"incoming", "outgoing"}
             /\ v[k].op \in {"lnOutgoingInit", "lnIncomingReceived"}
        /\ v[k].op \in DOMAIN ShownAs => s = "released" \/ ShownAs[v[k].op] \in Shows[s]
  BY <1>2, <1>5
<1>8. s \notin {"none", "incoming", "pausing", "resuming"} =>
        \E k \in 1..Len(v) : Updates(v[k], i)
  BY <1>2, <1>6 DEF Updates
<1>9. \A k, l \in 1..Len(v) : Announces(v[k], i) /\ Updates(v[l], i) => k < l
  <2>1. SUFFICES ASSUME NEW k \in 1..Len(v), NEW l \in 1..Len(v),
                        Announces(v[k], i), Updates(v[l], i)
                 PROVE  k < l
    OBVIOUS
  <2>2. r[k] \in Announcements /\ r[l] \in DOMAIN ShownAs /\ k \in 1..Len(r) /\ l \in 1..Len(r)
    BY <1>2, <2>1 DEF Announces, Updates
  <2>3. s = "outgoing" /\ k = 1 /\ l = 2
    BY <1>5, <2>2
  <2> QED BY <2>3
<1> QED BY <1>7, <1>8, <1>9 DEF v

(* What the core tells of the calls it changes. *)
Told(c, r) ==
  /\ \A k \in 1..Len(r) :
       /\ r[k].id \in Ids /\ c[r[k].id] # core[r[k].id]
       /\ c[r[k].id] \notin {"pausing", "resuming"}
       /\ r[k].op \in Announcements =>
            c[r[k].id] \in {"incoming", "outgoing"}
            /\ r[k].op \in {"lnOutgoingInit", "lnIncomingReceived"}
       /\ r[k].op \in DOMAIN ShownAs =>
            c[r[k].id] = "released" \/ ShownAs[r[k].op] \in Shows[c[r[k].id]]
  /\ \A i \in Ids : c[i] # core[i] /\ c[i] \notin {"none", "incoming", "pausing", "resuming"} =>
       \E k \in 1..Len(r) : Updates(r[k], i)
  /\ \A i \in Ids, k, l \in 1..Len(r) : Announces(r[k], i) /\ Updates(r[l], i) => k < l

LEMMA ReactTells ==
  ASSUME listeners \in Nat \ {0}, core \in [Ids -> CoreState],
         NEW c \in [Ids -> CoreState], React(c), Lawful(c)
  PROVE  \E r \in Seq(Event) : toDart' = toDart \o r /\ Told(c, r)
<1> DEFINE told == {i \in Ids : c[i] # core[i] /\ Reports[c[i]] # <<>>}
           ended == {Ev("lnReleased", i) : i \in told}
<1>1. \/ \E i \in Ids : told = {i} /\ toDart' = toDart \o Repeated(EventsOf(i, c[i]))
      \/ Cardinality(told) # 1 /\ \E ends \in SetToSeqs(ended) : toDart' = toDart \o Repeated(ends)
  BY DEF React
<1>2. \A i \in Ids : i \in told <=> c[i] # core[i] /\ c[i] \notin {"pausing", "resuming"}
  BY DEF Lawful, Reports, CoreState
<1>3. told \in SUBSET Ids /\ IsFiniteSet(told)
  BY AndroidCallsAssumption, FS_Subset
<1>4. ended \in SUBSET Event /\ IsFiniteSet(ended)
  <2> DEFINE f == [i \in told |-> Ev("lnReleased", i)]
  <2>1. "lnReleased" \in EventOp
    BY DEF EventOp, ShownAs
  <2>2. ended \in SUBSET Event
    BY <1>3, <2>1, EvType
  <2>3. f \in Surjection(told, ended)
    BY DEF Surjection
  <2> HIDE DEF told, ended, f
  <2> QED BY <1>3, <2>2, <2>3, FS_Surjection
<1>5. /\ \A e \in ended : e.op = "lnReleased" /\ e.id \in told
      /\ \A i \in told : Ev("lnReleased", i) \in ended
  BY DEF Ev
<1> HIDE DEF told, ended
<1>6. CASE \E i \in Ids : told = {i} /\ toDart' = toDart \o Repeated(EventsOf(i, c[i]))
  <2>1. PICK i \in Ids : told = {i} /\ toDart' = toDart \o Repeated(EventsOf(i, c[i]))
    BY <1>6
  <2> DEFINE v == EventsOf(i, c[i])
             r == Repeated(v)
  <2>2. v \in Seq(Event)
    BY EventsOfType
  <2>3. /\ \A k \in 1..Len(v) :
             /\ v[k].id = i
             /\ v[k].op \in Announcements =>
                  c[i] \in {"incoming", "outgoing"}
                  /\ v[k].op \in {"lnOutgoingInit", "lnIncomingReceived"}
             /\ v[k].op \in DOMAIN ShownAs =>
                  c[i] = "released" \/ ShownAs[v[k].op] \in Shows[c[i]]
        /\ c[i] \notin {"none", "incoming", "pausing", "resuming"} =>
             \E k \in 1..Len(v) : Updates(v[k], i)
        /\ \A k, l \in 1..Len(v) : Announces(v[k], i) /\ Updates(v[l], i) => k < l
    BY EventsOfTell
  <2>4. toDart' = toDart \o r
    BY <2>1
  <2> HIDE DEF v
  <2>5. /\ r \in Seq(Event)
        /\ \A j \in 1..Len(v) : \E k \in 1..Len(r) : r[k] = v[j]
        /\ \A k \in 1..Len(r) : \E j \in 1..Len(v) : r[k] = v[j]
        /\ \A k, l \in 1..Len(r) : k <= l =>
             \E a, b \in 1..Len(v) : a <= b /\ r[k] = v[a] /\ r[l] = v[b]
    BY <2>2, RepeatedType
  <2> HIDE DEF r
  <2>6. c[i] # core[i] /\ c[i] \notin {"pausing", "resuming"}
    BY <1>2, <2>1
  <2>7. ASSUME NEW k \in 1..Len(r)
        PROVE  /\ r[k].id = i
               /\ r[k].op \in Announcements =>
                    c[i] \in {"incoming", "outgoing"}
                    /\ r[k].op \in {"lnOutgoingInit", "lnIncomingReceived"}
               /\ r[k].op \in DOMAIN ShownAs =>
                    c[i] = "released" \/ ShownAs[r[k].op] \in Shows[c[i]]
    <3>1. PICK j \in 1..Len(v) : r[k] = v[j]
      BY <2>5
    <3> QED BY <2>3, <3>1
  <2>8. ASSUME NEW j \in Ids, c[j] # core[j],
               c[j] \notin {"none", "incoming", "pausing", "resuming"}
        PROVE  \E k \in 1..Len(r) : Updates(r[k], j)
    <3>1. j = i
      BY <1>2, <2>1, <2>8
    <3> QED BY <2>3, <2>5, <2>8, <3>1
  <2>9. ASSUME NEW j \in Ids, NEW k \in 1..Len(r), NEW l \in 1..Len(r),
               Announces(r[k], j), Updates(r[l], j)
        PROVE  k < l
    <3>1. SUFFICES ASSUME l <= k PROVE FALSE
      <4>1. Len(r) \in Nat
        BY <2>5, LenProperties
      <4> QED BY <4>1
    <3>2. PICK a \in 1..Len(v), b \in 1..Len(v) : a <= b /\ r[l] = v[a] /\ r[k] = v[b]
      BY <2>5, <3>1
    <3>3. j = i
      BY <2>7, <2>9 DEF Announces
    <3>4. b < a
      BY <2>3, <2>9, <3>2, <3>3
    <3>5. Len(v) \in Nat
      BY <2>2, LenProperties
    <3> QED BY <3>2, <3>4, <3>5
  <2>10. Told(c, r)
    BY <2>6, <2>7, <2>8, <2>9 DEF Told
  <2> QED BY <2>4, <2>5, <2>10
<1>7. CASE Cardinality(told) # 1
           /\ \E ends \in SetToSeqs(ended) : toDart' = toDart \o Repeated(ends)
  <2>1. PICK ends \in SetToSeqs(ended) : toDart' = toDart \o Repeated(ends)
    BY <1>7
  <2>2. /\ ends \in Seq(Event) /\ \A k \in 1..Len(ends) : ends[k] \in ended
        /\ \A e \in ended : \E k \in 1..Len(ends) : ends[k] = e
    BY <1>4, OrdersType
  <2> DEFINE r == Repeated(ends)
  <2>3. /\ r \in Seq(Event)
        /\ \A j \in 1..Len(ends) : \E k \in 1..Len(r) : r[k] = ends[j]
        /\ \A k \in 1..Len(r) : \E j \in 1..Len(ends) : r[k] = ends[j]
    BY <2>2, RepeatedType
  <2>4. toDart' = toDart \o r
    BY <2>1
  <2> HIDE DEF r
  <2>5. ASSUME NEW i \in told PROVE c[i] = "released"
    <3>1. SUFFICES ASSUME c[i] # "released" PROVE told = {i}
      BY <1>3, <1>7, FS_Singleton
    <3>2. c[i] # core[i] /\ c[i] \notin {"released", "pausing"} /\ i \in Ids
      BY <1>2, <1>3, <3>1
    <3>3. \A j \in Ids \ {i} : c[j] \in {core[j], "pausing"}
      BY <3>2 DEF Lawful
    <3> QED BY <1>2, <1>3, <3>3
  <2>6. ASSUME NEW k \in 1..Len(r)
        PROVE  r[k].op = "lnReleased" /\ r[k].id \in told
    BY <1>5, <2>2, <2>3
  <2>7. ASSUME NEW i \in Ids, c[i] # core[i], c[i] \notin {"pausing", "resuming"}
        PROVE  \E k \in 1..Len(r) : Updates(r[k], i)
    <3>1. Ev("lnReleased", i) \in ended
      BY <1>2, <1>5, <2>7
    <3>2. Updates(Ev("lnReleased", i), i)
      BY DEF Updates, Ev, ShownAs
    <3> QED BY <2>2, <2>3, <3>1, <3>2
  <2>8. "lnReleased" \notin Announcements
    BY DEF Announcements
  <2>9. \A k \in 1..Len(r) :
          /\ r[k].id \in Ids /\ c[r[k].id] # core[r[k].id] /\ c[r[k].id] = "released"
          /\ r[k].op \notin Announcements
    BY <1>2, <1>3, <2>5, <2>6, <2>8
  <2>10. Told(c, r)
    BY <2>7, <2>9 DEF Told, Announces
  <2> QED BY <2>3, <2>4, <2>10
<1> QED BY <1>1, <1>6, <1>7

-----------------------------------------------------------------------------
(* What a call is shown as.  While MainActivity does not resume, the       *)
(* invariant ties the list, the events on their way and the core together. *)
LastUpdate(k, i) ==
  /\ Updates(toDart[k], i)
  /\ \A l \in 1..Len(toDart) : l > k => ~Updates(toDart[l], i)

NoUpdate(i) == \A k \in 1..Len(toDart) : ~Updates(toDart[k], i)

CallAnnouncements == {"lnOutgoingInit", "lnIncomingReceived"}

(* A call not yet begun is unknown to Dart; a call is announced before it  *)
(* is updated, and one announced without an update is ringing; the last    *)
(* update says what the core has, and without one the list already does.   *)
ShownCall(i) ==
  /\ core[i] = "none" => ~S!IsListed(phone, i) /\ \A k \in 1..Len(toDart) : toDart[k].id # i
  /\ \A k, l \in 1..Len(toDart) : Announces(toDart[k], i) /\ Updates(toDart[l], i) => k < l
  /\ core[i] \notin {"none", "released"} =>
       /\ NoUpdate(i) /\ (\E k \in 1..Len(toDart) : Announces(toDart[k], i)) => core[i] = "incoming"
       /\ \A k \in 1..Len(toDart) : LastUpdate(k, i) => ShownAs[toDart[k].op] \in Shows[core[i]]
       /\ NoUpdate(i) =>
            \A d \in phone.calls : d.id = i => phone.state[d.n] \in Shows[core[i]]

Shown ==
  /\ P!Numbered(phone) /\ P!OneObject(phone)
  /\ \A k \in 1..Len(toDart) : toDart[k].op \in CallAnnouncements \cup DOMAIN ShownAs
  /\ \A i \in Ids : ShownCall(i)

LEMMA ShownInit ==
  ASSUME Init
  PROVE  Shown
<1>1. phone = P!InitPhone /\ phone.calls = {}
  BY SamePhones DEF Init, S!Init, P!InitPhone
<1>2. P!Numbered(phone) /\ P!OneObject(phone)
  BY <1>1, SoftphoneAssumed, NullAssumed, P!InitNumbered DEF P!OneObject
<1>3. Len(toDart) = 0
  BY DEF Init
<1>4. ASSUME NEW i \in Ids PROVE ShownCall(i)
  BY <1>1, <1>3 DEF Init, ShownCall, S!IsListed
<1> QED BY <1>2, <1>3, <1>4 DEF Shown

(* Dart takes no event, and leaves the states of the calls it keeps.       *)
LEMMA ShownKept ==
  ASSUME Typed, Shown, P!KeepsStates(phone, phone'), UNCHANGED <<core, toDart>>
  PROVE  Shown'
<1>1. P!Numbered(phone') /\ P!OneObject(phone')
  BY DEF P!KeepsStates, Shown, P!OneObject
<1>2. ASSUME NEW i \in Ids PROVE ShownCall(i)'
  <2>1. ShownCall(i)
    BY DEF Shown
  <2>2. S!IsListed(phone', i) => S!IsListed(phone, i)
    BY DEF P!KeepsStates, S!IsListed
  <2>3. NoUpdate(i)' = NoUpdate(i) /\ \A k : LastUpdate(k, i)' = LastUpdate(k, i)
    BY DEF NoUpdate, LastUpdate
  <2>4. \A d \in phone'.calls : d \in phone.calls /\ phone'.state[d.n] = phone.state[d.n]
    BY DEF P!KeepsStates
  <2> QED BY <2>1, <2>2, <2>3, <2>4 DEF ShownCall
<1> QED BY <1>1, <1>2 DEF Shown

LEMMA UserKeepsStates ==
  ASSUME Typed, Shown, User
  PROVE  P!KeepsStates(phone, phone')
<1>1. P!Acted(phone, phone')
  <2>1. P!Sound(phone)
    BY DEF Typed
  <2>2. \/ P!TapAnswer \/ P!TapHangUp \/ P!TapHold \/ P!TapMute \/ P!TapRow \/ P!TapTransfer
        \/ P!Dial \/ P!AssistedTransfer \/ P!TapCompleteTransfer
        \/ \E i \in Ids : P!SaveDisposition(i)
    BY SameTaps DEF User
  <2>3. CASE \/ P!TapAnswer \/ P!TapHangUp \/ P!TapHold \/ P!TapMute \/ P!TapRow \/ P!TapTransfer
    BY <2>1, <2>3, SoftphoneAssumed, NullAssumed, P!TapActed
  <2>4. CASE \/ P!Dial \/ P!AssistedTransfer \/ P!TapCompleteTransfer
             \/ \E i \in Ids : P!SaveDisposition(i)
    BY <2>1, <2>4, SoftphoneAssumed, NullAssumed, P!OtherUserActed
  <2> QED BY <2>2, <2>3, <2>4
<1> QED BY <1>1, SoftphoneAssumed, NullAssumed, P!ActedNumbered DEF Typed, Shown

(* The core changes the calls and tells of it.                             *)
LEMMA ShownAppended ==
  ASSUME Typed, Shown, NEW c \in [Ids -> CoreState], Lawful(c), core' = c,
         NEW r \in Seq(Event), toDart' = toDart \o r, Told(c, r),
         phone'.calls = phone.calls, phone'.state = phone.state, P!Numbered(phone')
  PROVE  Shown'
<1>1. /\ Len(toDart) \in Nat /\ Len(r) \in Nat /\ Len(toDart') = Len(toDart) + Len(r)
      /\ \A k \in 1..Len(toDart) : k \in 1..Len(toDart') /\ toDart'[k] = toDart[k]
      /\ \A k \in 1..Len(r) : Len(toDart) + k \in 1..Len(toDart')
                              /\ toDart'[Len(toDart) + k] = r[k]
      /\ \A k \in 1..Len(toDart') : k > Len(toDart) =>
           k - Len(toDart) \in 1..Len(r) /\ toDart'[k] = r[k - Len(toDart)]
  BY AppendedEvents DEF Typed, Seen
<1> DEFINE n == Len(toDart)
<1>2. \A k \in 1..Len(toDart') : k \in 1..n \/ k > n
  BY <1>1
<1>3. \A i \in Ids : S!IsListed(phone', i) <=> S!IsListed(phone, i)
  BY DEF S!IsListed
<1>4. ASSUME NEW i \in Ids, c[i] = core[i] \/ c[i] \in {"pausing", "resuming"}
      PROVE  ShownCall(i)'
  <2>1. \A k \in 1..Len(r) : r[k].id # i
    BY <1>4 DEF Told
  <2>2. \A k \in 1..Len(toDart') : k > n => ~Updates(toDart'[k], i) /\ ~Announces(toDart'[k], i)
                                            /\ toDart'[k].id # i
    BY <1>1, <2>1 DEF Updates, Announces
  <2>3. NoUpdate(i)' => NoUpdate(i)
    BY <1>1 DEF NoUpdate
  <2>4. ASSUME NEW k \in 1..Len(toDart'), LastUpdate(k, i)'
        PROVE  k \in 1..n /\ LastUpdate(k, i) /\ toDart'[k] = toDart[k]
    BY <1>1, <1>2, <2>2, <2>4 DEF LastUpdate
  <2>5. ShownCall(i)
    BY DEF Shown
  <2>6. \A k \in 1..Len(toDart') : toDart'[k].id = i => k \in 1..n /\ toDart'[k] = toDart[k]
    BY <1>1, <1>2, <2>2
  <2>7. \A k \in 1..Len(toDart') :
          Announces(toDart'[k], i) \/ Updates(toDart'[k], i) => toDart'[k].id = i
    BY DEF Announces, Updates
  <2>8. c[i] # core[i] =>
          core[i] \in {"streaming", "pausedByRemote", "paused"} /\ Shows[core[i]] \subseteq Shows[c[i]]
    BY <1>4 DEF Lawful, Shows
  <2>9. core'[i] = "none" =>
          ~S!IsListed(phone', i) /\ \A k \in 1..Len(toDart') : toDart'[k].id # i
    BY <1>3, <1>4, <2>5, <2>6 DEF ShownCall
  <2>10. \A k, l \in 1..Len(toDart') : Announces(toDart'[k], i) /\ Updates(toDart'[l], i) => k < l
    BY <2>5, <2>6, <2>7 DEF ShownCall
  <2>11. ASSUME core'[i] \notin {"none", "released"}
         PROVE  /\ NoUpdate(i)' /\ (\E k \in 1..Len(toDart') : Announces(toDart'[k], i))
                     => core'[i] = "incoming"
                /\ \A k \in 1..Len(toDart') :
                     LastUpdate(k, i)' => ShownAs[toDart'[k].op] \in Shows[core'[i]]
                /\ NoUpdate(i)' =>
                     \A d \in phone'.calls : d.id = i => phone'.state[d.n] \in Shows[core'[i]]
    <3>1. core[i] \notin {"none", "released"} /\ Shows[core[i]] \subseteq Shows[core'[i]]
      BY <2>8, <2>11
    <3>2. NoUpdate(i)' /\ (\E k \in 1..Len(toDart') : Announces(toDart'[k], i))
            => core'[i] = "incoming"
      BY <2>3, <2>5, <2>6, <2>7, <2>8, <3>1 DEF ShownCall
    <3>3. \A k \in 1..Len(toDart') : LastUpdate(k, i)' => ShownAs[toDart'[k].op] \in Shows[core'[i]]
      BY <2>4, <2>5, <3>1 DEF ShownCall
    <3>4. NoUpdate(i)' =>
            \A d \in phone'.calls : d.id = i => phone'.state[d.n] \in Shows[core'[i]]
      BY <2>3, <2>5, <3>1 DEF ShownCall
    <3> QED BY <3>2, <3>3, <3>4
  <2> QED BY <2>9, <2>10, <2>11 DEF ShownCall
<1>5. ASSUME NEW i \in Ids, c[i] # core[i], c[i] \notin {"pausing", "resuming"}
      PROVE  ShownCall(i)'
  <2>1. ShownCall(i)
    BY DEF Shown
  <2>2. /\ c[i] # "none" /\ core[i] # "released"
        /\ c[i] \in {"incoming", "outgoing"} <=> core[i] = "none"
    BY <1>5 DEF Lawful
  <2>3. core[i] = "none" => ~S!IsListed(phone', i) /\ \A k \in 1..n : toDart'[k].id # i
    BY <1>1, <1>3, <2>1 DEF ShownCall
  <2>4. \A k \in 1..Len(r) :
          /\ Announces(r[k], i) => c[i] \in {"incoming", "outgoing"}
          /\ Updates(r[k], i) => c[i] = "released" \/ ShownAs[r[k].op] \in Shows[c[i]]
    BY DEF Told, Announces, Updates
  <2>5. \A k, l \in 1..Len(toDart') : Announces(toDart'[k], i) /\ Updates(toDart'[l], i) => k < l
    <3>1. SUFFICES ASSUME NEW k \in 1..Len(toDart'), NEW l \in 1..Len(toDart'),
                          Announces(toDart'[k], i), Updates(toDart'[l], i)
                   PROVE  k < l
      OBVIOUS
    <3>2. CASE k \in 1..n /\ l \in 1..n
      BY <1>1, <2>1, <3>1, <3>2 DEF ShownCall
    <3>3. CASE k \in 1..n /\ l > n
      BY <1>1, <3>3
    <3>4. CASE k > n
      <4>1. k - n \in 1..Len(r) /\ toDart'[k] = r[k - n]
        BY <1>1, <3>4
      <4>2. core[i] = "none"
        BY <2>2, <2>4, <3>1, <4>1
      <4>3. l > n
        BY <1>2, <2>3, <3>1, <4>2 DEF Updates
      <4>4. l - n \in 1..Len(r) /\ toDart'[l] = r[l - n]
        BY <1>1, <4>3
      <4>5. k - n < l - n
        BY <3>1, <4>1, <4>4 DEF Told
      <4> QED BY <1>1, <4>5
    <3> QED BY <1>2, <3>2, <3>3, <3>4
  <2>6. ASSUME NEW k \in 1..Len(toDart'), LastUpdate(k, i)'
        PROVE  k > n
    <3>1. CASE c[i] = "incoming"
      <4>1. toDart'[k].id = i
        BY <2>6 DEF LastUpdate, Updates
      <4> QED BY <1>2, <2>2, <2>3, <3>1, <4>1
    <3>2. CASE c[i] # "incoming"
      <4>1. PICK l \in 1..Len(r) : Updates(r[l], i)
        BY <1>5, <2>2, <3>2 DEF Told
      <4>2. n + l \in 1..Len(toDart') /\ Updates(toDart'[n + l], i) /\ n + l > n
        BY <1>1, <4>1
      <4>3. ~(n + l > k)
        BY <2>6, <4>2 DEF LastUpdate
      <4> QED BY <1>1, <4>2, <4>3
    <3> QED BY <3>1, <3>2
  <2>7. NoUpdate(i)' => c[i] = "incoming"
    <3>1. SUFFICES ASSUME c[i] # "incoming" PROVE ~NoUpdate(i)'
      OBVIOUS
    <3>2. PICK l \in 1..Len(r) : Updates(r[l], i)
      BY <1>5, <2>2, <3>1 DEF Told
    <3>3. n + l \in 1..Len(toDart') /\ Updates(toDart'[n + l], i)
      BY <1>1, <3>2
    <3> QED BY <3>3 DEF NoUpdate
  <2>8. ASSUME c[i] # "released"
        PROVE  \A k \in 1..Len(toDart') : LastUpdate(k, i)' => ShownAs[toDart'[k].op] \in Shows[c[i]]
    <3>1. SUFFICES ASSUME NEW k \in 1..Len(toDart'), LastUpdate(k, i)'
                   PROVE  ShownAs[toDart'[k].op] \in Shows[c[i]]
      OBVIOUS
    <3>2. k - n \in 1..Len(r) /\ toDart'[k] = r[k - n]
      BY <1>1, <2>6, <3>1
    <3>3. Updates(r[k - n], i)
      BY <3>1, <3>2 DEF LastUpdate
    <3> QED BY <2>4, <2>8, <3>2, <3>3
  <2>9. c[i] = "incoming" => \A d \in phone'.calls : d.id # i
    BY <2>2, <2>3 DEF S!IsListed
  <2> QED BY <2>2, <2>5, <2>7, <2>8, <2>9 DEF ShownCall
<1>6. ASSUME NEW k \in 1..Len(toDart')
      PROVE  toDart'[k].op \in CallAnnouncements \cup DOMAIN ShownAs
  <2>1. CASE k \in 1..n
    BY <1>1, <2>1 DEF Shown
  <2>2. CASE k > n
    <3>1. k - n \in 1..Len(r) /\ toDart'[k] = r[k - n]
      BY <1>1, <2>2
    <3>2. r[k - n] \in Event
      BY <3>1, ElementOfSeq
    <3> QED BY <3>1, <3>2 DEF Told, Event, CallAnnouncements
  <2> QED BY <1>2, <2>1, <2>2
<1>7. P!OneObject(phone')
  BY DEF Shown, P!OneObject
<1> QED BY <1>4, <1>5, <1>6, <1>7 DEF Shown

LEMMA LookupFindsNone ==
  ASSUME NEW p, Linked(p), NEW i \in Ids, ~S!IsListed(p, i)
  PROVE  S!CallByUuid(p, i) = NoCall
<1> DEFINE K == S!KeysWithUuid(p, i)
<1>1. SUFFICES ASSUME K # {} PROVE S!CallByUuid(p, i) = NoCall
  BY DEF S!CallByUuid
<1>2. /\ Len(p.keys) \in Nat /\ DOMAIN p.keys = 1..Len(p.keys)
      /\ \A k \in 1..Len(p.keys) : p.keys[k] \in Ids
  BY LenProperties, ElementOfSeq DEF Linked
<1>3. K \subseteq 1..Len(p.keys) /\ \A k \in K : p.keys[k] = i
  <2>1. \A k \in 1..Len(p.keys) : p.uuid[p.keys[k]] \in {p.keys[k], NoUuid}
    BY <1>2 DEF Linked
  <2> QED BY <1>2, <2>1, AndroidCallsAssumption DEF S!KeysWithUuid
<1>4. \E k \in K : \A l \in K : k <= l
  <2>1. IsFiniteSet(1..Len(p.keys)) /\ 1..Len(p.keys) \subseteq Nat
    BY <1>2, FS_Interval
  <2>2. IsFiniteSet(K) /\ K \subseteq Nat
    <3> HIDE DEF K
    <3> QED BY <1>3, <2>1, FS_Subset
  <2> HIDE DEF K
  <2> QED BY <1>1, <2>2, LeastElement
<1> DEFINE k == CHOOSE k \in K : \A l \in K : k <= l
<1>5. k \in K
  BY <1>4
<1>6. S!CallByUuid(p, i) = S!CallById(p, p.keys[k])
  BY <1>1 DEF S!CallByUuid
<1> HIDE DEF k, K
<1> QED BY <1>3, <1>5, <1>6 DEF S!CallById

(* What the event at the head of the channel does to the list. *)
Delivered(h) ==
  /\ P!Numbered(phone') /\ P!OneObject(phone')
  /\ h.op \in CallAnnouncements =>
       \A d \in phone'.calls :
         \/ d \in phone.calls /\ phone'.state[d.n] = phone.state[d.n]
         \/ d.id = h.id /\ phone'.state[d.n] = "NONE"
  /\ h.op \in DOMAIN ShownAs =>
       \A d \in phone'.calls :
         /\ d \in phone.calls
         /\ phone'.state[d.n] = IF d.id = h.id THEN ShownAs[h.op] ELSE phone.state[d.n]

LEMMA AnnouncementDelivered ==
  ASSUME Typed, Shown, NEW h \in Event, h.op \in CallAnnouncements,
         phone.created < MaxObjects, phone' = Handle(h)
  PROVE  Delivered(h)
<1>1. h.id \in Ids
  BY DEF Event
<1>2. phone' = P!OutgoingInit(phone, h.id, h.id) \/ phone' = P!IncomingReceived(phone, h.id, h.id)
  BY SameArrivals DEF Handle, CallAnnouncements
<1>3. P!Sound(phone) /\ P!Numbered(phone) /\ P!OneObject(phone)
  BY DEF Typed, Shown
<1>4. P!Announced(phone, h.id, phone')
  BY <1>1, <1>2, <1>3, SoftphoneAssumed, NullAssumed, P!AnnouncementSound
<1>5. /\ P!Numbered(phone') /\ phone'.state = phone.state
      /\ \A d \in phone'.calls : d \in phone.calls \/ (d.id = h.id /\ phone'.state[d.n] = "NONE")
  BY <1>1, <1>3, <1>4, SoftphoneAssumed, NullAssumed, P!AnnouncedNumbered
<1>6. P!IsListed(phone, h.id) => phone'.calls = phone.calls
  BY <1>1, <1>2, <1>3, SoftphoneAssumed, NullAssumed, P!AnnouncedAgain
<1>7. P!OneObject(phone')
  BY <1>1, <1>3, <1>4, <1>6, SoftphoneAssumed, NullAssumed, P!AnnouncedOnceListed
<1>8. h.op \notin DOMAIN ShownAs
  BY DEF CallAnnouncements, ShownAs
<1> QED BY <1>5, <1>7, <1>8 DEF Delivered

LEMMA UpdateDelivered ==
  ASSUME Typed, Shown, NEW h \in Event, h.op \in DOMAIN ShownAs, phone' = Handle(h)
  PROVE  Delivered(h)
<1> DEFINE c == S!CallByUuid(phone, h.id)
<1>1. h.id \in Ids /\ h.op \notin CallAnnouncements
  BY DEF Event, CallAnnouncements, ShownAs
<1>2. phone' = IF c = NoCall THEN phone ELSE S!SetLpCallState(phone, c, ShownAs[h.op])
  BY DEF Handle, ShownAs
<1>3. P!Sound(phone) /\ P!Numbered(phone) /\ P!OneObject(phone) /\ Linked(phone)
  BY DEF Typed, Shown, Seen
<1>4. CASE S!IsListed(phone, h.id)
  <2>1. c \in phone.calls /\ c.id = h.id
    BY <1>1, <1>3, <1>4, LookupFindsCall
  <2>2. c # NoCall
    BY <1>3, <2>1, NoCallIsNull DEF Linked
  <2> HIDE DEF c
  <2>3. phone' = P!SetLpCallState(phone, c, ShownAs[h.op])
    BY <1>2, <2>2, SameFocus
  <2>4. ShownAs[h.op] \in P!CallState
    BY DEF ShownAs, P!CallState
  <2>5. /\ P!Numbered(phone') /\ phone'.calls \subseteq phone.calls
        /\ \A d \in phone'.calls :
             phone'.state[d.n] = IF d = c THEN ShownAs[h.op] ELSE phone.state[d.n]
    BY <1>3, <2>1, <2>3, <2>4, SoftphoneAssumed, NullAssumed, P!ToldNumbered
  <2>6. \A d \in phone'.calls : d.id = h.id <=> d = c
    BY <1>3, <2>1, <2>5 DEF P!OneObject
  <2>7. P!OneObject(phone')
    BY <1>3, <2>5 DEF P!OneObject
  <2> QED BY <1>1, <2>5, <2>6, <2>7 DEF Delivered
<1>5. CASE ~S!IsListed(phone, h.id)
  <2>1. phone' = phone
    BY <1>1, <1>2, <1>3, <1>5, LookupFindsNone
  <2> QED BY <1>1, <1>3, <1>5, <2>1 DEF Delivered, S!IsListed
<1> QED BY <1>4, <1>5

LEMMA ShownEvent ==
  ASSUME Typed, Shown, DartEvent
  PROVE  Shown'
<1> DEFINE h == Head(toDart)
           t == Tail(toDart)
<1>1. /\ toDart # <<>> /\ toDart \in Seq(Event) /\ toDart' = t /\ UNCHANGED core
      /\ h.op \in Announcements => phone.created < MaxObjects
  BY DEF DartEvent, Typed, Seen
<1>2. phone' = Handle(h)
  BY DoIs DEF DartEvent
<1>3. /\ h \in Event /\ t \in Seq(Event)
      /\ Len(toDart) \in Nat \ {0} /\ Len(t) = Len(toDart) - 1
      /\ h = toDart[1] /\ \A k \in 1..Len(t) : t[k] = toDart[k + 1]
  <2> HIDE DEF Event
  <2> QED BY <1>1, HeadTailProperties, EmptySeq, LenProperties
<1> HIDE DEF h, t
<1>4. h.op \in CallAnnouncements \cup DOMAIN ShownAs /\ CallAnnouncements \subseteq Announcements
  BY <1>3 DEF Shown, CallAnnouncements, Announcements
<1>5. Delivered(h)
  BY <1>1, <1>2, <1>3, <1>4, AnnouncementDelivered, UpdateDelivered
<1>6. /\ Len(t) \in Nat
      /\ \A k \in 1..Len(t) : k + 1 \in 1..Len(toDart) /\ t[k] = toDart[k + 1]
      /\ \A k \in 1..Len(toDart) : k # 1 => k - 1 \in 1..Len(t) /\ t[k - 1] = toDart[k]
  BY <1>3
<1>7. ASSUME NEW i \in Ids PROVE ShownCall(i)'
  <2>1. ShownCall(i)
    BY DEF Shown
  <2>2. ASSUME core[i] = "none"
        PROVE  ~S!IsListed(phone', i) /\ \A k \in 1..Len(t) : t[k].id # i
    <3>1. ~S!IsListed(phone, i) /\ \A k \in 1..Len(toDart) : toDart[k].id # i
      BY <2>1, <2>2 DEF ShownCall
    <3>2. 1 \in 1..Len(toDart) /\ toDart[1] = h
      BY <1>3
    <3>3. h.id # i /\ \A k \in 1..Len(t) : t[k].id # i
      BY <1>6, <3>1, <3>2
    <3>4. \A d \in phone'.calls : d \in phone.calls \/ d.id = h.id
      BY <1>4, <1>5 DEF Delivered
    <3> QED BY <3>1, <3>3, <3>4 DEF S!IsListed
  <2>3. \A k, l \in 1..Len(t) : Announces(t[k], i) /\ Updates(t[l], i) => k < l
    <3>1. SUFFICES ASSUME NEW k \in 1..Len(t), NEW l \in 1..Len(t),
                          Announces(t[k], i), Updates(t[l], i)
                   PROVE  k < l
      OBVIOUS
    <3>2. k + 1 < l + 1
      BY <1>6, <2>1, <3>1 DEF ShownCall
    <3> QED BY <3>2
  <2>4. ASSUME NEW k \in 1..Len(t), LastUpdate(k, i)'
        PROVE  k + 1 \in 1..Len(toDart) /\ LastUpdate(k + 1, i) /\ t[k] = toDart[k + 1]
    <3>1. Updates(toDart[k + 1], i)
      BY <1>1, <1>6, <2>4 DEF LastUpdate
    <3>2. ASSUME NEW l \in 1..Len(toDart), l > k + 1 PROVE ~Updates(toDart[l], i)
      <4>1. l - 1 \in 1..Len(t) /\ t[l - 1] = toDart[l] /\ l - 1 > k
        BY <1>6, <3>2
      <4> QED BY <1>1, <2>4, <4>1 DEF LastUpdate
    <3> QED BY <1>6, <3>1, <3>2 DEF LastUpdate
  <2>5. NoUpdate(i)' /\ ~Updates(h, i) => NoUpdate(i)
    BY <1>1, <1>3, <1>6 DEF NoUpdate
  <2>6. NoUpdate(i)' /\ Updates(h, i) => LastUpdate(1, i)
    BY <1>1, <1>3, <1>6 DEF NoUpdate, LastUpdate
  <2>7. 1 \in 1..Len(toDart) /\ toDart[1] = h
    BY <1>3
  <2>8. ASSUME core[i] \notin {"none", "released"}, NoUpdate(i)',
               \E k \in 1..Len(t) : Announces(t[k], i)
        PROVE  core[i] = "incoming"
    <3>1. PICK k \in 1..Len(t) : Announces(t[k], i)
      BY <2>8
    <3>2. k + 1 \in 1..Len(toDart) /\ Announces(toDart[k + 1], i) /\ ~(k + 1 < 1)
      BY <1>6, <3>1
    <3>3. ~Updates(h, i)
      BY <2>1, <2>7, <3>2 DEF ShownCall
    <3> QED BY <2>1, <2>5, <2>8, <3>2, <3>3 DEF ShownCall
  <2>9. ASSUME core[i] \notin {"none", "released"}, NEW k \in 1..Len(t), LastUpdate(k, i)'
        PROVE  ShownAs[t[k].op] \in Shows[core[i]]
    BY <2>1, <2>4, <2>9 DEF ShownCall
  <2>10. ASSUME core[i] \notin {"none", "released"}, NoUpdate(i)',
                NEW d \in phone'.calls, d.id = i
         PROVE  phone'.state[d.n] \in Shows[core[i]]
    <3>1. CASE h.id # i
      <4>1. d \in phone.calls /\ phone'.state[d.n] = phone.state[d.n] /\ ~Updates(h, i)
        BY <1>4, <1>5, <2>10, <3>1 DEF Delivered, Updates
      <4> QED BY <2>1, <2>5, <2>10, <4>1 DEF ShownCall
    <3>2. CASE h.id = i /\ h.op \in DOMAIN ShownAs
      <4>1. phone'.state[d.n] = ShownAs[h.op] /\ LastUpdate(1, i)
        BY <1>5, <2>6, <2>10, <3>2 DEF Delivered, Updates
      <4> QED BY <2>1, <2>7, <2>10, <4>1 DEF ShownCall
    <3>3. CASE h.id = i /\ h.op \in CallAnnouncements
      <4>1. NoUpdate(i)
        BY <2>5, <2>10, <3>3 DEF Updates, CallAnnouncements, ShownAs
      <4>2. core[i] = "incoming"
        BY <1>4, <2>1, <2>7, <2>10, <3>3, <4>1 DEF ShownCall, Announces
      <4>3. \/ d \in phone.calls /\ phone'.state[d.n] = phone.state[d.n]
            \/ phone'.state[d.n] = "NONE"
        BY <1>5, <3>3 DEF Delivered
      <4>4. "NONE" \in Shows["incoming"]
        BY DEF Shows
      <4> QED BY <2>1, <2>10, <4>1, <4>2, <4>3, <4>4 DEF ShownCall
    <3> QED BY <1>4, <3>1, <3>2, <3>3
  <2> QED BY <1>1, <2>2, <2>3, <2>8, <2>9, <2>10 DEF ShownCall
<1>8. \A k \in 1..Len(t) : t[k].op \in CallAnnouncements \cup DOMAIN ShownAs
  BY <1>6 DEF Shown
<1> QED BY <1>1, <1>5, <1>7, <1>8 DEF Shown, Delivered

LEMMA ShownNext ==
  ASSUME Typed, Shown, MaxResumes = 0, [Next]_vars
  PROVE  Shown'
<1>1. /\ core \in [Ids -> CoreState] /\ phone.out \in Seq(S!Command)
      /\ listeners \in Nat \ {0} /\ Ids \in SUBSET Ids
  BY DEF Typed, Seen, Linked
<1>2. ASSUME NEW c \in [Ids -> CoreState], React(c), Lawful(c),
             phone'.calls = phone.calls, phone'.state = phone.state, P!Numbered(phone')
      PROVE  Shown'
  <2>1. \E r \in Seq(Event) : toDart' = toDart \o r /\ Told(c, r)
    BY <1>1, <1>2, ReactTells
  <2>2. core' = c
    BY <1>2 DEF React
  <2> QED BY <1>2, <2>1, <2>2, ShownAppended
<1>3. CASE NativeCommand
  <2>1. phone' = [phone EXCEPT !.out = Tail(@)]
    BY <1>3 DEF NativeCommand
  <2>2. /\ phone'.calls = phone.calls /\ phone'.state = phone.state
        /\ phone'.created = phone.created /\ phone'.activeCall = phone.activeCall
    BY <2>1 DEF Typed, P!Sound, P!Phone
  <2>3. P!Numbered(phone')
    BY <2>2 DEF Shown, P!Numbered, P!Known
  <2>4. \E c \in [Ids -> CoreState] : React(c) /\ Lawful(c)
    BY <1>1, <1>3, CommandReacts
  <2> QED BY <1>2, <2>2, <2>3, <2>4
<1>4. ASSUME NEW i \in Ids, Core(i) PROVE Shown'
  <2>1. \E c \in [Ids -> CoreState] : Outside(c) /\ Lawful(c)
    BY <1>1, <1>4, OutsideReacts
  <2> QED BY <1>2, <2>1 DEF Outside, Shown
<1>5. CASE MainActivityRecreated
  <2>1. Terminate(Ids) \in [Ids -> CoreState] /\ Lawful(Terminate(Ids))
    BY <1>1, CoreLawful
  <2> QED BY <1>2, <1>5, <2>1 DEF MainActivityRecreated, Shown
<1>6. CASE User
  BY <1>6, UserKeepsStates, ShownKept DEF User
<1>7. CASE UNCHANGED vars
  <2>1. P!KeepsStates(phone, phone')
    BY <1>7 DEF vars, P!KeepsStates, Typed, Shown
  <2> QED BY <1>7, <2>1, ShownKept DEF vars
<1>8. ~MainActivityResumes
  BY AndroidCallsAssumption DEF MainActivityResumes, Typed
<1> QED BY <1>3, <1>4, <1>5, <1>6, <1>7, <1>8, ShownEvent DEF Next

LEMMA AlwaysShown == Spec => [](Typed /\ (MaxResumes = 0 => Shown))
<1>1. Init => Typed /\ (MaxResumes = 0 => Shown)
  BY TypedInit, ShownInit
<1>2. (Typed /\ (MaxResumes = 0 => Shown)) /\ [Next]_vars
        => (Typed /\ (MaxResumes = 0 => Shown))'
  BY TypedStep, ShownNext
<1> QED BY <1>1, <1>2, PTL DEF Spec

(* While MainActivity does not resume, a call is listed once although      *)
(* every listener left over announces it again: the announcement of a call *)
(* that is listed adds nothing to the list (softphone.dart, _addCall).     *)
THEOREM AndroidListedOnce == Spec => []ListedOnce
<1>1. Typed /\ (MaxResumes = 0 => Shown) => ListedOnce
  BY DEF Shown, P!OneObject, ListedOnce
<1> QED BY <1>1, AlwaysShown, PTL

(* While MainActivity does not resume, a listed call whose events have all *)
(* been handled is shown in the state the core has it in, whatever the     *)
(* order in which commands, taps and what happens outside come.            *)
THEOREM AndroidShowsCurrent == Spec => []ShownStateIsCurrent
<1>1. ASSUME Typed, MaxResumes = 0 => Shown PROVE ShownStateIsCurrent
  <2>1. DOMAIN toDart = 1..Len(toDart)
    BY LenProperties DEF Typed, Seen
  <2>2. \A i : ~Pending(DOMAIN ShownAs, i) => NoUpdate(i)
    BY <2>1 DEF Pending, NoUpdate, Updates
  <2>3. \A c \in phone.calls : c.id \in Ids
    <3>1. phone.calls \in SUBSET S!Call
      BY <1>1 DEF Typed, Seen, Linked
    <3> QED BY <3>1 DEF S!Call
  <2> QED BY <1>1, <2>2, <2>3 DEF ShownStateIsCurrent, Shown, ShownCall, LiveCalls
<1> QED BY <1>1, AlwaysShown, PTL

=============================================================================
