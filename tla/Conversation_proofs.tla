-------------------------- MODULE Conversation_proofs --------------------------
(***************************************************************************)
(* Proofs about Conversation for every set of coworkers and every value of *)
(* the bounds.  The four invariants are inductive together: the type       *)
(* invariant first, the others on top of it.                               *)
(***************************************************************************)
EXTENDS Conversation, TLAPS, FiniteSetTheorems

-----------------------------------------------------------------------------
(* Helpers. *)

(* The bounds are positive. *)
LEMMA Bounds ==
  /\ MaxTypingUsers \in Nat \ {0} /\ PageSize \in Nat \ {0} /\ MaxRows \in Nat \ {0}
  /\ MaxLookups \in Nat \ {0} /\ MaxHappened \in Nat \ {0} /\ MaxBubbles \in Nat \ {0}
  /\ Initial \in Nat \ {0} /\ MaxId \in Nat /\ Initial <= MaxId
BY ConversationAssumption, Z3

(* The rows of a list can be counted. *)
LEMMA RowsAreFinite ==
  ASSUME NEW p
  PROVE  /\ IsFiniteSet({row \in Entry \X (1..MaxRows) : row[2] <= p.list[row[1]]})
         /\ RowCount(p) \in Nat
<1>1. IsFiniteSet(Ids) /\ IsFiniteSet(1..MaxRows)
  BY Bounds, FS_Interval DEF Ids
<1>2. IsFiniteSet({"sent", "unsent", "mistaken"})
  <2>1. IsFiniteSet({}) /\ IsFiniteSet({"sent"})
    BY FS_EmptySet, FS_Singleton
  <2>2. IsFiniteSet({"sent"} \cup {"unsent"}) /\ IsFiniteSet({"mistaken"})
    BY <2>1, FS_Singleton, FS_Union
  <2>3. IsFiniteSet(({"sent"} \cup {"unsent"}) \cup {"mistaken"})
    BY <2>2, FS_Union
  <2> QED BY <2>3
<1>3. IsFiniteSet(Entry)
  BY <1>1, <1>2, FS_Product DEF Entry
<1>4. IsFiniteSet(Entry \X (1..MaxRows))
  BY <1>1, <1>3, FS_Product
<1>5. IsFiniteSet({row \in Entry \X (1..MaxRows) : row[2] <= p.list[row[1]]})
  BY <1>4, FS_Subset
<1> QED BY <1>5, FS_CardinalityType DEF RowCount

(* A list of no rows shows nothing. *)
LEMMA NoRows ==
  ASSUME NEW p \in Phone, RowCount(p) = 0, NEW e \in Entry
  PROVE  p.list[e] = 0
<1>1. {row \in Entry \X (1..MaxRows) : row[2] <= p.list[row[1]]} = {}
  BY RowsAreFinite, FS_EmptySet DEF RowCount
<1>2. p.list[e] \in 0..MaxRows
  BY DEF Phone
<1>3. CASE p.list[e] >= 1
  <2>1. <<e, 1>> \in Entry \X (1..MaxRows)
    BY Bounds
  <2>2. <<e, 1>> \in {row \in Entry \X (1..MaxRows) : row[2] <= p.list[row[1]]}
    BY <2>1, <1>3, <1>2
  <2> QED BY <2>2, <1>1
<1> QED BY <1>2, <1>3, Bounds

(* A row that was inserted or added is an entry for an id. *)
LEMMA EntriesOfIds ==
  ASSUME NEW S \in SUBSET Ids, NEW T \in SUBSET Ids
  PROVE  (S \X {"unsent"}) \cup (T \X {"sent"}) \in SUBSET Entry
BY DEF Entry

(* What a look-up leaves of the phone and of the requests. *)
LEMMA LookUpStarts ==
  ASSUME NEW p \in Phone, NEW limit \in Nat, lookups \in Seq(Lookup), LookUp(p, limit)
  PROVE  /\ lookups' \in Seq(Lookup) /\ lookups' # <<>>
         /\ phone' \in Phone /\ phone'.list = p.list
         /\ phone'.offset = 0 => p.offset = 0 \/ \A e \in Entry : p.list[e] = 0
<1>1. p.offset \in Nat /\ RowCount(p) \in Nat
  BY RowsAreFinite DEF Phone
<1>2. Length(p, typing) \in Nat /\ Length(p, typing) >= RowCount(p)
  BY <1>1 DEF Length
<1>3. NewLookup(p.offset, limit) \in Lookup
  BY <1>1 DEF NewLookup, Lookup
<1>4. lookups' \in Seq(Lookup) /\ lookups' # <<>>
  <2>1. lookups' = Append(lookups, NewLookup(p.offset, limit))
    BY DEF LookUp
  <2> HIDE DEF Lookup
  <2> QED BY <2>1, <1>3
<1>5. phone' = [p EXCEPT !.offset =
                  IF p.offset > Length(p, typing) THEN Length(p, typing) ELSE p.offset]
  BY DEF LookUp
<1>6. phone' \in Phone /\ phone'.list = p.list
  BY <1>5, <1>2 DEF Phone
<1>7. ASSUME phone'.offset = 0, p.offset # 0 PROVE \A e \in Entry : p.list[e] = 0
  <2>1. phone'.offset = IF p.offset > Length(p, typing) THEN Length(p, typing) ELSE p.offset
    BY <1>5 DEF Phone
  <2>2. RowCount(p) = 0
    BY <2>1, <1>1, <1>2, <1>7
  <2> QED BY <2>2, NoRows
<1> QED BY <1>4, <1>6, <1>7

(* What showing rows does to the phone and to the bubble. *)
LEMMA ShowShows ==
  ASSUME NEW p \in Phone, NEW entries \in SUBSET Entry, typing \in Typing, Show(p, entries)
  PROVE  /\ phone' \in Phone
         /\ phone'.offset = p.offset /\ phone'.loadingMore = p.loadingMore
         /\ p.offset = 0 => \A e \in Entry : phone'.list[e] <= 1
         /\ typing' \in Typing
         /\ typing' = typing \/ typing'.bubble = NoBubble
<1>1. phone' = [p EXCEPT !.list = [e \in Entry |->
                  Rows(entries)[e] + IF p.offset = 0 THEN 0 ELSE p.list[e]]]
  BY DEF Show
<1>2. phone'.list \in [Entry -> 0..MaxRows]
  BY DEF Show, Fits
<1>3. /\ phone' \in Phone /\ phone'.offset = p.offset /\ phone'.loadingMore = p.loadingMore
      /\ phone'.list = [e \in Entry |->
                          Rows(entries)[e] + IF p.offset = 0 THEN 0 ELSE p.list[e]]
  BY <1>1, <1>2 DEF Phone
<1>4. ASSUME p.offset = 0, NEW e \in Entry PROVE phone'.list[e] <= 1
  <2>1. Rows(entries)[e] \in {0, 1}
    BY DEF Rows
  <2>2. phone'.list[e] = Rows(entries)[e] + 0
    BY <1>3, <1>4
  <2> QED BY <2>1, <2>2
<1>5. typing' \in Typing /\ (typing' = typing \/ typing'.bubble = NoBubble)
  BY DEF Show, Typing
<1> QED BY <1>3, <1>4, <1>5

-----------------------------------------------------------------------------
(* Type correctness. *)

LEMMA InitTypes == Init => TypeOK
<1> SUFFICES ASSUME Init PROVE TypeOK
  OBVIOUS
<1>1. server \in [has : SUBSET Ids, top : Ids]
  BY Bounds DEF Init, Ids
<1>2. phone \in Phone
  <2>1. PICK rows \in SUBSET (1..Initial) :
          phone = [db |-> [i \in Ids |-> IF i \in rows THEN "kept" ELSE "none"],
                   last |-> Initial, list |-> Rows({}), offset |-> 0, loadingMore |-> FALSE]
    BY DEF Init
  <2>2. Initial \in Ids
    BY Bounds DEF Ids
  <2>3. Rows({}) \in [Entry -> 0..MaxRows]
    BY Bounds DEF Rows
  <2>4. [i \in Ids |-> IF i \in rows THEN "kept" ELSE "none"] \in [Ids -> {"none", "kept", "unsent"}]
    OBVIOUS
  <2> QED BY <2>1, <2>2, <2>3, <2>4 DEF Phone
<1>3. typing \in Typing
  BY DEF Init, Typing
<1>4. lookups \in Seq(Lookup)
  <2>1. NewLookup(0, PageSize) \in Lookup
    BY Bounds DEF NewLookup, Lookup
  <2>2. lookups = <<NewLookup(0, PageSize)>>
    BY DEF Init
  <2> HIDE DEF Lookup
  <2> QED BY <2>1, <2>2
<1>5. /\ coming \in [answers : SUBSET Ids, ours : SUBSET Ids, others : SUBSET Ids]
      /\ happened \in 0..MaxHappened /\ lost \in BOOLEAN
  <2>1. happened = 0 /\ lost = FALSE /\ coming = [answers |-> {}, ours |-> {}, others |-> {}]
    BY DEF Init
  <2>2. 0 \in 0..MaxHappened
    BY Bounds
  <2> QED BY <2>1, <2>2
<1> QED BY <1>1, <1>2, <1>3, <1>4, <1>5 DEF TypeOK

(* The steps of a look-up keep the types. *)
LEMMA LookupTypes ==
  ASSUME TypeOK, NEW k \in DOMAIN lookups,
         Persisted(k) \/ Serve(k) \/ LoseLookup(k) \/ Fetched(k)
  PROVE  TypeOK'
<1> USE DEF TypeOK
<1>1. lookups[k] \in Lookup /\ lookups \in Seq(Lookup) /\ k \in 1..Len(lookups)
  <2> HIDE DEF Lookup
  <2> QED OBVIOUS
<1>2. RemoveAt(lookups, k) \in Seq(Lookup)
  <2> HIDE DEF Lookup
  <2> QED BY <1>1 DEF RemoveAt
<1>3. ASSUME NEW l \in Lookup PROVE [lookups EXCEPT ![k] = l] \in Seq(Lookup)
  <2> HIDE DEF Lookup
  <2> QED BY <1>1, <1>3
<1>4. CASE Persisted(k)
  <2> DEFINE l == lookups[k]
             rows == Page({i \in Ids : phone.db[i] # "none"}, l.offset, l.limit)
             failed == {i \in rows : phone.db[i] = "unsent"}
             asked == [l EXCEPT !.phase = "asked", !.failed = failed]
  <2>1. rows \in SUBSET Ids /\ failed \in SUBSET Ids
    BY DEF Page
  <2>2. asked \in Lookup
    BY <1>1, <2>1 DEF Lookup
  <2>3. lookups' = [lookups EXCEPT ![k] = asked]
    BY <1>4, <1>1 DEF Persisted
  <2>4. (failed \X {"unsent"}) \cup ((rows \ failed) \X {"sent"}) \in SUBSET Entry
    BY <2>1, EntriesOfIds
  <2>5. phone' \in Phone /\ typing' \in Typing
    <3>1. Show(phone, (failed \X {"unsent"}) \cup ((rows \ failed) \X {"sent"}))
      BY <1>4 DEF Persisted
    <3> QED BY <3>1, <2>4, ShowShows
  <2>6. lookups' \in Seq(Lookup)
    BY <2>2, <2>3, <1>3
  <2> QED BY <2>5, <2>6, <1>4 DEF Persisted
<1>5. CASE Serve(k)
  <2> DEFINE l == lookups[k]
             answered == [l EXCEPT !.phase = "answered",
                                   !.page = Page(server.has, l.offset, l.limit)]
  <2>1. Page(server.has, l.offset, l.limit) \in SUBSET Ids
    BY DEF Page
  <2>2. answered \in Lookup
    BY <1>1, <2>1 DEF Lookup
  <2>3. lookups' = [lookups EXCEPT ![k] = answered]
    BY <1>5, <1>1 DEF Serve
  <2>4. lookups' \in Seq(Lookup)
    BY <2>2, <2>3, <1>3
  <2> QED BY <2>4, <1>5 DEF Serve
<1>6. CASE LoseLookup(k)
  BY <1>6, <1>2 DEF LoseLookup, Phone
<1>7. CASE Fetched(k)
  <2> DEFINE l == lookups[k]
             stored == [phone EXCEPT
                          !.db = [i \in Ids |-> IF i \in l.page THEN "kept" ELSE phone.db[i]],
                          !.loadingMore = FALSE]
  <2>1. l.page \in SUBSET Ids /\ l.failed \in SUBSET Ids
    BY <1>1 DEF Lookup
  <2>2. stored \in Phone
    BY DEF Phone
  <2>3. (l.page \X {"sent"}) \cup (l.failed \X {"unsent"}) \in SUBSET Entry
    BY <2>1 DEF Entry
  <2>4. Show(stored, (l.page \X {"sent"}) \cup (l.failed \X {"unsent"}))
    BY <1>7 DEF Fetched
  <2>5. phone' \in Phone /\ typing' \in Typing
    BY <2>2, <2>3, <2>4, ShowShows
  <2> QED BY <2>5, <1>2, <1>7 DEF Fetched
<1> QED BY <1>4, <1>5, <1>6, <1>7

(* So do the other steps on the list. *)
LEMMA MessageTypes ==
  ASSUME TypeOK,
         \/ OnNotificationReceived \/ LoadMore \/ OtherWrites \/ SendMessage \/ OfflineMessage
         \/ \E i \in Ids : SendMessageCallback(i) \/ UpdateFromWS(i) \/ LoseMessage(i)
                             \/ ResendFailedMessage(i)
         \/ \E e \in Entry : DeleteMessage(e)
  PROVE  TypeOK'
<1> USE DEF TypeOK
<1>1. Happens => happened' \in 0..MaxHappened
  BY Bounds DEF Happens
<1>2. CASE OnNotificationReceived
  <2>1. 2 * PageSize \in Nat
    BY Bounds
  <2>2. LookUp(phone, 2 * PageSize)
    BY <1>2 DEF OnNotificationReceived
  <2>3. lookups' \in Seq(Lookup) /\ phone' \in Phone
    BY <2>1, <2>2, LookUpStarts
  <2> QED BY <2>3, <1>1, <1>2 DEF OnNotificationReceived
<1>3. CASE LoadMore
  <2> DEFINE p == [phone EXCEPT !.loadingMore = TRUE, !.offset = phone.offset + PageSize]
  <2>1. p \in Phone /\ PageSize \in Nat
    <3>1. phone.offset + PageSize \in Nat /\ PageSize \in Nat
      BY Bounds DEF Phone
    <3> QED BY <3>1 DEF Phone
  <2>2. LookUp(p, PageSize)
    BY <1>3 DEF LoadMore
  <2>3. lookups' \in Seq(Lookup) /\ phone' \in Phone
    BY <2>1, <2>2, LookUpStarts
  <2> QED BY <2>3, <1>1, <1>3 DEF LoadMore
<1>4. CASE OtherWrites
  <2>1. server' \in [has : SUBSET Ids, top : Ids]
    BY <1>4 DEF OtherWrites, Accept
  <2> QED BY <2>1, <1>1, <1>4 DEF OtherWrites
<1>5. CASE SendMessage
  <2>1. server' \in [has : SUBSET Ids, top : Ids]
    BY <1>5 DEF SendMessage, Accept
  <2> QED BY <2>1, <1>1, <1>5 DEF SendMessage
<1>6. CASE OfflineMessage
  <2>1. phone' \in Phone
    BY <1>6 DEF OfflineMessage, Phone
  <2> QED BY <2>1, <1>1, <1>6 DEF OfflineMessage
<1>7. ASSUME NEW i \in Ids, SendMessageCallback(i) PROVE TypeOK'
  <2> DEFINE kept == [phone EXCEPT !.db[i] = "kept", !.last = i]
  <2>1. phone' = IF Listed(kept, i) = {} THEN Insert(kept, i) ELSE kept
    BY <1>7 DEF SendMessageCallback
  <2>2. phone'.list \in [Entry -> 0..MaxRows]
    BY <1>7 DEF SendMessageCallback, Fits
  <2>3. kept \in Phone
    BY DEF Phone
  <2>4. phone' \in Phone
    BY <2>1, <2>2, <2>3 DEF Phone, Insert
  <2> QED BY <2>4, <1>7 DEF SendMessageCallback
<1>8. ASSUME NEW i \in Ids, UpdateFromWS(i) PROVE TypeOK'
  <2> DEFINE known == IF i \in coming.ours THEN phone
                      ELSE [phone EXCEPT !.db[i] = "kept", !.last = i]
  <2>1. known \in Phone
    BY DEF Phone
  <2>2. phone'.list \in [Entry -> 0..MaxRows]
    BY <1>8 DEF UpdateFromWS, Fits
  <2>3. \/ phone' = Insert(known, i) \/ phone' = known
        \/ \E e \in Entry : phone' = [known EXCEPT !.list[e] = @ - 1,
                                                   !.list[<<i, "mistaken">>] = @ + 1]
    BY <1>8 DEF UpdateFromWS, Listed
  <2>4. phone' \in Phone
    <3>1. CASE phone' = Insert(known, i) \/ phone' = known
      BY <3>1, <2>1, <2>2 DEF Phone, Insert
    <3>2. ASSUME NEW e \in Entry, phone' = [known EXCEPT !.list[e] = @ - 1,
                                                       !.list[<<i, "mistaken">>] = @ + 1]
          PROVE  phone' \in Phone
      BY <3>2, <2>1, <2>2 DEF Phone
    <3> QED BY <3>1, <3>2, <2>3
  <2> QED BY <2>4, <1>8 DEF UpdateFromWS
<1>9. ASSUME NEW i \in Ids, LoseMessage(i) PROVE TypeOK'
  BY <1>9 DEF LoseMessage
<1>10. ASSUME NEW i \in Ids, ResendFailedMessage(i) PROVE TypeOK'
  <2>1. phone' \in Phone
    BY <1>10 DEF ResendFailedMessage, Phone
  <2> QED BY <2>1, <1>1, <1>10 DEF ResendFailedMessage
<1>11. ASSUME NEW e \in Entry, DeleteMessage(e) PROVE TypeOK'
  <2>1. phone.list[e] - 1 \in 0..MaxRows /\ e[1] \in Ids
    <3>1. phone.list[e] \in 0..MaxRows /\ phone.list[e] > 0
      BY <1>11 DEF DeleteMessage, Phone
    <3>2. e[1] \in Ids
      BY DEF Entry
    <3> QED BY <3>1, <3>2, Bounds
  <2>2. phone' = [phone EXCEPT !.db[e[1]] = "none", !.list[e] = phone.list[e] - 1]
    BY <1>11 DEF DeleteMessage
  <2>3. phone' \in Phone
    BY <2>1, <2>2 DEF Phone
  <2>4. server' \in [has : SUBSET Ids, top : Ids]
    <3>1. PICK has \in {server.has, server.has \ {e[1]}} : server' = [server EXCEPT !.has = has]
      BY <1>11 DEF DeleteMessage
    <3>2. has \in SUBSET Ids
      OBVIOUS
    <3> QED BY <3>1, <3>2
  <2> QED BY <2>3, <2>4, <1>1, <1>11 DEF DeleteMessage
<1> QED BY <1>2, <1>3, <1>4, <1>5, <1>6, <1>7, <1>8, <1>9, <1>10, <1>11

(* And the steps of the bubble. *)
LEMMA TypingTypes ==
  ASSUME TypeOK,
         \/ DeleteBubble \/ \E u \in Typists : TypingStatus(u)
         \/ \E b \in Bubbles, u \in Typists : TimerFires(b, u)
  PROVE  TypeOK'
<1> USE DEF TypeOK
<1>1. Happens => happened' \in 0..MaxHappened
  BY Bounds DEF Happens
<1>2. CASE DeleteBubble
  <2>1. typing' \in Typing
    BY <1>2 DEF DeleteBubble, Typing
  <2> QED BY <2>1, <1>1, <1>2 DEF DeleteBubble
<1>3. ASSUME NEW u \in Typists, TypingStatus(u) PROVE TypeOK'
  <2>1. ASSUME NEW t \in Typing, t.bubble \in Bubbles
        PROVE  /\ WithTyping(t, u) \in Typing /\ WithTyping(t, u).bubble = t.bubble
               /\ AssignTypingStatusTimer(t, u) \in Typing
    <3>1. WithTyping(t, u) \in Typing /\ WithTyping(t, u).bubble = t.bubble
      BY <2>1 DEF WithTyping, Typing
    <3>2. AssignTypingStatusTimer(t, u) \in Typing
      BY <2>1 DEF AssignTypingStatusTimer, Typing
    <3> QED BY <3>1, <3>2
  <2>2. CASE typing.bubble # NoBubble
    <3>1. typing.bubble \in Bubbles
      BY <2>2 DEF Typing
    <3>2. typing' = AssignTypingStatusTimer(WithTyping(typing, u), u)
      BY <1>3, <2>2 DEF TypingStatus
    <3>3. typing' \in Typing
      BY <3>1, <3>2, <2>1
    <3> QED BY <3>3, <1>1, <1>3 DEF TypingStatus
  <2>3. CASE typing.bubble = NoBubble
    <3>1. PICK b \in Bubbles : typing' = AssignTypingStatusTimer(
                                 [typing EXCEPT !.bubble = b, !.users[b] = {u}], u)
      BY <1>3, <2>3 DEF TypingStatus
    <3>2. [typing EXCEPT !.bubble = b, !.users[b] = {u}] \in Typing
      BY DEF Typing
    <3>3. [typing EXCEPT !.bubble = b, !.users[b] = {u}].bubble = b
      BY DEF Typing
    <3>4. typing' \in Typing
      BY <3>1, <3>2, <3>3, <2>1
    <3> QED BY <3>4, <1>1, <1>3 DEF TypingStatus
  <2> QED BY <2>2, <2>3
<1>4. ASSUME NEW b \in Bubbles, NEW u \in Typists, TimerFires(b, u) PROVE TypeOK'
  <2> DEFINE rest == typing.users[b] \ {u}
             fired == [typing EXCEPT !.users[b] = rest, !.stray = typing.stray \ {<<b, u>>},
                         !.mapped[u] = IF typing.mapped[u] = b THEN NoBubble ELSE typing.mapped[u]]
             gone == [fired EXCEPT !.bubble = IF fired.bubble = b THEN NoBubble ELSE fired.bubble,
                                   !.stray = Running(fired),
                                   !.mapped = [v \in Typists |-> NoBubble]]
  <2>1. fired \in Typing
    BY DEF Typing
  <2>2. Running(fired) \in SUBSET (Bubbles \X Typists)
    BY <2>1 DEF Running, Typing
  <2>3. gone \in Typing
    <3> HIDE DEF fired
    <3> QED BY <2>1, <2>2 DEF Typing
  <2>4. typing' = fired \/ typing' = gone
    BY <1>4 DEF TimerFires
  <2> QED BY <2>1, <2>3, <2>4, <1>4 DEF TimerFires
<1> QED BY <1>2, <1>3, <1>4

LEMMA TypeStep == TypeOK /\ [Next]_vars => TypeOK'
<1> SUFFICES ASSUME TypeOK, [Next]_vars PROVE TypeOK'
  OBVIOUS
<1>1. CASE UNCHANGED vars
  BY <1>1 DEF TypeOK, vars
<1>2. CASE Next
  BY <1>2, LookupTypes, MessageTypes, TypingTypes DEF Next
<1> QED BY <1>1, <1>2

(* Conversation keeps its types, the counts of rows included. *)
THEOREM ConversationTypes == Spec => []TypeOK
BY InitTypes, TypeStep, PTL DEF Spec

-----------------------------------------------------------------------------
(* The other invariants, one step of Next each. *)

(* Nobody is named without a timer. *)
LEMMA TimedStep ==
  ASSUME TypeOK, TypingIsTimed, [Next]_vars
  PROVE  TypingIsTimed'
<1> USE DEF TypingIsTimed
<1> typing \in Typing
  BY DEF TypeOK
<1>1. CASE UNCHANGED typing
  BY <1>1 DEF Running
<1>2. ASSUME typing'.bubble = NoBubble PROVE TypingIsTimed'
  BY <1>2
<1>3. ASSUME NEW u \in Typists, TypingStatus(u) PROVE TypingIsTimed'
  <2>1. ASSUME NEW t \in Typing, NEW v \in Typists,
               t.bubble \in Bubbles, v \in t.users[t.bubble], v # u => <<t.bubble, v>> \in Running(t)
        PROVE  <<t.bubble, v>> \in Running(AssignTypingStatusTimer(t, u))
    <3>1. AssignTypingStatusTimer(t, u) = [t EXCEPT !.mapped[u] = t.bubble]
      BY DEF AssignTypingStatusTimer
    <3>2. CASE v = u
      BY <3>1, <3>2, <2>1 DEF Running, Typing
    <3>3. CASE v # u
      BY <3>1, <3>3, <2>1 DEF Running, Typing
    <3> QED BY <3>2, <3>3
  <2>2. CASE typing.bubble # NoBubble
    <3> DEFINE t == WithTyping(typing, u)
    <3>1. typing.bubble \in Bubbles
      BY <2>2 DEF Typing
    <3>2. t = typing \/ t = [typing EXCEPT !.users[typing.bubble] = @ \cup {u}]
      BY DEF WithTyping
    <3>3. t \in Typing /\ t.bubble = typing.bubble /\ t.mapped = typing.mapped /\ t.stray = typing.stray
      BY <3>1, <3>2 DEF Typing
    <3>4. t.users[t.bubble] \subseteq typing.users[typing.bubble] \cup {u}
      BY <3>1, <3>2, <3>3 DEF Typing
    <3>5. Running(t) = Running(typing)
      BY <3>3 DEF Running
    <3>6. typing' = AssignTypingStatusTimer(t, u)
      BY <1>3, <2>2 DEF TypingStatus
    <3>7. typing'.bubble = t.bubble /\ typing'.users = t.users
      BY <3>3, <3>6 DEF AssignTypingStatusTimer, Typing
    <3>8. ASSUME NEW v \in t.users[t.bubble] PROVE <<t.bubble, v>> \in Running(typing')
      <4>1. v \in Typists
        BY <3>1, <3>3 DEF Typing
      <4>2. v # u => <<t.bubble, v>> \in Running(t)
        BY <3>3, <3>4, <3>5, <2>2
      <4> QED BY <4>1, <4>2, <2>1, <3>1, <3>3, <3>6
    <3> QED BY <3>7, <3>8
  <2>3. CASE typing.bubble = NoBubble
    <3>1. PICK b \in Bubbles : typing' = AssignTypingStatusTimer(
                                 [typing EXCEPT !.bubble = b, !.users[b] = {u}], u)
      BY <1>3, <2>3 DEF TypingStatus
    <3> DEFINE t == [typing EXCEPT !.bubble = b, !.users[b] = {u}]
    <3>2. t \in Typing /\ t.bubble = b /\ t.users[b] = {u}
      BY DEF Typing
    <3>3. typing'.bubble = b /\ typing'.users = t.users
      BY <3>1, <3>2 DEF AssignTypingStatusTimer, Typing
    <3>4. <<b, u>> \in Running(typing')
      BY <3>1, <3>2, <2>1
    <3> QED BY <3>2, <3>3, <3>4
  <2> QED BY <2>2, <2>3
<1>4. ASSUME NEW b \in Bubbles, NEW u \in Typists, TimerFires(b, u) PROVE TypingIsTimed'
  <2> DEFINE rest == typing.users[b] \ {u}
             fired == [typing EXCEPT !.users[b] = rest, !.stray = typing.stray \ {<<b, u>>},
                         !.mapped[u] = IF typing.mapped[u] = b THEN NoBubble ELSE typing.mapped[u]]
             gone == [fired EXCEPT !.bubble = IF fired.bubble = b THEN NoBubble ELSE fired.bubble,
                                   !.stray = Running(fired),
                                   !.mapped = [v \in Typists |-> NoBubble]]
  <2>1. fired \in Typing /\ fired.bubble = typing.bubble
    BY DEF Typing
  <2>2. ASSUME fired.bubble # NoBubble, NEW v \in fired.users[fired.bubble]
        PROVE  <<fired.bubble, v>> \in Running(fired)
    <3>1. fired.bubble \in Bubbles /\ v \in Typists
      BY <2>1, <2>2 DEF Typing
    <3>2. v \in typing.users[typing.bubble] /\ <<typing.bubble, v>> # <<b, u>>
      BY <2>1, <2>2, <3>1 DEF Typing
    <3>3. <<typing.bubble, v>> \in Running(typing)
      BY <3>2, <2>1, <2>2
    <3>4. CASE <<typing.bubble, v>> \in typing.stray
      <4>1. <<typing.bubble, v>> \in fired.stray
        BY <3>4, <3>2 DEF Typing
      <4> QED BY <4>1, <2>1 DEF Running
    <3>5. CASE typing.mapped[v] = typing.bubble
      <4>1. fired.mapped[v] = typing.bubble
        BY <3>5, <3>1, <3>2 DEF Typing
      <4> QED BY <4>1, <2>1, <3>1 DEF Running
    <3> QED BY <3>3, <3>4, <3>5 DEF Running
  <2>3. CASE typing' = fired
    <3> HIDE DEF fired
    <3> QED BY <2>3, <2>2
  <2>4. CASE typing' = gone
    <3> HIDE DEF fired
    <3>1. gone.users = fired.users /\ gone.stray = Running(fired)
      BY <2>1 DEF Typing
    <3>2. gone.bubble = NoBubble \/ gone.bubble = fired.bubble
      BY <2>1 DEF Typing
    <3>3. Running(fired) \subseteq Running(gone)
      BY <3>1 DEF Running
    <3> HIDE DEF gone
    <3> QED BY <2>4, <2>2, <3>1, <3>2, <3>3
  <2> QED BY <2>3, <2>4, <1>4 DEF TimerFires
<1>6. ASSUME NEW k \in DOMAIN lookups, Persisted(k) \/ Fetched(k) PROVE TypingIsTimed'
  <2>1. typing' = typing \/ typing' = [typing EXCEPT !.bubble = NoBubble]
    BY <1>6 DEF Persisted, Fetched, Show
  <2>2. typing' = typing \/ typing'.bubble = NoBubble
    BY <2>1 DEF Typing
  <2> QED BY <2>2, <1>1, <1>2
<1>7. CASE Next
  <2>1. ASSUME NEW k \in DOMAIN lookups, Serve(k) \/ LoseLookup(k) PROVE TypingIsTimed'
    BY <2>1, <1>1 DEF Serve, LoseLookup
  <2>2. CASE OnNotificationReceived \/ LoadMore \/ OtherWrites \/ SendMessage \/ OfflineMessage
    BY <2>2, <1>1 DEF OnNotificationReceived, LoadMore, OtherWrites, SendMessage, OfflineMessage
  <2>3. ASSUME NEW i \in Ids, \/ SendMessageCallback(i) \/ UpdateFromWS(i) \/ LoseMessage(i)
                              \/ ResendFailedMessage(i)
        PROVE  TypingIsTimed'
    BY <2>3, <1>1 DEF SendMessageCallback, UpdateFromWS, LoseMessage, ResendFailedMessage
  <2>4. ASSUME NEW e \in Entry, DeleteMessage(e) PROVE TypingIsTimed'
    BY <2>4, <1>1 DEF DeleteMessage
  <2>5. CASE DeleteBubble
    BY <2>5, <1>2 DEF DeleteBubble, Typing
  <2> QED BY <1>3, <1>4, <1>6, <1>7, <2>1, <2>2, <2>3, <2>4, <2>5 DEF Next
<1> QED BY <1>1, <1>7 DEF vars

(* A message is shown once at the top of the conversation. *)
LEMMA OnceStep ==
  ASSUME TypeOK, OnceAtTop, [Next]_vars
  PROVE  OnceAtTop'
<1> USE DEF OnceAtTop
<1> phone \in Phone /\ typing \in Typing /\ lookups \in Seq(Lookup)
  BY DEF TypeOK
<1>1. CASE UNCHANGED phone
  BY <1>1
<1>2. ASSUME NEW p \in Phone, p.list = phone.list, p.offset = 0 => phone.offset = 0,
             NEW limit \in Nat, LookUp(p, limit)
      PROVE  OnceAtTop'
  <2>1. /\ phone'.list = p.list
        /\ phone'.offset = 0 => p.offset = 0 \/ \A e \in Entry : p.list[e] = 0
    BY <1>2, LookUpStarts
  <2>2. ASSUME p.offset = 0 PROVE OnceAtTop'
    BY <2>2, <2>1, <1>2
  <2>3. ASSUME \A e \in Entry : p.list[e] = 0 PROVE OnceAtTop'
    <3>1. \A i \in Ids : <<i, "sent">> \in Entry
      BY DEF Entry
    <3>2. \A i \in Ids : phone'.list[<<i, "sent">>] = 0
      BY <3>1, <2>3, <2>1
    <3>3. \A i \in Ids : phone'.list[<<i, "sent">>] <= 1
      <4>1. 0 <= 1
        OBVIOUS
      <4> QED BY <4>1, <3>2, Zenon
    <3> QED BY <3>3
  <2>4. CASE phone'.offset # 0
    BY <2>4
  <2> QED BY <2>1, <2>2, <2>3, <2>4
<1>3. ASSUME NEW p \in Phone, NEW entries \in SUBSET Entry, p.offset = phone.offset,
             Show(p, entries)
      PROVE  OnceAtTop'
  <2>1. phone'.offset = p.offset /\ (p.offset = 0 => \A e \in Entry : phone'.list[e] <= 1)
    BY <1>3, ShowShows
  <2>2. \A i \in Ids : <<i, "sent">> \in Entry
    BY DEF Entry
  <2> QED BY <2>1, <2>2
<1>4. ASSUME NEW k \in DOMAIN lookups, Persisted(k) PROVE OnceAtTop'
  <2> DEFINE l == lookups[k]
             rows == Page({i \in Ids : phone.db[i] # "none"}, l.offset, l.limit)
             failed == {i \in rows : phone.db[i] = "unsent"}
  <2>1. rows \in SUBSET Ids /\ failed \in SUBSET Ids
    BY DEF Page
  <2>2. (failed \X {"unsent"}) \cup ((rows \ failed) \X {"sent"}) \in SUBSET Entry
    BY <2>1, EntriesOfIds
  <2>3. Show(phone, (failed \X {"unsent"}) \cup ((rows \ failed) \X {"sent"}))
    BY <1>4 DEF Persisted
  <2> QED BY <2>2, <2>3, <1>3
<1>5. ASSUME NEW k \in DOMAIN lookups, Fetched(k) PROVE OnceAtTop'
  <2> DEFINE l == lookups[k]
             stored == [phone EXCEPT
                          !.db = [i \in Ids |-> IF i \in l.page THEN "kept" ELSE phone.db[i]],
                          !.loadingMore = FALSE]
  <2>1. lookups[k] \in Lookup
    <3> HIDE DEF Lookup
    <3> QED OBVIOUS
  <2>2. (l.page \X {"sent"}) \cup (l.failed \X {"unsent"}) \in SUBSET Entry
    BY <2>1 DEF Lookup, Entry
  <2>3. stored \in Phone /\ stored.offset = phone.offset
    BY DEF Phone
  <2>4. Show(stored, (l.page \X {"sent"}) \cup (l.failed \X {"unsent"}))
    BY <1>5 DEF Fetched
  <2> QED BY <2>2, <2>3, <2>4, <1>3
<1>6. CASE OnNotificationReceived
  <2>1. 2 * PageSize \in Nat
    BY Bounds
  <2>2. LookUp(phone, 2 * PageSize)
    BY <1>6 DEF OnNotificationReceived
  <2> QED BY <2>1, <2>2, <1>2
<1>7. CASE LoadMore
  <2> DEFINE p == [phone EXCEPT !.loadingMore = TRUE, !.offset = phone.offset + PageSize]
  <2>1. phone.offset + PageSize \in Nat \ {0} /\ PageSize \in Nat
    BY Bounds DEF Phone
  <2>2. p \in Phone /\ p.offset # 0 /\ p.list = phone.list
    BY <2>1 DEF Phone
  <2>3. LookUp(p, PageSize)
    BY <1>7 DEF LoadMore
  <2> HIDE DEF p
  <2> QED BY <2>1, <2>2, <2>3, <1>2
<1>8. CASE OfflineMessage
  <2>1. phone'.list = phone.list /\ phone'.offset = phone.offset
    BY <1>8 DEF OfflineMessage, Phone
  <2> QED BY <2>1
<1>9. ASSUME NEW p \in Phone, p.list = phone.list, p.offset = phone.offset, NEW i \in Ids,
             Listed(p, i) = {}, phone' = Insert(p, i)
      PROVE  OnceAtTop'
  <2>1. p.list[<<i, "sent">>] = 0
    <3>1. <<i, "sent">> \in Entry /\ <<i, "sent">> \notin Listed(p, i)
      BY <1>9 DEF Entry
    <3>2. p.list[<<i, "sent">>] \in 0..MaxRows /\ ~(p.list[<<i, "sent">>] > 0)
      BY <3>1 DEF Listed, Phone
    <3> QED BY <3>2, Bounds
  <2>2. phone'.offset = phone.offset
    BY <1>9 DEF Insert, Phone
  <2>3. ASSUME NEW j \in Ids
        PROVE  phone'.list[<<j, "sent">>] = IF j = i THEN 1 ELSE phone.list[<<j, "sent">>]
    <3>1. <<j, "sent">> \in Entry
      BY DEF Entry
    <3>2. /\ p.list \in [Entry -> 0..MaxRows]
          /\ phone'.list = [p.list EXCEPT ![<<i, "sent">>] = p.list[<<i, "sent">>] + 1]
      BY <1>9 DEF Insert, Phone
    <3>3. <<i, "sent">> \in Entry
      BY DEF Entry
    <3> QED BY <3>1, <3>2, <3>3, <2>1, <1>9
  <2>4. ASSUME phone'.offset = 0, NEW j \in Ids PROVE phone'.list[<<j, "sent">>] <= 1
    <3>1. CASE j = i
      BY <3>1, <2>3
    <3>2. CASE j # i
      <4>1. phone.list[<<j, "sent">>] <= 1
        BY <2>4, <2>2
      <4>2. phone'.list[<<j, "sent">>] = phone.list[<<j, "sent">>]
        BY <3>2, <2>3
      <4> QED BY <4>1, <4>2, Zenon
    <3> QED BY <3>1, <3>2
  <2> QED BY <2>4
<1>10. ASSUME NEW i \in Ids, SendMessageCallback(i) PROVE OnceAtTop'
  <2> DEFINE kept == [phone EXCEPT !.db[i] = "kept", !.last = i]
  <2>1. kept \in Phone /\ kept.list = phone.list /\ kept.offset = phone.offset
    BY DEF Phone
  <2>2. phone' = IF Listed(kept, i) = {} THEN Insert(kept, i) ELSE kept
    BY <1>10 DEF SendMessageCallback
  <2> HIDE DEF kept
  <2> QED BY <2>1, <2>2, <1>9
<1>11. ASSUME NEW i \in Ids, UpdateFromWS(i) PROVE OnceAtTop'
  <2> DEFINE known == IF i \in coming.ours THEN phone
                      ELSE [phone EXCEPT !.db[i] = "kept", !.last = i]
  <2>1. known \in Phone /\ known.list = phone.list /\ known.offset = phone.offset
    BY DEF Phone
  <2>2. \/ Listed(known, i) = {} /\ phone' = Insert(known, i)
        \/ phone' = known
        \/ \E e \in Listed(known, i) :
             e[2] = "unsent" /\ phone' = [known EXCEPT !.list[e] = @ - 1,
                                                       !.list[<<i, "mistaken">>] = @ + 1]
    BY <1>11 DEF UpdateFromWS
  <2>3. ASSUME NEW e \in Listed(known, i), e[2] = "unsent",
               phone' = [known EXCEPT !.list[e] = @ - 1, !.list[<<i, "mistaken">>] = @ + 1]
        PROVE  OnceAtTop'
    <3>1. phone'.offset = phone.offset
      BY <2>1, <2>3 DEF Phone
    <3>2. ASSUME NEW j \in Ids PROVE phone'.list[<<j, "sent">>] = phone.list[<<j, "sent">>]
      <4>1. <<j, "sent">> \in Entry /\ <<j, "sent">> # e /\ <<j, "sent">> # <<i, "mistaken">>
        BY <2>3 DEF Entry
      <4> HIDE DEF known
      <4> QED BY <4>1, <2>1, <2>3 DEF Phone
    <3> QED BY <3>1, <3>2
  <2> HIDE DEF known
  <2> QED BY <2>1, <2>2, <2>3, <1>9
<1>12. ASSUME NEW i \in Ids, ResendFailedMessage(i) PROVE OnceAtTop'
  <2>1. phone'.list = phone.list /\ phone'.offset = phone.offset
    BY <1>12 DEF ResendFailedMessage, Phone
  <2> QED BY <2>1
<1>13. ASSUME NEW e \in Entry, DeleteMessage(e) PROVE OnceAtTop'
  <2>1. phone' = [phone EXCEPT !.db[e[1]] = "none", !.list[e] = phone.list[e] - 1]
    BY <1>13 DEF DeleteMessage
  <2>2. phone'.offset = phone.offset
    BY <2>1 DEF Phone
  <2>3. ASSUME NEW j \in Ids, phone.list[<<j, "sent">>] <= 1
        PROVE  phone'.list[<<j, "sent">>] <= 1
    <3>1. <<j, "sent">> \in Entry
      BY DEF Entry
    <3>2. phone.list[<<j, "sent">>] \in 0..MaxRows
      BY <3>1 DEF Phone
    <3>3. phone'.list = [phone.list EXCEPT ![e] = phone.list[e] - 1] /\ phone.list \in [Entry -> 0..MaxRows]
      BY <2>1 DEF Phone
    <3>4. phone'.list[<<j, "sent">>] =
            IF <<j, "sent">> = e THEN phone.list[<<j, "sent">>] - 1 ELSE phone.list[<<j, "sent">>]
      BY <3>1, <3>3
    <3> HIDE <2>1
    <3> QED BY <3>2, <3>4, <2>3, Bounds
  <2> QED BY <2>2, <2>3
<1>14. CASE Next
  <2>1. ASSUME NEW k \in DOMAIN lookups, Serve(k) \/ LoseLookup(k) PROVE OnceAtTop'
    BY <2>1, <1>1 DEF Serve, LoseLookup
  <2>2. CASE OtherWrites \/ SendMessage \/ DeleteBubble
    BY <2>2, <1>1 DEF OtherWrites, SendMessage, DeleteBubble
  <2>3. ASSUME NEW i \in Ids, LoseMessage(i) PROVE OnceAtTop'
    BY <2>3, <1>1 DEF LoseMessage
  <2>4. ASSUME NEW u \in Typists, TypingStatus(u) \/ \E b \in Bubbles : TimerFires(b, u)
        PROVE  OnceAtTop'
    BY <2>4, <1>1 DEF TypingStatus, TimerFires
  <2> QED BY <1>4, <1>5, <1>6, <1>7, <1>8, <1>10, <1>11, <1>12, <1>13, <1>14,
             <2>1, <2>2, <2>3, <2>4 DEF Next
<1> QED BY <1>1, <1>14 DEF vars

(* The spinner turns only while something is asked. *)
LEMMA LoadingStep ==
  ASSUME TypeOK, LoadingIsAsking, [Next]_vars
  PROVE  LoadingIsAsking'
<1> USE DEF LoadingIsAsking
<1> phone \in Phone /\ typing \in Typing /\ lookups \in Seq(Lookup)
  BY DEF TypeOK
<1>1. CASE phone'.loadingMore = phone.loadingMore /\ lost' = lost
           /\ (lookups' = <<>> => lookups = <<>>)
  BY <1>1
<1>2. ASSUME NEW k \in DOMAIN lookups, NEW l, lookups' = [lookups EXCEPT ![k] = l]
      PROVE  lookups' # <<>>
  BY <1>2
<1>3. ASSUME NEW k \in DOMAIN lookups, Persisted(k) \/ Serve(k) PROVE LoadingIsAsking'
  BY <1>3, <1>2 DEF Persisted, Serve
<1>4. ASSUME NEW k \in DOMAIN lookups, LoseLookup(k) PROVE LoadingIsAsking'
  BY <1>4 DEF LoseLookup
<1>5. ASSUME NEW k \in DOMAIN lookups, Fetched(k) PROVE LoadingIsAsking'
  <2>1. phone'.loadingMore = FALSE
    BY <1>5 DEF Fetched, Show, Phone
  <2> QED BY <2>1
<1>6. CASE OnNotificationReceived \/ LoadMore
  <2>1. lookups' # <<>>
    <3>1. PICK l : lookups' = Append(lookups, l)
      BY <1>6 DEF OnNotificationReceived, LoadMore, LookUp
    <3> QED BY <3>1
  <2> QED BY <2>1
<1>7. CASE OtherWrites \/ SendMessage \/ OfflineMessage \/ DeleteBubble
  BY <1>7, <1>1 DEF OtherWrites, SendMessage, OfflineMessage, DeleteBubble, Phone
<1>8. ASSUME NEW i \in Ids, \/ SendMessageCallback(i) \/ UpdateFromWS(i) \/ LoseMessage(i)
                            \/ ResendFailedMessage(i)
      PROVE  LoadingIsAsking'
  <2>1. phone'.loadingMore = phone.loadingMore
    <3>1. CASE SendMessageCallback(i)
      BY <3>1 DEF SendMessageCallback, Insert, Phone
    <3>2. CASE UpdateFromWS(i)
      <4> DEFINE known == IF i \in coming.ours THEN phone
                          ELSE [phone EXCEPT !.db[i] = "kept", !.last = i]
      <4>1. known \in Phone /\ known.loadingMore = phone.loadingMore
        BY DEF Phone
      <4>2. \/ phone' = Insert(known, i) \/ phone' = known
            \/ \E e \in Entry : phone' = [known EXCEPT !.list[e] = @ - 1,
                                                       !.list[<<i, "mistaken">>] = @ + 1]
        BY <3>2 DEF UpdateFromWS, Listed
      <4> HIDE DEF known
      <4> QED BY <4>1, <4>2 DEF Insert, Phone
    <3>3. CASE LoseMessage(i) \/ ResendFailedMessage(i)
      BY <3>3 DEF LoseMessage, ResendFailedMessage, Phone
    <3> QED BY <3>1, <3>2, <3>3, <1>8
  <2>2. lookups' = lookups /\ lost' = lost
    BY <1>8 DEF SendMessageCallback, UpdateFromWS, LoseMessage, ResendFailedMessage
  <2> QED BY <2>1, <2>2, <1>1
<1>9. ASSUME NEW e \in Entry, DeleteMessage(e) PROVE LoadingIsAsking'
  BY <1>9, <1>1 DEF DeleteMessage, Phone
<1>10. ASSUME NEW u \in Typists, TypingStatus(u) \/ \E b \in Bubbles : TimerFires(b, u)
       PROVE  LoadingIsAsking'
  BY <1>10, <1>1 DEF TypingStatus, TimerFires
<1> QED BY <1>1, <1>3, <1>4, <1>5, <1>6, <1>7, <1>8, <1>9, <1>10 DEF vars, Next

-----------------------------------------------------------------------------
LEMMA InitInvariants ==
  ASSUME Init
  PROVE  TypingIsTimed /\ OnceAtTop /\ LoadingIsAsking
<1>1. typing.bubble = NoBubble
  BY DEF Init
<1>2. phone.list = Rows({}) /\ phone.loadingMore = FALSE
  <2>1. PICK rows \in SUBSET (1..Initial) :
          phone = [db |-> [i \in Ids |-> IF i \in rows THEN "kept" ELSE "none"],
                   last |-> Initial, list |-> Rows({}), offset |-> 0, loadingMore |-> FALSE]
    BY DEF Init
  <2> QED BY <2>1
<1>3. \A i \in Ids : phone.list[<<i, "sent">>] = 0
  BY <1>2 DEF Rows, Entry
<1> QED BY <1>1, <1>2, <1>3 DEF TypingIsTimed, OnceAtTop, LoadingIsAsking

(* Each user named by the bubble has a timer that removes him from it. *)
THEOREM ConversationTypingIsTimed == Spec => []TypingIsTimed
<1>1. Init => TypeOK /\ TypingIsTimed
  BY InitTypes, InitInvariants
<1>2. TypeOK /\ TypingIsTimed /\ [Next]_vars => (TypeOK /\ TypingIsTimed)'
  BY TypeStep, TimedStep
<1> QED BY <1>1, <1>2, PTL DEF Spec

(* A message the server has is shown at most once at the top. *)
THEOREM ConversationOnceAtTop == Spec => []OnceAtTop
<1>1. Init => TypeOK /\ OnceAtTop
  BY InitTypes, InitInvariants
<1>2. TypeOK /\ OnceAtTop /\ [Next]_vars => (TypeOK /\ OnceAtTop)'
  BY TypeStep, OnceStep
<1> QED BY <1>1, <1>2, PTL DEF Spec

(* The spinner of "load more" turns only while a look-up is under way. *)
THEOREM ConversationLoadingIsAsking == Spec => []LoadingIsAsking
<1>1. Init => TypeOK /\ LoadingIsAsking
  BY InitTypes, InitInvariants
<1>2. TypeOK /\ LoadingIsAsking /\ [Next]_vars => (TypeOK /\ LoadingIsAsking)'
  BY TypeStep, LoadingStep
<1> QED BY <1>1, <1>2, PTL DEF Spec

=============================================================================
