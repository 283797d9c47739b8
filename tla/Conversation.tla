----------------------------- MODULE Conversation -----------------------------
(***************************************************************************)
(* One conversation on the screen: the list that ConversationVM shows, the *)
(* rows of sms_message on the phone, the messages of the server, and the   *)
(* bubble that tells who is typing.                                        *)
(*                                                                         *)
(* Whatever the server sends (the pages of look-ups, the answers to        *)
(* messages, the events of the socket) is in flight until it is handled,   *)
(* in any order, or lost.  A callback acts on the offset and the list of   *)
(* that moment, not on those it was asked for.                             *)
(***************************************************************************)
EXTENDS Integers, FiniteSets, Sequences, SequencesExt

CONSTANTS
  Typists,           \* the coworkers who may be typing
  MaxTypingUsers,    \* names a bubble has room for (3)
  PageSize,          \* messagesLimit (10); a notification asks for twice as many
  Initial,           \* messages the server has when the view opens
  MaxId,             \* bound: the ids of messages
  MaxLookups,        \* bound: look-ups in flight
  MaxRows,           \* bound: rows of the list
  MaxHappened,       \* bound: things users, writers and pushes do to one view
  MaxBubbles         \* bound: bubbles that a timer or the list still refers to

ASSUME ConversationAssumption ==
  /\ {MaxTypingUsers, PageSize, MaxLookups, MaxRows, MaxHappened, MaxBubbles} \subseteq Nat \ {0}
  /\ Initial \in Nat \ {0} /\ MaxId \in Nat /\ Initial <= MaxId

VARIABLES
  server,            \* the messages it has, and the highest id it has given
  phone,             \* the rows of the database and the list, see Phone
  typing,            \* the bubble and the timers of its users, see Typing
  lookups,           \* getMessages calls under way, oldest first
  coming,            \* answers to sent messages, and events of the socket
  happened,          \* how many things have happened, for the bound
  lost               \* history: a look-up was lost since loadingMore was set

vars == <<server, phone, typing, lookups, coming, happened, lost>>

Ids == 1..MaxId

(* A row of the list.  A mistaken one is an unsent message whose status    *)
(* was overwritten by an event about another message.                      *)
Entry == Ids \X {"sent", "unsent", "mistaken"}

Phone ==
  [db : [Ids -> {"none", "kept", "unsent"}],
   last : Ids,                             \* conversation.message
   list : [Entry -> 0..MaxRows], offset : Nat, loadingMore : BOOLEAN]

Bubbles == 1..MaxBubbles
NoBubble == 0

(* usersTimers knows the mapped timers; the others run on without it.      *)
Typing ==
  [bubble : Bubbles \cup {NoBubble}, users : [Bubbles -> SUBSET Typists],
   mapped : [Typists -> Bubbles \cup {NoBubble}], stray : SUBSET (Bubbles \X Typists)]

Lookup == [offset : Nat, limit : Nat, phase : {"reading", "asked", "answered"},
           failed : SUBSET Ids, page : SUBSET Ids]

Rows(S) == [e \in Entry |-> IF e \in S THEN 1 ELSE 0]

RowCount(p) == Cardinality({row \in Entry \X (1..MaxRows) : row[2] <= p.list[row[1]]})

Length(p, t) == RowCount(p) + IF t.bubble = NoBubble THEN 0 ELSE 1

(* Bound. *)
Fits(p) == p.list \in [Entry -> 0..MaxRows] /\ RowCount(p) <= MaxRows

(* limit of ids, newest first, after the first offset of them. *)
Page(ids, offset, limit) ==
  {i \in ids : LET rank == Cardinality({j \in ids : j >= i})
               IN offset < rank /\ rank <= offset + limit}

NewLookup(offset, limit) ==
  [offset |-> offset, limit |-> limit, phase |-> "reading", failed |-> {}, page |-> {}]

Init ==
  /\ server = [has |-> 1..Initial, top |-> Initial]
  /\ \E rows \in SUBSET (1..Initial) :
       phone = [db |-> [i \in Ids |-> IF i \in rows THEN "kept" ELSE "none"],
                last |-> Initial, list |-> Rows({}), offset |-> 0, loadingMore |-> FALSE]
  /\ typing = [bubble |-> NoBubble, users |-> [b \in Bubbles |-> {}],
               mapped |-> [u \in Typists |-> NoBubble], stray |-> {}]
  /\ lookups = <<NewLookup(0, PageSize)>>
  /\ coming = [answers |-> {}, ours |-> {}, others |-> {}]
  /\ happened = 0 /\ lost = FALSE

(* Bound: one more thing happens. *)
Happens == happened < MaxHappened /\ happened' = happened + 1

-----------------------------------------------------------------------------
(* Looking messages up. *)

CanLookup == Len(lookups) < MaxLookups

(* lookupMessages: the offset is cut to the list only after the query has  *)
(* been made with it.                                                      *)
LookUp(p, limit) ==
  LET shown == Length(p, typing)
  IN /\ lookups' = Append(lookups, NewLookup(p.offset, limit))
     /\ phone' = [p EXCEPT !.offset = IF @ > shown THEN shown ELSE @]

(* The callback: at offset 0 the rows replace the list, and the bubble     *)
(* goes with it; else they are added, whatever the list has already.       *)
Show(p, entries) ==
  /\ phone' = [p EXCEPT !.list = [e \in Entry |->
                 Rows(entries)[e] + IF p.offset = 0 THEN 0 ELSE @[e]]]
  /\ Fits(phone')
  /\ typing' = IF p.offset = 0 THEN [typing EXCEPT !.bubble = NoBubble] ELSE typing

(* getPersisted: the database answers its queries in order. *)
Persisted(k) ==
  LET l    == lookups[k]
      rows == Page({i \in Ids : phone.db[i] # "none"}, l.offset, l.limit)
      failed == {i \in rows : phone.db[i] = "unsent"}
  IN /\ l.phase = "reading"
     /\ \A j \in 1..(k - 1) : lookups[j].phase # "reading"
     /\ Show(phone, (failed \X {"unsent"}) \cup ((rows \ failed) \X {"sent"}))
     /\ lookups' = [lookups EXCEPT ![k].phase = "asked", ![k].failed = failed]
     /\ UNCHANGED <<server, coming, happened, lost>>

Serve(k) ==
  LET l == lookups[k]
  IN /\ l.phase = "asked"
     /\ lookups' = [lookups EXCEPT ![k].phase = "answered",
                                   ![k].page = Page(server.has, l.offset, l.limit)]
     /\ UNCHANGED <<server, phone, typing, coming, happened, lost>>

(* The network or the server fails the look-up: no callback is called. *)
LoseLookup(k) ==
  /\ lookups[k].phase # "reading"
  /\ lookups' = RemoveAt(lookups, k)
  /\ lost' = phone.loadingMore
  /\ UNCHANGED <<server, phone, typing, coming, happened>>

(* Slip: only a page that is added ends the loading. *)
FetchedAtTheEnd(k) ==
  LET l == lookups[k]
      stored == [phone EXCEPT !.db = [i \in Ids |-> IF i \in l.page THEN "kept" ELSE @[i]],
                              !.loadingMore = @ /\ phone.offset = 0]
  IN /\ l.phase = "answered"
     /\ Show(stored, (l.page \X {"sent"}) \cup (l.failed \X {"unsent"}))
     /\ lookups' = RemoveAt(lookups, k)
     /\ lost' = FALSE
     /\ UNCHANGED <<server, coming, happened>>

(* The answer of the server is stored, and shown with the messages that    *)
(* were unsent when the database was read.                                 *)
Fetched(k) ==
  LET l == lookups[k]
      stored == [phone EXCEPT !.db = [i \in Ids |-> IF i \in l.page THEN "kept" ELSE @[i]],
                              !.loadingMore = FALSE]
  IN /\ l.phase = "answered"
     /\ Show(stored, (l.page \X {"sent"}) \cup (l.failed \X {"unsent"}))
     /\ lookups' = RemoveAt(lookups, k)
     /\ lost' = FALSE
     /\ UNCHANGED <<server, coming, happened>>

(* Any push notification, of whatever conversation. *)
OnNotificationReceived ==
  /\ Happens /\ CanLookup
  /\ LookUp(phone, 2 * PageSize)
  /\ UNCHANGED <<server, typing, coming, lost>>

(* The list has been scrolled to its end. *)
LoadMore ==
  /\ Happens /\ CanLookup /\ ~phone.loadingMore
  /\ LookUp([phone EXCEPT !.loadingMore = TRUE, !.offset = @ + PageSize], PageSize)
  /\ lost' = FALSE
  /\ UNCHANGED <<server, typing, coming>>

-----------------------------------------------------------------------------
(* Messages. *)

Listed(p, i) == {e \in Entry : e[1] = i /\ p.list[e] > 0}

(* conversationMessages.insert. *)
Insert(p, i) == [p EXCEPT !.list[<<i, "sent">>] = @ + 1]

Accept(i) == server' = [has |-> server.has \cup {i}, top |-> i]

(* Somebody else writes. *)
OtherWrites ==
  LET i == server.top + 1
  IN /\ Happens /\ i \in Ids /\ Accept(i)
     /\ coming' = [coming EXCEPT !.others = @ \cup {i}]
     /\ UNCHANGED <<phone, typing, lookups, lost>>

(* sendMessage, once the server has it.  The phone changes nothing before  *)
(* it is answered.                                                         *)
SendMessage ==
  LET i == server.top + 1
  IN /\ Happens /\ i \in Ids /\ Accept(i)
     /\ coming' = [coming EXCEPT !.answers = @ \cup {i}, !.ours = @ \cup {i}]
     /\ UNCHANGED <<phone, typing, lookups, lost>>

(* Slip: the event may have shown the message already. *)
SendMessageCallbackUnchecked(i) ==
  LET kept == [phone EXCEPT !.db[i] = "kept", !.last = i]
  IN /\ i \in coming.answers
     /\ phone' = Insert(kept, i) /\ Fits(phone')
     /\ coming' = [coming EXCEPT !.answers = @ \ {i}]
     /\ UNCHANGED <<server, typing, lookups, happened, lost>>

(* The answer to a message of this phone. *)
SendMessageCallback(i) ==
  LET kept == [phone EXCEPT !.db[i] = "kept", !.last = i]
  IN /\ i \in coming.answers
     /\ phone' = IF Listed(kept, i) = {} THEN Insert(kept, i) ELSE kept
     /\ Fits(phone')
     /\ coming' = [coming EXCEPT !.answers = @ \ {i}]
     /\ UNCHANGED <<server, typing, lookups, happened, lost>>

(* The event about a new message.  FusionConnection stores what others     *)
(* wrote and notifyMessage makes it the last of the conversation; the view *)
(* refreshes the first row that has the id, or shows what is ours.         *)
UpdateFromWS(i) ==
  LET mine  == i \in coming.ours
      known == IF mine THEN phone ELSE [phone EXCEPT !.db[i] = "kept", !.last = i]
  IN /\ i \in coming.ours \cup coming.others
     /\ IF Listed(known, i) = {}
        THEN phone' = IF mine THEN Insert(known, i) ELSE known
        ELSE \E e \in Listed(known, i) :
               IF e[2] # "unsent" THEN phone' = known
               ELSE phone' = [known EXCEPT !.list[e] = @ - 1,
                                           !.list[<<i, "mistaken">>] = @ + 1]
     /\ Fits(phone')
     /\ coming' = [coming EXCEPT !.ours = @ \ {i}, !.others = @ \ {i}]
     /\ UNCHANGED <<server, typing, lookups, happened, lost>>

(* The network loses the answer to a message or the event about one. *)
LoseMessage(i) ==
  /\ \/ coming' = [coming EXCEPT !.answers = @ \ {i}]
     \/ coming' = [coming EXCEPT !.ours = @ \ {i}, !.others = @ \ {i}]
  /\ coming' # coming
  /\ UNCHANGED <<server, phone, typing, lookups, happened, lost>>

(* offlineMessage: the unsent message takes the id after the last it       *)
(* knows, and with it the row of whatever has that id.  Nothing shows it   *)
(* before the next look-up.                                                *)
OfflineMessage ==
  LET i == phone.last + 1
  IN /\ Happens /\ i \in Ids
     /\ phone' = [phone EXCEPT !.db[i] = "unsent", !.last = i]
     /\ UNCHANGED <<server, typing, lookups, coming, lost>>

(* "Try Again" of an unsent message removes its row and sends nothing. *)
ResendFailedMessage(i) ==
  /\ Happens /\ <<i, "unsent">> \in Listed(phone, i)
  /\ phone' = [phone EXCEPT !.db[i] = "none"]
  /\ UNCHANGED <<server, typing, lookups, coming, lost>>

(* Slip: the row may have left the list while the dialog was open. *)
DeleteMessageLate(e) ==
  /\ Happens /\ phone.db[e[1]] # "none"
  /\ phone' = [phone EXCEPT !.db[e[1]] = "none", !.list[e] = @ - 1]
  /\ \E has \in {server.has, server.has \ {e[1]}} : server' = [server EXCEPT !.has = has]
  /\ UNCHANGED <<typing, lookups, coming, lost>>

(* deleteMessage; the server may never hear of it. *)
DeleteMessage(e) ==
  /\ Happens /\ phone.list[e] > 0
  /\ phone' = [phone EXCEPT !.db[e[1]] = "none", !.list[e] = @ - 1]
  /\ \E has \in {server.has, server.has \ {e[1]}} : server' = [server EXCEPT !.has = has]
  /\ UNCHANGED <<typing, lookups, coming, lost>>

-----------------------------------------------------------------------------
(* Who is typing. *)

Running(t) == t.stray \cup {bu \in Bubbles \X Typists : t.mapped[bu[2]] = bu[1]}

(* Slip: a user who has a timer keeps it. *)
AssignTimerOnce(t, u) == IF t.mapped[u] = NoBubble THEN [t EXCEPT !.mapped[u] = t.bubble] ELSE t

(* The timer of u starts again, for the bubble shown now. *)
AssignTypingStatusTimer(t, u) == [t EXCEPT !.mapped[u] = t.bubble]

WithTyping(t, u) ==
  IF u \in t.users[t.bubble] \/ Cardinality(t.users[t.bubble]) >= MaxTypingUsers THEN t
  ELSE [t EXCEPT !.users[t.bubble] = @ \cup {u}]

(* push_typing_status_v2 about this conversation. *)
TypingStatus(u) ==
  /\ Happens
  /\ \/ /\ typing.bubble # NoBubble
        /\ typing' = AssignTypingStatusTimer(WithTyping(typing, u), u)
     \/ /\ typing.bubble = NoBubble
        /\ \E b \in Bubbles :
             /\ b \notin {bu[1] : bu \in Running(typing)}
             /\ \A c \in 1..(b - 1) : c \in {bu[1] : bu \in Running(typing)}
             /\ typing' = AssignTypingStatusTimer(
                            [typing EXCEPT !.bubble = b, !.users[b] = {u}], u)
  /\ UNCHANGED <<server, phone, lookups, coming, lost>>

(* Ten seconds later: u leaves the bubble of the timer, and with the last  *)
(* user the bubble goes and usersTimers is emptied, though timers run on.  *)
TimerFires(b, u) ==
  /\ <<b, u>> \in Running(typing)
  /\ LET rest  == typing.users[b] \ {u}
         fired == [typing EXCEPT !.users[b] = rest, !.stray = @ \ {<<b, u>>},
                                 !.mapped[u] = IF @ = b THEN NoBubble ELSE @]
     IN typing' = IF typing.users[b] = {} \/ rest # {} THEN fired
                  ELSE [fired EXCEPT !.bubble = IF @ = b THEN NoBubble ELSE @,
                                     !.stray  = Running(fired),
                                     !.mapped = [v \in Typists |-> NoBubble]]
  /\ UNCHANGED <<server, phone, lookups, coming, happened, lost>>

(* deleteMessage of the bubble: the list loses it, its timers run on. *)
DeleteBubble ==
  /\ Happens /\ typing.bubble # NoBubble
  /\ typing' = [typing EXCEPT !.bubble = NoBubble]
  /\ UNCHANGED <<server, phone, lookups, coming, lost>>

-----------------------------------------------------------------------------
Next ==
  \/ \E k \in DOMAIN lookups : Persisted(k) \/ Serve(k) \/ LoseLookup(k) \/ Fetched(k)
  \/ OnNotificationReceived \/ LoadMore
  \/ OtherWrites \/ SendMessage \/ OfflineMessage
  \/ \E i \in Ids : SendMessageCallback(i) \/ UpdateFromWS(i) \/ LoseMessage(i)
                      \/ ResendFailedMessage(i)
  \/ (\E e \in Entry : DeleteMessage(e)) \/ DeleteBubble
  \/ \E u \in Typists : TypingStatus(u)
  \/ \E b \in Bubbles, u \in Typists : TimerFires(b, u)

Spec == Init /\ [][Next]_vars

-----------------------------------------------------------------------------
TypeOK ==
  /\ server \in [has : SUBSET Ids, top : Ids]
  /\ phone \in Phone
  /\ typing \in Typing
  /\ lookups \in Seq(Lookup)
  /\ coming \in [answers : SUBSET Ids, ours : SUBSET Ids, others : SUBSET Ids]
  /\ happened \in 0..MaxHappened /\ lost \in BOOLEAN

(* However the answer to a message, its event and the look-ups cross, a    *)
(* message the server has taken is shown at most once, as long as no older *)
(* page has been loaded.                                                   *)
OnceAtTop == phone.offset = 0 => \A i \in Ids : phone.list[<<i, "sent">>] <= 1

(* The spinner of "load more" turns only while something can end it,       *)
(* unless a look-up was lost since.                                        *)
LoadingIsAsking == phone.loadingMore /\ ~lost => lookups # <<>>

(* Nobody types for ever: each user named by the bubble on the screen has  *)
(* a timer running that will remove him from this very bubble, although    *)
(* lists and timers are dropped while others run on.                       *)
TypingIsTimed ==
  typing.bubble # NoBubble =>
    \A u \in typing.users[typing.bubble] : <<typing.bubble, u>> \in Running(typing)

=============================================================================
