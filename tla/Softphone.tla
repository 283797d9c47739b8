------------------------------ MODULE Softphone ------------------------------
(***************************************************************************)
(* The Dart class Softphone (lib/src/backend/softphone.dart): the list of  *)
(* calls, the one call that has the user's focus, and the commands sent    *)
(* over the method channel to the native SIP stack.                        *)
(*                                                                         *)
(* Every method is an operator from a Softphone state to the next one, so  *)
(* that a method which calls another one is their composition; the class   *)
(* runs on one isolate and the methods modelled here never await, so a     *)
(* handler is one step.  Actions apply a handler to the state.             *)
(***************************************************************************)
EXTENDS Naturals, Sequences, FiniteSets

CONSTANTS
  Ids,               \* SIP call ids
  Uuids,             \* uuids by which native code and the telephony UI name calls
  NativeUuid,        \* the uuid native code derives from a call id
  Android,           \* TRUE on Android, FALSE on iOS (dart:io Platform)
  ForceDisposition,  \* user setting forceDispositionEnabled
  MaxObjects,        \* bound: LnCall objects kept over a behaviour
  MaxPending,        \* bound: a handler runs only while fewer commands wait;
                     \* 0 where no native side is modelled to take them
  NoCall,            \* Dart null, for a call
  NoUuid             \* no uuid recorded yet

ASSUME SoftphoneAssumption ==
  /\ NativeUuid \in [Ids -> Uuids]
  /\ Android \in BOOLEAN /\ ForceDisposition \in BOOLEAN
  /\ MaxObjects \in Nat /\ MaxPending \in Nat
  /\ NoUuid \notin Uuids
  /\ IsFiniteSet(Ids)

VARIABLE phone      \* the fields of the Softphone object, see Phone below

(* The values of CallStateEnum that the call events lead to; ENDED is also *)
(* FAILED, which differs only in a toast.                                  *)
CallState == {"NONE", "PROGRESS", "CONFIRMED", "STREAM", "HOLD", "ENDED"}

(* An LnCall object: n is its identity and its place in the list, since    *)
(* objects are numbered as they are created and the list only appends.     *)
Call == [id : Ids, n : 1..MaxObjects, direction : {"INCOMING", "OUTGOING"}]

ASSUME NoCallIsNull == NoCall \notin Call

(* Methods invoked on the channel; "lpHold" and "lpResume" are lpSetHold   *)
(* with true and false.  One message names every call its loop names.      *)
Command ==
  [op : {"lpStartCall", "lpAnswer", "lpEndCall", "lpHold", "lpResume",
         "lpMuteCall", "lpUnmuteCall", "lpRefer", "lpAssistedTransfer",
         "reportOutgoingCall", "reportConnectedOutgoingCall", "answerCall",
         "endCall", "setHold", "setUnhold", "muteCall", "unMuteCall"},
   to : SUBSET Uuids]

Phone ==
  [calls                : SUBSET Call,        \* calls[0] is the lowest n
   activeCall           : Call \cup {NoCall},
   created              : 0..MaxObjects,
   state                : [1..MaxObjects -> CallState],  \* LnCall.state
   keys                 : Seq(Ids),           \* keys of callData, oldest first
   uuid                 : [Ids -> Uuids \cup {NoUuid}],  \* callData[id]['uuid']
   answerTime           : SUBSET Ids,         \* ids whose answerTime is set
   muted                : SUBSET Ids,
   isReported           : SUBSET Ids,
   callIdsAnswered      : SUBSET Uuids,
   endedCalls           : [Ids -> Nat],       \* copies of a call in endedCalls
   assistedTransferInit : BOOLEAN,
   out                  : Seq(Command)]       \* method channel towards native

InitPhone ==
  [calls |-> {}, activeCall |-> NoCall, created |-> 0,
   state |-> [n \in 1..MaxObjects |-> "NONE"],
   keys |-> <<>>, uuid |-> [i \in Ids |-> NoUuid],
   answerTime |-> {}, muted |-> {}, isReported |-> {}, callIdsAnswered |-> {},
   endedCalls |-> [i \in Ids |-> 0], assistedTransferInit |-> FALSE,
   out |-> <<>>]

-----------------------------------------------------------------------------
(* Looking calls up. *)

Oldest(cs) == CHOOSE c \in cs : \A d \in cs : c.n <= d.n

IsListed(p, i) == \E c \in p.calls : c.id = i

CallById(p, i) ==
  IF IsListed(p, i) THEN Oldest({c \in p.calls : c.id = i}) ELSE NoCall

(* The first entry of callData with the uuid decides, even when its call   *)
(* is gone and a later entry has the same uuid.                            *)
KeysWithUuid(p, u) == {k \in DOMAIN p.keys : p.uuid[p.keys[k]] = u}

CallByUuid(p, u) ==
  IF KeysWithUuid(p, u) = {} THEN NoCall
  ELSE CallById(p, p.keys[CHOOSE k \in KeysWithUuid(p, u) :
                             \A l \in KeysWithUuid(p, u) : k <= l])

IsConnected(p, c) == c.id \in p.answerTime

-----------------------------------------------------------------------------
(* Commands.  A call is named by the uuid its object was created with      *)
(* (LnCall.uuid) or by the one callData holds now (_uuidFor).              *)

Send(p, cmds) == [p EXCEPT !.out = @ \o cmds]

Cmd(o, us) == [op |-> o, to |-> us]

OwnUuids(cs) == {NativeUuid[c.id] : c \in cs}

DataUuids(p, cs) == {p.uuid[c.id] : c \in cs} \ {NoUuid}

OnAndroid(cmds) == IF Android THEN cmds ELSE <<>>

HoldCalls(p, cs) ==
  IF cs = {} THEN p
  ELSE Send(p, OnAndroid(<<Cmd("lpHold", DataUuids(p, cs))>>)
               \o <<Cmd("lpHold", OwnUuids(cs)), Cmd("setHold", DataUuids(p, cs))>>)

UnholdCall(p, c) ==
  Send(p, OnAndroid(<<Cmd("lpResume", DataUuids(p, {c}))>>)
          \o <<Cmd("lpResume", OwnUuids({c})), Cmd("setUnhold", DataUuids(p, {c}))>>)

SetHold(p, c, hold, fromUi) ==
  CASE fromUi /\ hold  -> HoldCalls(p, {c})
    [] fromUi /\ ~hold -> UnholdCall(p, c)
    [] OTHER -> Send(p, <<Cmd(IF hold THEN "lpHold" ELSE "lpResume", OwnUuids({c}))>>)

SetMute(p, c, mute, fromUi) ==
  LET q == Send([p EXCEPT !.muted = IF mute THEN @ \cup {c.id} ELSE @ \ {c.id}],
                <<Cmd(IF mute THEN "lpMuteCall" ELSE "lpUnmuteCall", OwnUuids({c}))>>)
  IN IF fromUi
     THEN Send(q, <<Cmd(IF mute THEN "muteCall" ELSE "unMuteCall", DataUuids(q, {c}))>>)
     ELSE q

-----------------------------------------------------------------------------
(* Focus.  The calls held are all those with another id; the muted flag of *)
(* the call is left alone although the microphone is unmuted.              *)

ReportOutgoing(p, c) ==
  IF ~Android /\ c.direction = "OUTGOING" /\ c.id \notin p.isReported
  THEN Send([p EXCEPT !.isReported = @ \cup {c.id}],
            <<Cmd("reportOutgoingCall", DataUuids(p, {c}))>>)
  ELSE p

(* Slip: the calls that lose the focus go on. *)
MakeActiveCallHoldingNone(p, c) ==
  UnholdCall(Send(ReportOutgoing([p EXCEPT !.activeCall = c], c),
                  <<Cmd("lpUnmuteCall", OwnUuids({c}))>>), c)

MakeActiveCall(p, c) ==
  LET q == ReportOutgoing([p EXCEPT !.activeCall = c], c)
      r == HoldCalls(q, {d \in p.calls : d.id # c.id})
  IN UnholdCall(Send(r, <<Cmd("lpUnmuteCall", OwnUuids({c}))>>), c)

(* Slip: callData is addressed by the uuid, not by the id of the call. *)
AnswerCallByUuid(p, c) ==
  [MakeActiveCall(Send(p, <<Cmd("lpAnswer", OwnUuids({c}))>>), c)
     EXCEPT !.answerTime = @ \cup {p.uuid[c.id]}]

AnswerCall(p, c) ==
  IF IsConnected(p, c) THEN p
  ELSE LET q == Send([p EXCEPT !.callIdsAnswered = @ \ {p.uuid[c.id]}],
                     <<Cmd("lpAnswer", OwnUuids({c}))>>)
           r == [MakeActiveCall(q, c) EXCEPT !.answerTime = @ \cup {c.id}]
       IN IF Android THEN r ELSE Send(r, <<Cmd("answerCall", DataUuids(r, {c}))>>)

-----------------------------------------------------------------------------
(* Removing a call: every object with its id leaves the list; if calls     *)
(* remain, the oldest takes the focus, whether or not the removed call had *)
(* it, and the removed call is driven to CONFIRMED, which dates its answer.*)

(* Slip: a removed call is taken off the screen only. *)
EndCommandsNone(p, c) == <<>>

EndCommands(p, c) ==
  IF Android THEN <<Cmd("lpEndCall", DataUuids(p, {c}))>>
  ELSE <<Cmd("lpEndCall", DataUuids(p, {c})), Cmd("endCall", DataUuids(p, {c}))>>

(* Slip: only the one object leaves the list. *)
UnlistOne(p, c) ==
  [p EXCEPT !.calls = @ \ {c}, !.activeCall = IF @ = c THEN NoCall ELSE @]

(* Slip: the call that ends keeps the focus. *)
UnlistKeepingFocus(p, c) ==
  [p EXCEPT !.calls = {d \in @ : d.id # c.id}]

(* Slip: the user is asked whether or not the call was answered. *)
UnlistAskingAlways(p, c) ==
  [p EXCEPT !.calls = {d \in @ : d.id # c.id},
            !.activeCall = IF @ = c THEN NoCall ELSE @,
            !.endedCalls[c.id] = IF ForceDisposition THEN @ + 1 ELSE @]

(* Slip: only the active call leaves the list. *)
UnlistActiveOnly(p, c) ==
  [p EXCEPT !.calls = IF p.activeCall = c THEN @ \ {c} ELSE @,
            !.activeCall = IF @ = c THEN NoCall ELSE @,
            !.endedCalls[c.id] = IF IsConnected(p, c) /\ ForceDisposition THEN @ + 1 ELSE @]

Unlist(p, c) ==
  LET gone == {d \in p.calls : d.id = c.id}
  IN [p EXCEPT
        !.calls = @ \ gone,
        !.activeCall = IF @ = c THEN NoCall ELSE @,
        !.endedCalls[c.id] = IF IsConnected(p, c) /\ ForceDisposition
                             THEN @ + Cardinality(gone) ELSE @]

Refocus(p, c) ==
  LET newActive == Oldest(p.calls)
      q == Send(MakeActiveCall(p, newActive),
                <<Cmd("lpResume", OwnUuids({newActive})),
                  Cmd("lpResume", DataUuids(p, {c})),
                  Cmd("setUnhold", DataUuids(p, {c}))>>)
  IN [q EXCEPT !.state[c.n] = "CONFIRMED", !.answerTime = @ \cup {c.id}]

(* Slip: nobody takes the focus of a call that is gone. *)
RemoveCallOnly(p, c) ==
  [Unlist(Send(p, EndCommands(p, c)), c) EXCEPT !.assistedTransferInit = FALSE]

RemoveCall(p, c) ==
  LET q == Unlist(Send(p, EndCommands(p, c)), c)
      r == IF q.calls = {} THEN q ELSE Refocus(q, c)
  IN [r EXCEPT !.assistedTransferInit = FALSE]

HangUp(p, c) == RemoveCall(Send(p, <<Cmd("lpEndCall", OwnUuids({c}))>>), c)

Transfer(p, c) == RemoveCall(Send(p, <<Cmd("lpRefer", OwnUuids({c}))>>), c)

CompleteAssistedTransfer(p, originalCall, toCall) ==
  LET q == Send([p EXCEPT !.assistedTransferInit = FALSE],
                <<Cmd("lpAssistedTransfer", DataUuids(p, {originalCall, toCall}))>>)
  IN RemoveCall(RemoveCall(q, originalCall), toCall)

(* Slip: a call that ends stays in the list. *)
SetLpCallStateOnly(p, c, s) == [p EXCEPT !.state[c.n] = s]

(* _setLpCallState and the callStateChanged it ends in. *)
SetLpCallState(p, c, s) ==
  LET q == [p EXCEPT !.state[c.n] = s]
  IN CASE s = "ENDED" -> RemoveCall(q, c)
       [] s = "CONFIRMED" -> [q EXCEPT !.answerTime = @ \cup {c.id}]
       [] s = "STREAM" /\ ~Android /\ c.direction = "OUTGOING" ->
            Send(q, <<Cmd("reportConnectedOutgoingCall", DataUuids(q, {c}))>>)
       [] OTHER -> q

-----------------------------------------------------------------------------
(* Adding a call.  Each announcement builds a new LnCall object; it is     *)
(* counted only if something still refers to it afterwards.                *)

NewCall(p, i, dir) == [id |-> i, n |-> p.created + 1, direction |-> dir]

Keep(p, c) ==
  IF c \in p.calls \/ p.activeCall = c THEN [p EXCEPT !.created = c.n] ELSE p

LinkLnCallWithUuid(p, i, u) ==
  [p EXCEPT !.uuid[i] = u,
            !.keys = IF \E k \in DOMAIN @ : @[k] = i THEN @ ELSE Append(@, i)]

(* Slip: whatever arrives takes the focus. *)
AddCallActive(p, c) ==
  IF IsListed(p, c.id) THEN p ELSE MakeActiveCall([p EXCEPT !.calls = @ \cup {c}], c)

(* Slip: a call announced again is listed again. *)
AddCallAgain(p, c) ==
  LET q == [p EXCEPT !.calls = @ \cup {c}]
  IN IF p.activeCall = NoCall \/ c.direction = "OUTGOING" THEN MakeActiveCall(q, c) ELSE q

(* Slip: a call that arrives during another one is not listed. *)
AddCallWhenIdle(p, c) ==
  IF p.activeCall = NoCall THEN MakeActiveCall([p EXCEPT !.calls = @ \cup {c}], c) ELSE p

AddCall(p, c) ==
  LET q == [p EXCEPT !.calls = @ \cup {c}]
      r == IF IsListed(p, c.id) THEN p
           ELSE IF p.activeCall = NoCall \/ c.direction = "OUTGOING"
                THEN MakeActiveCall(q, c) ELSE q
  IN IF r.uuid[c.id] \in r.callIdsAnswered THEN AnswerCall(r, c) ELSE r

OutgoingInit(p, i, u) ==
  LET c == NewCall(p, i, "OUTGOING")
  IN Keep(AddCall(LinkLnCallWithUuid(p, i, u), c), c)

IncomingReceived(p, i, u) ==
  LET c == NewCall(p, i, "INCOMING")
  IN Keep(AddCall(LinkLnCallWithUuid(p, i, u), c), c)

AnsweredFromNotification(p, i, u) ==
  LET c == NewCall(p, i, "INCOMING")
  IN IF Android
     THEN Keep(AnswerCall(AddCall(LinkLnCallWithUuid(p, i, u), c), c), c)
     ELSE p

(* Unlike AddCall this does not ask whether the call is already listed. *)
AnsweredWhileOnCall(p, i, u) ==
  LET c == NewCall(p, i, "INCOMING")
      q == [LinkLnCallWithUuid(p, i, u) EXCEPT !.calls = @ \cup {c}]
      r == IF q.activeCall = NoCall THEN MakeActiveCall(q, c) ELSE q
  IN IF Android
     THEN Keep(Send([r EXCEPT !.answerTime = @ \cup {i}], <<Cmd("lpHold", OwnUuids({c}))>>), c)
     ELSE p

-----------------------------------------------------------------------------
(* Buttons of the system's own call screen (CallKit).  An answer for a     *)
(* uuid nobody knows is taken to be for the active call while that call is *)
(* still in progress; with no active call the handler throws.              *)

AnswerButtonPressed(p, u) ==
  LET q == [p EXCEPT !.callIdsAnswered = @ \cup {u}]
      a == q.activeCall
      adopt == /\ CallByUuid(q, u) = NoCall
               /\ a # NoCall
               /\ q.state[a.n] = "PROGRESS"
      r == IF adopt THEN [q EXCEPT !.uuid[a.id] = u] ELSE q
      c == CallByUuid(r, u)
  IN IF c = NoCall THEN r ELSE AnswerCall(r, c)

-----------------------------------------------------------------------------
(* Actions: every handler leaves its result in phone.  Only handlers that  *)
(* announce a call need room for one more object.                          *)

vars == phone

Do(q) ==
  IF MaxPending = 0 THEN phone' = [q EXCEPT !.out = <<>>]
  ELSE Len(phone.out) < MaxPending /\ phone' = q

(* An announcement of call i.  iOS announces a call once, when it enters   *)
(* its first state; Android announces it again whenever MainActivity       *)
(* resumes.  The native uuid is the one announced.                         *)
Announce(i, q) ==
  /\ phone.created < MaxObjects
  /\ Android \/ \A k \in DOMAIN phone.keys : phone.keys[k] # i
  /\ Do(q)

CallAnnounced(i) ==
  \/ Announce(i, OutgoingInit(phone, i, NativeUuid[i]))
  \/ Announce(i, IncomingReceived(phone, i, NativeUuid[i]))
  \/ Announce(i, AnsweredFromNotification(phone, i, NativeUuid[i]))
  \/ Announce(i, AnsweredWhileOnCall(phone, i, NativeUuid[i]))

(* A linphone state for a uuid; for a call not in the list the handler     *)
(* fails on a null call and changes nothing.                               *)
LinphoneState(u, s) ==
  LET c == CallByUuid(phone, u)
  IN c # NoCall /\ Do(SetLpCallState(phone, c, s))

(* CallKit buttons, iOS only.  With an unknown uuid all but the answer     *)
(* handler fail on a null call.                                            *)
CallKitButton(u) ==
  LET c == CallByUuid(phone, u)
  IN /\ ~Android
     /\ \/ Do(AnswerButtonPressed(phone, u))
        \/ c # NoCall /\ Do(HangUp(phone, c))
        \/ \E b \in BOOLEAN : c # NoCall /\ Do(SetHold(phone, c, b, FALSE))
        \/ \E b \in BOOLEAN : c # NoCall /\ Do(SetMute(phone, c, b, FALSE))

(* The call view, shown while there is an active call. *)
ConnectedRows == {c \in phone.calls : c # phone.activeCall /\ IsConnected(phone, c)}

Waiting == {c \in phone.calls : c # phone.activeCall /\ ~IsConnected(phone, c)}

IncomingPopup == {c \in Waiting : \A d \in Waiting : d.n <= c.n}

ActiveRinging == phone.activeCall # NoCall /\ ~IsConnected(phone, phone.activeCall)

ActiveConnected == phone.activeCall # NoCall /\ IsConnected(phone, phone.activeCall)

HoldState == phone.state[phone.activeCall.n] = "HOLD"

(* What makeCall sends at once: nothing while callInitiated, when the      *)
(* carrier makes the call, or as long as the server has not set the caller *)
(* id of a dynamic dial; its answer is then a Dial.                        *)
Dialled == {<<>>, <<Cmd("lpStartCall", {})>>}

Dial ==
  Do(Send(phone, <<Cmd("lpStartCall", {})>>))

(* The transfer begins whether or not the other party was dialled. *)
AssistedTransfer ==
  /\ ActiveConnected
  /\ \E cmds \in Dialled : Do(Send([phone EXCEPT !.assistedTransferInit = TRUE], cmds))

TapAnswer ==
  /\ phone.activeCall # NoCall
  /\ \/ /\ Android /\ ActiveRinging /\ phone.activeCall.direction = "INCOMING"
        /\ Do(AnswerCall(phone, phone.activeCall))
     \/ \E c \in IncomingPopup : Do(AnswerCall(phone, c))

TapHangUp ==
  /\ phone.activeCall # NoCall
  /\ \E c \in {phone.activeCall} \cup ConnectedRows \cup IncomingPopup :
       Do(HangUp(phone, c))

TapHold ==
  /\ ActiveConnected
  /\ Do(SetHold(phone, phone.activeCall, ~HoldState, TRUE))

TapMute ==
  /\ ActiveConnected
  /\ Do(SetMute(phone, phone.activeCall, phone.activeCall.id \notin phone.muted, TRUE))

TapRow ==
  /\ phone.activeCall # NoCall
  /\ \E c \in ConnectedRows : Do(MakeActiveCall(phone, c))

TapTransfer ==
  ActiveConnected /\ Do(Transfer(phone, phone.activeCall))

TapCompleteTransfer ==
  /\ phone.activeCall # NoCall
  /\ phone.assistedTransferInit
  /\ phone.state[phone.activeCall.n] = "STREAM"
  /\ \E c \in ConnectedRows :
       /\ c.id # phone.activeCall.id
       /\ \A d \in ConnectedRows : d.id # phone.activeCall.id => c.n <= d.n
       /\ Do(CompleteAssistedTransfer(phone, phone.activeCall, c))

(* The disposition form of an ended call, shown when no call is active. *)
SaveDisposition(i) ==
  /\ phone.activeCall = NoCall /\ phone.endedCalls[i] > 0
  /\ Do([phone EXCEPT !.endedCalls[i] = 0])

User ==
  \/ Dial \/ AssistedTransfer \/ TapAnswer \/ TapHangUp \/ TapHold \/ TapMute
  \/ TapRow \/ TapTransfer \/ TapCompleteTransfer
  \/ \E i \in Ids : SaveDisposition(i)

Init == phone = InitPhone

Next ==
  \/ \E i \in Ids : CallAnnounced(i)
  \/ \E u \in Uuids, s \in CallState \ {"NONE"} : LinphoneState(u, s)
  \/ \E u \in Uuids : CallKitButton(u)
  \/ User

Spec == Init /\ [][Next]_vars

-----------------------------------------------------------------------------
(* The fields of the Softphone object hold what their users expect. *)
TypeOK == phone \in Phone

(* While any call is listed one of them has the focus: main.dart shows the *)
(* call view only when activeCall is set, so a listed call without focus   *)
(* could be neither answered nor ended.                                    *)
CallsHaveFocus == phone.calls # {} => phone.activeCall # NoCall

(* On iOS the active call is always an object of the list, so that its     *)
(* state is the one the events of the native side update.                  *)
FocusIsListed ==
  ~Android /\ phone.activeCall # NoCall => phone.activeCall \in phone.calls

(* On iOS the user is asked at most once for the disposition of a call,    *)
(* however the call was ended and whatever the native side reports then.   *)
AskedOncePerCall == ~Android => \A i \in Ids : phone.endedCalls[i] <= 1

(* What CallBook sees of call i. *)
Stage(p, i) ==
  IF IsListed(p, i) THEN IF i \in p.answerTime THEN "talking" ELSE "waiting"
  ELSE IF \E k \in DOMAIN p.keys : p.keys[k] = i THEN "over" ELSE "unknown"

Book == INSTANCE CallBook WITH
  stage  <- [i \in Ids |-> Stage(phone, i)],
  focus  <- {c.id : c \in {phone.activeCall} \ {NoCall}},
  asking <- {i \in Ids : phone.endedCalls[i] > 0}

(* On iOS, where a call is announced once, Softphone implements CallBook:  *)
(* whatever the order of events and taps, a call that is over never comes  *)
(* back, the focus passes to a call that goes on whenever one ends, and    *)
(* the user is asked for the disposition of just the calls that were       *)
(* answered.                                                               *)
KeepsBook == Book!Spec

(* A call that arrives without being answered never takes the focus from   *)
(* the call that has it.                                                   *)
ArrivalKeepsFocus ==
  [][\A c \in phone'.calls \ phone.calls :
       c.direction = "INCOMING" /\ c.id \notin phone'.answerTime
         /\ phone.activeCall # NoCall
       => phone'.activeCall = phone.activeCall]_vars

(* Whenever the focus moves to another call, every other listed call is    *)
(* told to hold in the same step, so two calls are never left un-held by   *)
(* the softphone's own doing.                                              *)
FocusHoldsTheOthers ==
  [][phone'.activeCall \notin {NoCall, phone.activeCall} =>
       \A d \in phone'.calls : d.id # phone'.activeCall.id =>
         \E k \in Len(phone.out) + 1 .. Len(phone'.out) :
           phone'.out[k].op = "lpHold" /\ NativeUuid[d.id] \in phone'.out[k].to]_vars

=============================================================================
