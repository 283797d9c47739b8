------------------------------ MODULE IosCalls ------------------------------
(***************************************************************************)
(* The Softphone of Dart, ProviderDelegate of the iOS app, CallKit (the    *)
(* system's own call screen) and the linphone core:                        *)
(*                                                                         *)
(*   phone.out   commands   Dart -> ProviderDelegate                       *)
(*   requests    actions    ProviderDelegate -> CallKit                    *)
(*   toDart      events     ProviderDelegate -> Softphone._callKitHandler  *)
(*                                                                         *)
(* Each is first-in first-out and asynchronous.  A call is known to        *)
(* CallKit by a uuid: the one of the push that announced it, which is also *)
(* the one native code derives from its SIP id, so that here the call and  *)
(* its uuid are one name.  A push whose call never reaches the phone has a *)
(* uuid of its own.                                                        *)
(***************************************************************************)
EXTENDS LinphoneCore, Naturals, Sequences, SequencesExt

CONSTANTS
  ForceDisposition, MaxPending, NoCall, NoUuid,  \* see Softphone
  MaxObjects,        \* one LnCall object for each of Ids
  Directions,        \* the sets that the calls it gets may be of Ids
  Strays,            \* uuids of pushes whose call is not on the phone
  MaxRequests,       \* bound: a command is taken while fewer requests wait
  MaxEvents          \* bound: the outside and the user act while fewer
                     \* events wait

Uuids == Ids \cup Strays

ASSUME IosCallsAssumption ==
  /\ Directions \subseteq SUBSET Ids
  /\ Ids \cap Strays = {} /\ IsFiniteSet(Uuids) /\ NoUuid \notin Uuids
  /\ ForceDisposition \in BOOLEAN /\ MaxPending \in Nat \ {0}
  /\ MaxObjects = Cardinality(Ids)
  /\ MaxRequests \in Nat /\ MaxEvents \in Nat

VARIABLES
  phone,             \* the Softphone object
  toDart,            \* events on the channel to Dart
  requests,          \* transactions CallKit has not performed yet
  kit,               \* each call as CallKit shows it
  incoming,          \* the calls this phone gets, the others it makes; the
                     \* same all along
  answeredUuids      \* dictionary of the calls seen connected in CallKit

vars == <<phone, core, toDart, requests, kit, incoming, answeredUuids>>

S == INSTANCE Softphone WITH
       NativeUuid <- [i \in Ids |-> i], Android <- FALSE

ASSUME NoCallIsNull == NoCall \notin S!Call

KitState == {"none", "ringing", "dialing", "active", "held", "gone"}

Connected == {"active", "held"}

OnScreen == Connected \cup {"ringing", "dialing"}

(* Slip: an answered call is reported under the name Android has for it.   *)
ReportsLikeAndroid ==
  [none |-> <<>>, incoming |-> <<"lnIncomingReceived">>,
   outgoing |-> <<"lnOutgoingInit", "lnOutgoingProgress">>,
   connected |-> <<"lnConnected">>, streaming |-> <<"lnCallStreamsRunning">>,
   pausing |-> <<>>, paused |-> <<"lnCallPaused">>, resuming |-> <<>>,
   pausedByRemote |-> <<"lnCallPausedByRemote">>, released |-> <<"lnCallReleased">>]

(* What ProviderDelegate tells Dart when a call enters a state. *)
Reports ==
  [none |-> <<>>, incoming |-> <<"lnIncomingReceived">>,
   outgoing |-> <<"lnOutgoingInit", "lnOutgoingProgress">>,
   connected |-> <<"lnCallConnected">>, streaming |-> <<"lnCallStreamsRunning">>,
   pausing |-> <<>>, paused |-> <<"lnCallPaused">>, resuming |-> <<>>,
   pausedByRemote |-> <<"lnCallPausedByRemote">>, released |-> <<"lnCallReleased">>]

Announcements == {"lnOutgoingInit", "lnIncomingReceived"}

(* Slip: a call held by the remote party is shown as running. *)
ShownAsWithoutRemoteHold ==
  [lnOutgoingProgress |-> "PROGRESS", lnCallConnected |-> "CONFIRMED",
   lnCallStreamsRunning |-> "STREAM", lnCallPaused |-> "HOLD",
   lnCallPausedByRemote |-> "STREAM", lnCallReleased |-> "ENDED"]

ShownAs ==
  [lnOutgoingProgress |-> "PROGRESS", lnCallConnected |-> "CONFIRMED",
   lnCallStreamsRunning |-> "STREAM", lnCallPaused |-> "HOLD",
   lnCallPausedByRemote |-> "HOLD", lnCallReleased |-> "ENDED"]

(* holdButtonPressed carries whether to hold. *)
Buttons == {"answerButtonPressed", "endButtonPressed", "holdButtonPressed",
            "unholdButtonPressed"}

Ev(o, u) == [op |-> o, id |-> u]

Event == [op : Announcements \cup DOMAIN ShownAs \cup Buttons, id : Uuids]

Action == [op : {"start", "answer", "end", "hold", "unhold"}, to : Uuids]

NoneAnswered == [u \in {} |-> TRUE]

Init ==
  /\ S!Init
  /\ core = [i \in Ids |-> "none"]
  /\ toDart = <<>> /\ requests = <<>>
  /\ kit = [u \in Uuids |-> "none"]
  /\ incoming \in Directions
  /\ answeredUuids = NoneAnswered

-----------------------------------------------------------------------------
(* onCallStateChanged. *)

(* Calls native code can look up by uuid (uuidCalls): an entry is made     *)
(* when the call begins and never removed.                                 *)
Known == {i \in Ids : core[i] # "none"}

EventsOf(i, s) == [k \in DOMAIN Reports[s] |-> Ev(Reports[s][k], i)]

(* A call nobody answered leaves the system's screen.  The dictionary says *)
(* who answered and has no entry for anybody else.                         *)
RingingDidTimeout(k, u) ==
  IF u \in DOMAIN answeredUuids /\ ~answeredUuids[u]
  THEN /\ kit' = [k EXCEPT ![u] = "gone"]
       /\ answeredUuids' = [v \in DOMAIN answeredUuids \ {u} |-> answeredUuids[v]]
  ELSE kit' = k /\ UNCHANGED answeredUuids

(* The core changes the calls, of which one enters a reported state, while *)
(* CallKit comes to show them as in k.                                     *)
React(c, k) ==
  LET told == {i \in Ids : c[i] # core[i] /\ Reports[c[i]] # <<>>}
  IN /\ core' = c
     /\ IF told = {} THEN kit' = k /\ UNCHANGED <<toDart, answeredUuids>>
        ELSE \E i \in told :
               /\ toDart' = toDart \o EventsOf(i, c[i])
               /\ IF c[i] = "released" THEN RingingDidTimeout(k, i)
                  ELSE kit' = k /\ UNCHANGED answeredUuids

-----------------------------------------------------------------------------
(* Commands of Dart. *)

(* Hold is refused by the handler itself for a call the remote party holds. *)
Hold(is) == PauseFrom({"streaming"}, is)

(* Slip: calls are looked up among those CallKit saw connected. *)
FoundAnswered(c) == c.to \cap Known \cap DOMAIN answeredUuids

(* The calls the handler finds by the uuids it is given; lpSetHold and     *)
(* lpAnswer take for granted that there is one.                            *)
Found(c) == c.to \cap Known

Unwraps(c) == c.op \in {"lpHold", "lpResume", "lpAnswer"} /\ ~(c.to \subseteq Known)

(* What a command makes of the calls of the core. *)
CoreAfter(c) ==
  CASE c.op = "lpStartCall" ->
         {Invite(i) : i \in {j \in InState("none") \ incoming : kit[j] = "none"}}
    [] c.op = "lpAnswer"  -> {Accept(i) : i \in Found(c)}
    [] c.op = "lpResume"  -> {Resume(i) : i \in Found(c)}
    [] c.op = "lpEndCall" -> {Terminate(Found(c))}
    [] c.op = "lpHold"    -> {Hold(Found(c))}
    [] OTHER -> {}

(* A resume that is under way is reported as connected at once. *)
ResumesAgain(c) == c.op = "lpResume" /\ \E i \in Found(c) : core[i] = "resuming"

(* reportConnectedOutgoingCall is told to CallKit directly. *)
KitAfter(c) ==
  [u \in Uuids |-> IF c.op = "reportConnectedOutgoingCall" /\ u \in c.to /\ kit[u] = "dialing"
                   THEN "active" ELSE kit[u]]

(* Slip: a call that ends stays on the system's screen. *)
AsksNoEnd(c) ==
  LET each(o, us) == SetToSeq({[op |-> o, to |-> u] : u \in us})
      answered == c.to \cap DOMAIN answeredUuids
  IN CASE c.op = "reportOutgoingCall" -> each("start", c.to) \o each("start", c.to)
       [] c.op = "answerCall" -> each("answer", c.to)
       [] c.op = "setHold"    -> each("hold", answered)
       [] c.op = "setUnhold"  -> each("unhold", answered)
       [] OTHER -> <<>>

(* What a command asks of CallKit; a start is asked for twice. *)
Asks(c) ==
  LET each(o, us) == SetToSeq({[op |-> o, to |-> u] : u \in us})
      answered == c.to \cap DOMAIN answeredUuids
  IN CASE c.op = "reportOutgoingCall" -> each("start", c.to) \o each("start", c.to)
       [] c.op = "answerCall" -> each("answer", c.to)
       [] c.op = "endCall"    -> each("end", c.to)
       [] c.op = "setHold"    -> each("hold", answered)
       [] c.op = "setUnhold"  -> each("unhold", answered)
       [] OTHER -> <<>>

Perform(c) ==
  /\ IF ResumesAgain(c)
     THEN /\ \E i \in Found(c) : /\ core[i] = "resuming"
                               /\ toDart' = Append(toDart, Ev("lnCallConnected", i))
          /\ UNCHANGED <<core, kit, answeredUuids>>
     ELSE \E after \in CoreAfter(c) \cup (IF CoreAfter(c) = {} THEN {core} ELSE {}) :
            React(after, KitAfter(c))
  /\ requests' = requests \o Asks(c)
  /\ phone' = [phone EXCEPT !.out = Tail(@)]
  /\ UNCHANGED incoming

(* A failed unwrap ends the process, and with it every call. *)
ProcessDies ==
  /\ core' = Terminate(Ids)
  /\ kit' = [u \in Uuids |-> IF kit[u] \in OnScreen THEN "gone" ELSE kit[u]]
  /\ phone' = S!InitPhone
  /\ toDart' = <<>> /\ requests' = <<>>
  /\ answeredUuids' = NoneAnswered
  /\ UNCHANGED incoming

NativeCommand ==
  /\ phone.out # <<>> /\ Len(requests) < MaxRequests
  /\ IF Unwraps(Head(phone.out)) THEN ProcessDies ELSE Perform(Head(phone.out))

-----------------------------------------------------------------------------
(* Events reach Dart one by one; one that names no listed call fails,      *)
(* except an answer, which is kept for the call.                           *)

Handle(e) ==
  LET c == S!CallByUuid(phone, e.id)
  IN CASE e.op = "lnOutgoingInit" -> S!OutgoingInit(phone, e.id, e.id)
       [] e.op = "lnIncomingReceived" -> S!IncomingReceived(phone, e.id, e.id)
       [] e.op = "answerButtonPressed" -> S!AnswerButtonPressed(phone, e.id)
       [] c = NoCall /\ e.op \notin Announcements \cup {"answerButtonPressed"} -> phone
       [] c # NoCall /\ e.op = "endButtonPressed" -> S!HangUp(phone, c)
       [] c # NoCall /\ e.op = "holdButtonPressed" -> S!SetHold(phone, c, TRUE, FALSE)
       [] c # NoCall /\ e.op = "unholdButtonPressed" -> S!SetHold(phone, c, FALSE, FALSE)
       [] c # NoCall /\ e.op \in DOMAIN ShownAs -> S!SetLpCallState(phone, c, ShownAs[e.op])

DartEvent ==
  /\ toDart # <<>>
  /\ S!Do(Handle(Head(toDart)))
  /\ toDart' = Tail(toDart)
  /\ UNCHANGED <<core, requests, kit, incoming, answeredUuids>>

(* What the user does to calls in the app.  Transfers, which CallKit has   *)
(* no part in, are in AndroidCalls; the microphone is left out.            *)
User ==
  /\ Len(toDart) < MaxEvents
  /\ \/ S!Dial \/ S!TapAnswer \/ S!TapHangUp \/ S!TapHold \/ S!TapRow
     \/ \E i \in Ids : S!SaveDisposition(i)
  /\ UNCHANGED <<core, toDart, requests, kit, incoming, answeredUuids>>

-----------------------------------------------------------------------------
(* CallKit.  It performs an action if the call is in a state for it.       *)

(* Slip: the answer on the system's screen is not passed on. *)
PerformsSilently(o, u) ==
  /\ kit' = [kit EXCEPT ![u] = CASE o = "start" -> "dialing" [] o = "end" -> "gone"
                                 [] o = "hold" -> "held" [] OTHER -> "active"]
  /\ IF o \in {"start", "answer"} THEN UNCHANGED toDart
     ELSE toDart' = Append(toDart, Ev(CASE o = "end" -> "endButtonPressed"
                                        [] o = "hold" -> "holdButtonPressed"
                                        [] o = "unhold" -> "unholdButtonPressed", u))
  /\ CASE o = "start" -> kit[u] = "none" [] o = "answer" -> kit[u] = "ringing"
       [] o = "end" -> kit[u] \in OnScreen [] OTHER -> kit[u] \in Connected

Performs(o, u) ==
  \/ /\ o = "start" /\ kit[u] = "none" /\ kit' = [kit EXCEPT ![u] = "dialing"]
     /\ UNCHANGED toDart
  \/ /\ o = "answer" /\ kit[u] = "ringing" /\ kit' = [kit EXCEPT ![u] = "active"]
     /\ toDart' = Append(toDart, Ev("answerButtonPressed", u))
  \/ /\ o = "end" /\ kit[u] \in OnScreen /\ kit' = [kit EXCEPT ![u] = "gone"]
     /\ toDart' = Append(toDart, Ev("endButtonPressed", u))
  \/ /\ o = "hold" /\ kit[u] \in Connected /\ kit' = [kit EXCEPT ![u] = "held"]
     /\ toDart' = Append(toDart, Ev("holdButtonPressed", u))
  \/ /\ o = "unhold" /\ kit[u] \in Connected /\ kit' = [kit EXCEPT ![u] = "active"]
     /\ toDart' = Append(toDart, Ev("unholdButtonPressed", u))

Refuses(o, u) ==
  /\ CASE o = "start"  -> kit[u] # "none"
       [] o = "answer" -> kit[u] # "ringing"
       [] o = "end"    -> kit[u] \notin OnScreen
       [] o \in {"hold", "unhold"} -> kit[u] \notin Connected
  /\ UNCHANGED <<kit, toDart>>

KitPerforms ==
  /\ requests # <<>>
  /\ LET a == Head(requests) IN Performs(a.op, a.to) \/ Refuses(a.op, a.to)
  /\ requests' = Tail(requests)
  /\ UNCHANGED <<phone, core, incoming, answeredUuids>>

(* The user acts on the system's screen; "hold and accept" and a swap of   *)
(* two calls are two such acts in a row.                                   *)
SystemButton(u) ==
  /\ Len(toDart) < MaxEvents
  /\ \/ Performs("answer", u) \/ Performs("end", u)
     \/ kit[u] = "active" /\ Performs("hold", u)
     \/ kit[u] = "held" /\ Performs("unhold", u)
  /\ UNCHANGED <<phone, core, requests, incoming, answeredUuids>>

(* callObserver is told, some time after it happened. *)
CallChanged(u) ==
  /\ kit[u] \in Connected
  /\ answeredUuids' = [v \in DOMAIN answeredUuids \cup {u} |-> TRUE]
  /\ UNCHANGED <<phone, core, toDart, requests, kit, incoming>>

(* A push announces a call that may ring already, be answered in the app,  *)
(* or be over: it is shown whatever the core has.  Where the system        *)
(* refuses to show the call it is as if none had come.                     *)
PushArrives(u) ==
  /\ kit[u] = "none" /\ u \in incoming \cup Strays
  /\ kit' = [kit EXCEPT ![u] = "ringing"]
  /\ UNCHANGED <<phone, core, toDart, requests, incoming, answeredUuids>>

(* Every push starts a timer, which fires at some time after it. *)
RingingTimer(u) ==
  /\ kit[u] # "none"
  /\ RingingDidTimeout(kit, u)
  /\ UNCHANGED <<phone, core, toDart, requests, incoming>>

(* What the core does on its own, and the end of a call from outside. *)
CoreActs(i) ==
  /\ Len(toDart) < MaxEvents
  /\ \/ \E step \in OwnSteps :
          /\ core[i] = step[1] /\ (step[2] = "incoming" => i \in incoming)
          /\ React([core EXCEPT ![i] = step[2]], kit)
     \/ i \in LiveCalls /\ React(Terminate({i}), kit)
  /\ UNCHANGED <<phone, requests, incoming>>

Next ==
  \/ NativeCommand \/ DartEvent \/ User \/ KitPerforms
  \/ \E u \in Uuids : SystemButton(u) \/ CallChanged(u) \/ PushArrives(u) \/ RingingTimer(u)
  \/ \E i \in Ids : CoreActs(i)

(* The main thread takes commands and actions, and the timers fire; Dart   *)
(* handles events.  A command does not really wait for requests to be      *)
(* performed nor an event for commands, as the bounds have them do, so     *)
(* their fairness is strong.                                               *)
Spec ==
  /\ Init /\ [][Next]_vars
  /\ SF_vars(NativeCommand) /\ SF_vars(DartEvent) /\ WF_vars(KitPerforms)
  /\ \A u \in Uuids : WF_vars(CallChanged(u)) /\ WF_vars(RingingTimer(u))

-----------------------------------------------------------------------------
TypeOK ==
  /\ S!TypeOK
  /\ core \in [Ids -> CoreState]
  /\ toDart \in Seq(Event) /\ requests \in Seq(Action)
  /\ kit \in [Uuids -> KitState] /\ incoming \in SUBSET Ids
  /\ DOMAIN answeredUuids \subseteq Uuids
  /\ \A u \in DOMAIN answeredUuids : answeredUuids[u] = TRUE

Pending(ops, i) == \E k \in DOMAIN toDart : toDart[k].id = i /\ toDart[k].op \in ops

Sent(o, i) == \E k \in DOMAIN phone.out : phone.out[k].op = o /\ i \in phone.out[k].to

(* answerButtonPressed never took the answer to a call Dart did not know   *)
(* yet for one to its outgoing call, which then has the other's uuid.      *)
NoneMistaken == \A i \in Ids : phone.uuid[i] \in {NoUuid, i}

(* A call that is going on is on the screen of the app, or about to be     *)
(* announced, or about to be ended.                                        *)
NoCallUnseen ==
  NoneMistaken =>
    \A i \in LiveCalls :
      S!IsListed(phone, i) \/ Pending(Announcements, i) \/ Sent("lpEndCall", i)

(* What a call is shown as once its events have all been handled. *)
Shows ==
  [incoming |-> {"NONE"}, outgoing |-> {"PROGRESS"}, connected |-> {"CONFIRMED"},
   streaming |-> {"STREAM"}, pausing |-> {"STREAM", "HOLD"}, paused |-> {"HOLD"},
   resuming |-> {"HOLD", "CONFIRMED"}, pausedByRemote |-> {"HOLD"}]

(* Every listed call whose events have been handled shows the state of the *)
(* core.                                                                   *)
ShownStateIsCurrent ==
  NoneMistaken =>
    \A c \in phone.calls :
      c.id \in LiveCalls /\ ~Pending(DOMAIN ShownAs, c.id)
        => phone.state[c.n] \in Shows[core[c.id]]

(* An incoming call answered on the system's screen, be it before the app  *)
(* heard of the call or after, is answered by Dart, or its answer is on    *)
(* the way, or kept until the call is announced; unless the app is ending  *)
(* it at the same time.                                                    *)
SystemAnswerCounts ==
  NoneMistaken =>
    \A i \in InState("incoming") :
      kit[i] \in Connected =>
        \/ Pending({"answerButtonPressed", "lnIncomingReceived"}, i)
        \/ i \in phone.answerTime \/ Sent("lpEndCall", i)

(* A call that is over leaves the system's screen, if it was there by the  *)
(* time Dart takes it off its list: only Dart asks for that, and a push    *)
(* that comes later rings with nothing to end it.                          *)
EndedCallsLeaveCallKit ==
  \A i \in Ids :
    (core[i] = "released" /\ kit[i] \in OnScreen
       /\ (S!IsListed(phone, i) \/ Pending(Announcements, i)))
      ~> kit[i] \notin OnScreen \/ ~NoneMistaken

(* A call taken off the app's screen while it goes on is ended. *)
RemovedCallsEnd ==
  \A i \in Ids : (i \in LiveCalls /\ ~S!IsListed(phone, i) /\ ~Pending(Announcements, i))
                   ~> core[i] = "released" \/ ~NoneMistaken

(* The call lpSetHold and lpAnswer unwrap is there. *)
NamedCallIsKnown == phone.out # <<>> => ~Unwraps(Head(phone.out))

=============================================================================
