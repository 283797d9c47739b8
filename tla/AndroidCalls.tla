---------------------------- MODULE AndroidCalls ----------------------------
(***************************************************************************)
(* The Softphone of Dart, the native side of the Android app and the       *)
(* linphone core, joined by the two directions of one method channel:      *)
(*                                                                         *)
(*   phone.out   commands   Dart -> FMCore.setFlutterActionsHandler        *)
(*   toDart      events     MainActivity -> Softphone._callKitHandler      *)
(*                                                                         *)
(* Both are first-in first-out and asynchronous, so commands are on their  *)
(* way while the remote party, the network, the system and the life cycle  *)
(* of MainActivity change the calls.  Native code derives the uuid of a    *)
(* call from its SIP id, so here both are one name.                        *)
(***************************************************************************)
EXTENDS LinphoneCore, Naturals, Sequences, SequencesExt

CONSTANTS
  ForceDisposition, MaxObjects, NoCall, NoUuid,  \* see Softphone
  MaxPending,        \* as there, but native code takes the commands here
  MaxEvents,         \* bound: the core acts on its own while fewer events wait
  MaxResumes,        \* bound: times MainActivity resumes with calls going on
  MaxActivities      \* bound: MainActivity objects created over a behaviour

ASSUME AndroidCallsAssumption ==
  /\ IsFiniteSet(Ids) /\ NoUuid \notin Ids /\ ForceDisposition \in BOOLEAN
  /\ MaxObjects \in Nat /\ MaxPending \in Nat \ {0}
  /\ MaxEvents \in Nat /\ MaxResumes \in Nat
  /\ MaxActivities \in Nat \ {0}

VARIABLES
  phone,             \* the Softphone object
  toDart,            \* events on the channel to Dart
  listeners,         \* coreListener objects registered with the core
  resumes            \* MainActivity resumes so far

vars == <<phone, core, toDart, listeners, resumes>>

S == INSTANCE Softphone WITH
       Uuids <- Ids, NativeUuid <- [i \in Ids |-> i], Android <- TRUE

ASSUME NoCallIsNull == NoCall \notin S!Call

(* Slip: a held call is announced under a name Dart does not know. *)
ResumeEventMisnamed ==
  [incoming  |-> "lnIncomingReceived",
   streaming |-> "answeredFromNotification",
   paused    |-> "answeredWhileOnCall"]

(* What checkPushIncomingCall reports when MainActivity resumes. *)
ResumeEvent ==
  [incoming  |-> "lnIncomingReceived",
   streaming |-> "answeredFromNotification",
   paused    |-> "answeredWhileOnCallFromNotification"]

(* Slip: a call held by the remote party is shown as running. *)
ShownAsWithoutRemoteHold ==
  [lnOutgoingProgress |-> "PROGRESS", lnConnected |-> "CONFIRMED",
   lnStreamsRunning |-> "STREAM", lnPaused |-> "HOLD",
   lnPausedByRemote |-> "STREAM", lnReleased |-> "ENDED"]

(* The states _callKitHandler sets on an event that names an existing call. *)
ShownAs ==
  [lnOutgoingProgress |-> "PROGRESS", lnConnected |-> "CONFIRMED",
   lnStreamsRunning |-> "STREAM", lnPaused |-> "HOLD",
   lnPausedByRemote |-> "HOLD", lnReleased |-> "ENDED"]

Announcements == {"lnOutgoingInit", "lnIncomingReceived", "answeredFromNotification",
                  "answeredWhileOnCallFromNotification"}

Event == [op : Announcements \cup DOMAIN ShownAs, id : Ids]

Init ==
  /\ S!Init
  /\ core = [i \in Ids |-> "none"]
  /\ toDart = <<>> /\ listeners = 1 /\ resumes = 0

-----------------------------------------------------------------------------
(* What MainActivity tells Dart when a call enters a state. *)
Reports ==
  [none |-> <<>>, incoming |-> <<"lnIncomingReceived">>,
   outgoing |-> <<"lnOutgoingInit", "lnOutgoingProgress">>,
   connected |-> <<"lnConnected">>, streaming |-> <<"lnStreamsRunning">>,
   pausing |-> <<>>, paused |-> <<"lnPaused">>, resuming |-> <<>>,
   pausedByRemote |-> <<"lnPausedByRemote">>, released |-> <<"lnReleased">>]

Ev(o, i) == [op |-> o, id |-> i]

EventsOf(i, s) == [k \in DOMAIN Reports[s] |-> Ev(Reports[s][k], i)]

(* Every registered listener reports every change of state. *)
Repeated(events) ==
  [k \in 1..listeners * Len(events) |-> events[((k - 1) \div listeners) + 1]]

(* The core changes the calls.  Of those that change together one enters a *)
(* state that is reported, or none, or many end, in any order.             *)
React(c) ==
  LET told == {i \in Ids : c[i] # core[i] /\ Reports[c[i]] # <<>>}
  IN /\ core' = c
     /\ \/ \E i \in Ids : told = {i} /\ toDart' = toDart \o Repeated(EventsOf(i, c[i]))
        \/ /\ Cardinality(told) # 1
           /\ \E ends \in SetToSeqs({Ev("lnReleased", i) : i \in told}) :
                toDart' = toDart \o Repeated(ends)

-----------------------------------------------------------------------------
(* Commands of Dart reach the core one by one; one that names no call, or  *)
(* a call in the wrong state, does nothing.                                *)

StartCall ==
  IF InState("none") = {} THEN React(core)
  ELSE \E i \in InState("none") : React(Invite(i))

Pause(is) == PauseFrom({"streaming", "pausedByRemote"}, is)

OnCall(is, Op(_)) ==
  IF is = {} THEN React(core) ELSE \E i \in is : React(Op(i))

NativeCommand ==
  /\ phone.out # <<>>
  /\ phone' = [phone EXCEPT !.out = Tail(@)]
  /\ LET c == Head(phone.out)
     IN CASE c.op = "lpStartCall" -> StartCall
          [] c.op = "lpAnswer"    -> OnCall(c.to, Accept)
          [] c.op = "lpResume"    -> OnCall(c.to, Resume)
          [] c.op = "lpEndCall"   -> React(Terminate(c.to))
          [] c.op = "lpHold"      -> React(Pause(c.to))
          [] OTHER                -> React(core)
  /\ UNCHANGED <<listeners, resumes>>

(* Events reach Dart one by one; one that names no listed call fails. *)
Handle(e) ==
  LET c == S!CallByUuid(phone, e.id)
  IN CASE e.op = "lnOutgoingInit" -> S!OutgoingInit(phone, e.id, e.id)
       [] e.op = "lnIncomingReceived" -> S!IncomingReceived(phone, e.id, e.id)
       [] e.op = "answeredFromNotification" -> S!AnsweredFromNotification(phone, e.id, e.id)
       [] e.op = "answeredWhileOnCallFromNotification" ->
            S!AnsweredWhileOnCall(phone, e.id, e.id)
       [] OTHER -> IF c = NoCall THEN phone ELSE S!SetLpCallState(phone, c, ShownAs[e.op])

DartEvent ==
  /\ toDart # <<>>
  /\ Head(toDart).op \in Announcements => phone.created < MaxObjects
  /\ S!Do(Handle(Head(toDart)))
  /\ toDart' = Tail(toDart)
  /\ UNCHANGED <<core, listeners, resumes>>

(* What the user does to calls; the microphone has no part in this model. *)
User ==
  /\ \/ S!Dial \/ S!AssistedTransfer \/ S!TapAnswer \/ S!TapHangUp \/ S!TapHold
     \/ S!TapRow \/ S!TapTransfer \/ S!TapCompleteTransfer
     \/ \E i \in Ids : S!SaveDisposition(i)
  /\ UNCHANGED <<core, toDart, listeners, resumes>>

-----------------------------------------------------------------------------
(* What the core and the system do on their own. *)

Outside(c) ==
  /\ Len(toDart) < MaxEvents
  /\ React(c) /\ UNCHANGED <<phone, listeners, resumes>>

CoreActs(i) ==
  \E step \in OwnSteps :
    core[i] = step[1] /\ Outside([core EXCEPT ![i] = step[2]])

(* The remote party, the network, the hang-up action of the notification   *)
(* or a telecom connection ends the call.                                  *)
EndsOutside(i) == i \in LiveCalls /\ Outside(Terminate({i}))

(* The answer action of the notification accepts the call without Dart. *)
NotificationAnswer(i) == core[i] = "incoming" /\ Outside(Accept(i))

(* Android holds a call for another app, and lets it go on. *)
TelecomHold(i) == core[i] \in {"streaming", "pausedByRemote"} /\ Outside(Pause({i}))

TelecomUnhold(i) == core[i] = "paused" /\ Outside(Resume(i))

Core(i) ==
  \/ CoreActs(i) \/ EndsOutside(i)
  \/ NotificationAnswer(i) \/ TelecomHold(i) \/ TelecomUnhold(i)

(* MainActivity comes to the front and reports the calls that go on.  The  *)
(* core lists them in the order they began, of which every one is taken.   *)
MainActivityResumes ==
  /\ resumes < MaxResumes
  /\ \E order \in SetToSeqs({i \in Ids : core[i] \in DOMAIN ResumeEvent}) :
       toDart' = toDart \o [k \in DOMAIN order |-> Ev(ResumeEvent[core[order[k]]], order[k])]
  /\ resumes' = resumes + 1
  /\ UNCHANGED <<phone, core, listeners>>

(* MainActivity is destroyed, which ends every call, and created again,    *)
(* which registers one more listener: the old one is never removed.        *)
MainActivityRecreated ==
  /\ listeners < MaxActivities
  /\ React(Terminate(Ids))
  /\ listeners' = listeners + 1
  /\ UNCHANGED <<phone, resumes>>

Next ==
  \/ NativeCommand \/ DartEvent \/ User
  \/ \E i \in Ids : Core(i)
  \/ MainActivityResumes \/ MainActivityRecreated

(* Both ends of the channel run the handlers of whatever waits there, the  *)
(* isolate of Dart and the main thread of Android.  A handler of Dart does *)
(* not really wait for the commands before it to be taken, as MaxPending   *)
(* has it do, so a user who keeps tapping cannot starve it: its fairness   *)
(* is strong.                                                              *)
Spec == Init /\ [][Next]_vars /\ WF_vars(NativeCommand) /\ SF_vars(DartEvent)

-----------------------------------------------------------------------------
TypeOK ==
  /\ S!TypeOK
  /\ core \in [Ids -> CoreState]
  /\ toDart \in Seq(Event)
  /\ listeners \in 1..MaxActivities /\ resumes \in 0..MaxResumes

Pending(ops, i) == \E k \in DOMAIN toDart : toDart[k].id = i /\ toDart[k].op \in ops

EndSent(i) == \E k \in DOMAIN phone.out : phone.out[k].op = "lpEndCall" /\ i \in phone.out[k].to

(* A call that is over and still on the screen is about to leave it: the   *)
(* event that removes it is on its way, however many times MainActivity    *)
(* announced the call before.                                              *)
EndedCallLeaves ==
  \A i \in InState("released") : S!IsListed(phone, i) => Pending({"lnReleased"}, i)

(* A call that is going on is on the screen, or about to be announced, or  *)
(* about to be ended: no call goes on unseen.                              *)
NoCallUnseen ==
  \A i \in LiveCalls : S!IsListed(phone, i) \/ Pending(Announcements, i) \/ EndSent(i)

(* What a call is shown as once its events have all been handled. *)
Shows ==
  [incoming |-> {"NONE"}, outgoing |-> {"PROGRESS"}, connected |-> {"CONFIRMED"},
   streaming |-> {"STREAM"}, pausing |-> {"STREAM", "HOLD"}, paused |-> {"HOLD"},
   resuming |-> {"HOLD"}, pausedByRemote |-> {"HOLD"}]

(* Without resumes of MainActivity, which announce calls anew, every       *)
(* listed call whose events have been handled shows the state of the core. *)
ShownStateIsCurrent ==
  MaxResumes = 0 =>
    \A c \in phone.calls :
      c.id \in LiveCalls /\ ~Pending(DOMAIN ShownAs, c.id)
        => phone.state[c.n] \in Shows[core[c.id]]

(* Without resumes every call is listed once, although every listener left *)
(* over from an earlier MainActivity announces it once more.               *)
ListedOnce ==
  MaxResumes = 0 => \A c, d \in phone.calls : c.id = d.id => c = d

(* Whatever the core and the activity announce and report, some listed     *)
(* call has the focus while any is listed, so the call view has its call.  *)
CallsHaveFocus == S!CallsHaveFocus

(* Whenever Dart moves the focus, it tells every other listed call to hold. *)
FocusHoldsTheOthers == S!FocusHoldsTheOthers

(* A call that is over leaves the screen. *)
EndedCallsAreRemoved ==
  \A i \in Ids : core[i] = "released" ~> ~S!IsListed(phone, i)

(* A call taken off the screen while it goes on is ended in the core, also *)
(* if the user hung up before its set-up was complete.                     *)
RemovedCallsEnd ==
  \A i \in Ids : (i \in LiveCalls /\ ~S!IsListed(phone, i) /\ ~Pending(Announcements, i))
                   ~> core[i] = "released"

=============================================================================
