# Fusion Mobile: a verification project

Fusion Mobile is a softphone for iOS and Android: a Flutter application (Dart,
`lib/`) over native code (Kotlin, `android/app/src/main/kotlin`; Swift,
`ios/Runner`) that drives the linphone SIP core. This directory holds TLA+
modules of the parts where calls can go wrong, TLC runs on small instances and
TLAPS proofs for every size.

## The system

| Component | State | Operations | Talks to |
|---|---|---|---|
| `Softphone` (`lib/src/backend/softphone.dart`, `ln_call.dart`) | `calls`, `activeCall`, `callData` (uuid, answerTime, muted, isReported per call id), `callIdsAnswered`, `endedCalls`, `assistedTransferInit` | make, answer, hang up, hold, mute, transfer, switch; one handler per native event | method channel to native code; read by all call widgets |
| Call view (`lib/src/callpop/*`) | none of its own: rebuilt from `Softphone` | buttons, rows of the other calls, popup of the waiting call | calls `Softphone` methods |
| Disposition form (`lib/src/components/disposition.dart`) | the form | save: post it and drop the call from `endedCalls` | `Softphone`, REST API |
| `MainActivity`, `FMCore`, `CallsManager` (Kotlin) | `uuidCalls`, the listeners of the core | a command handler per channel method; `onCallStateChanged`; `onResume` announces running calls again; `onDestroy` ends them | method channel to Dart, linphone |
| Notifications (`NotificationsManager`, receiver, `FusionCallService`) | notifications per call, the foreground service, the pending incoming notification | show, dismiss, answer, hang up, unhold | linphone, `CallsManager` |
| Telecom (`TelecomConnectionService`, `NativeCallWrapper`) | `connections` | one Android connection per call, kept in the state of the call | Android telecom, linphone |
| `ProviderDelegate` (Swift) | `uuidCalls`, CallKit calls, ringing timers | CallKit actions, channel methods, core events | CallKit, linphone, Dart |
| `FusionConnection` (`fusion_connection.dart`) | session, cookies, socket, heartbeats | log in and out, REST calls with one retry, socket and reconnect | server, every model store |
| Stores (`lib/src/models/*`) | conversations, messages, contacts, coworkers, history, unread counts | load pages, merge what the socket pushes | `FusionConnection`, widgets |
| `ConversationVM`, `SMSMessagesStore` (`lib/src/chats/viewModels`, `lib/src/models/messages.dart`) | the list on the screen, its offset, the rows of `sms_message`, the timers of typing users | look up, load more, send, keep unsent, delete; one handler per socket event | REST API, socket, sqlite, message screens |
| Application (`lib/main.dart`) | which screen is shown, the device of the user, push handling | log in/out, register, choose the screen | all of the above |
| Log-in form (`lib/src/login.dart`) | `_isPending`, `_wasSuccessful` | log in, with a fifteen-second timer | `FusionConnection.login`, the application |

What is hard about it: three actors (Dart's isolate, Android's main thread,
the SIP core) change the same calls and learn of each other's changes by
asynchronous messages in both directions; the user taps while messages are on
their way; the activity comes and goes; the remote party may end a call at any
point of any of this.

What makes each part correct: the call screen shows every call and nothing
else; one call has the focus whenever there is a call; the state shown is the
state of the core once messages are handled; no call outlives its removal from
the screen; the ended call asks for its disposition once. Outside calls: the phone
is registered for the user it is used by and for nobody after a log-out, an
attempt to log in and a retried request come to an end, and a message is shown
once however what the server sends about it crosses.

## Modules

| Module | What it models |
|---|---|
| `Softphone` | the Dart class; each method is an operator from a state record to the next, each handler an action |
| `CallBook` | what the call screen promises: every call it is told of is listed until it ends, one of them has the focus, and an ended call asks for its disposition at most once |
| `Softphone_proofs` | theorems of `Softphone`, among them that it implements `CallBook` on iOS |
| `LeastElements` | the lemma that a finite set of numbers has a least element |
| `LinphoneCore` | the calls of the SIP core, as the native code of both platforms relies on it |
| `AndroidCalls` | an instance of `Softphone` joined to Kotlin and the core by the two directions of the method channel |
| `AndroidCalls_proofs` | its theorems |
| `IosCalls` | an instance of `Softphone` joined to `ProviderDelegate`, CallKit and the core by the method channel and CallKit's transactions |
| `IosCalls_proofs` | its theorems |
| `TelecomConnections` | the connections of Android telecom against the calls they stand for |
| `TelecomConnections_proofs` | its theorems |
| `CallNotifications` | call notifications, the coroutine that delays them and the foreground service |
| `CallNotifications_proofs` | its theorems |
| `Session` | log-in form, home page, `FusionConnection` and the accounts of the SIP core, joined by REST requests in flight |
| `Session_proofs` | its theorems |
| `Conversation` | one conversation on the screen, its rows on the phone, the server's messages and all that is in flight between them |
| `Conversation_proofs` | its theorems |
| `MCSoftphone`, `MCAndroidCalls`, `MCIosCalls`, `MCTelecomConnections`, `MCCallNotifications`, `MCSession`, `MCConversation` | values of the constants for TLC |

### Softphone

`phone` is a record with one field per field of the Dart object that matters;
an `LnCall` object is a record with its identity `n`, which is also its place
in the list since objects are numbered as they are created and only appended.
`callStateChanged`, `_removeCall`, `makeActiveCall`, `answerCall`, `_addCall`
are the operators `SetLpCallState`, `RemoveCall`, `MakeActiveCall`,
`AnswerCall`, `AddCall`; a method that calls another is their composition, in
the order of the code. Dart runs handlers one after the other and none of the
modelled paths awaits, so each handler is one step. The commands a handler
sends are appended to `phone.out`. A loop that sends one command per call is
one message that names all of them: the core treats the calls one by one and
no command of the loop depends on another. `makeCall` comes to a command or to
none (`Dialled`): it refuses while a call is being sent to the user's cell
phone, lets the carrier dial, or waits for the answer of dynamic dialling, which
is then a `Dial` of its own; `assistedTransfer` sets its flag either way.

The environment may announce calls, report any state for any uuid in any
order and press any button the call view offers in that state, so what is
shown here does not rely on how the core behaves.

`CallBook` is what this amounts to for the user, without objects, commands and
two numberings: a call is unknown, waits, is talked on or is over, in that
order; while calls go on one of them has the focus; a disposition is asked for
of the calls that were answered, when they end. `Softphone` on iOS implements
it under this mapping (`Stage` and the instance `Book`): a listed call is
talked on when `callData` has its `answerTime` and waits otherwise; a call that
is not listed is over when `callData` has an entry for it and unknown
otherwise; the focus is the id of `activeCall`; asked for are the ids in
`endedCalls`. Android announces calls again, so it is not the same book there.

Not in the model: the `onHold` entry of `callData` (it is written and never
decides anything), `isCellPhoneCallActive` (no native code sends
`setPhoneState`), `_tempUUIDs` and `_awaitingCall` (every call is linked to a
uuid before it is looked up), audio, ringtones, and lookups for display.

### AndroidCalls

`phone.out` and `toDart` are the two directions of the method channel, both
first-in first-out. `core` is the state of each call in linphone
(`LinphoneCore`). The core is an external library; `Accept`, `Resume`,
`PauseFrom`, `Invite`, `Terminate` yield the states of all calls after a
request, as the code relies on: a call that is being set up or resumed locks
the sound device against others, a running call is paused when another one
takes it, a call in the wrong state refuses. `Reports` is what
`onCallStateChanged` sends to Dart for each state, `EventsOf` the reports about
one call in a step of the core and `Repeated` what all listeners make of them;
calls that change in one step are reported in any order. `NoCallIsNull` says
that Dart's null is no call. `MainActivityResumes` is `checkPushIncomingCall`, which announces
running calls again; `MainActivityRecreated` ends all calls (`onDestroy`) and
adds one more listener (`onCreate`), so that every later event arrives once
per listener. `EndsOutside` stands for the remote party, network loss, the
notification's hang-up and telecom's disconnect.

The states End and Error are merged with the Released that follows each, and
OutgoingInit with OutgoingProgress, which announces the call. The microphone
(and the user's `TapMute`) is left out: Android telecom may mute it natively
and `makeActiveCall` unmutes it without touching the flag, so there is no
agreement to state.

### IosCalls

Three queues: `phone.out` (commands to `ProviderDelegate`), `requests`
(transactions CallKit has not performed) and `toDart`. `kit` is each call as
CallKit shows it, `answeredUuids` the dictionary of the same name. CallKit is
external: it performs an action when the call is in a state for it, otherwise
the transaction fails; the delegate then tells Dart of the button
(`Performs`), also when Dart had asked for the action itself. A push of a
call this phone gets (`PushArrives`) may come before the INVITE, while the call
rings or goes on, after it is over, or never: it is shown whatever the core has.
`Strays` are the uuids of pushes whose call never reaches the phone.
The uuid of a push is the one native code derives from the SIP id, so a call
and its uuid are one name, until `answerButtonPressed` writes the uuid of an
unknown call over that of the outgoing call; `NoneMistaken` names the states
where that has not happened, and properties about uuids are stated of those.
`lpSetHold` and `lpAnswer` unwrap the call they looked up: an unknown one ends
the process (`ProcessDies`), and the properties hold on through that.

`incoming` are the calls this phone gets, chosen at the beginning among
`Directions`; the others it makes, and nobody pushes those. Left out: transfers and the microphone (as in
`AndroidCalls`), the audio session and its interruptions
(`wasAudioInterrupted`; `unpausePauseState` is never set to 1, so the two
transactions it guards are dead code), the event `startCall`, which
serves calls that have no uuid when they are looked up, and calls started from the system's call list.

### TelecomConnections

`connections` is the list of `CallsManager`, `requests` what telecom was asked
for and has not answered. A request is answered, or refused, at any later
time. `core` is the state of each call; the same rules of the core as in
`AndroidCalls` apply, reduced to what connections follow (Pausing, Paused and
PausedByRemote are `"held"`, End and Error are `"ended"`). A call that ends
before it got an id is `"failed"`: its End and its Released look the empty id up
(`IdOf`) and take the first connection that has none. The core tells its
listeners of End and of the last call's end in one step, in either order.
Telecom's answer, disconnect and reject on a call that goes on are the actions
`Answered` and `Ended`, which the remote party and Dart cause as well. The
service is taken to stay bound while calls go on.

### CallNotifications

`callNotificationsMap`, `activeNotification`, `callService`,
`callServiceStartId` and `job` are the fields of `NotificationsManager`;
`service`, `tray` and `starts` are Android's side: the record of the started
service with its start ids, what the phone shows, and starts not delivered
yet. Ids are seconds, so calls may share one. Android's rules (only the latest
start id stops a service, start ids count anew with a new instance, calls on a
destroyed instance do nothing, a foreground notification cannot be cancelled
and is replaced by the next) are external definitions. Of the states of a
call only those are told apart that notifications treat differently.

### Session

`app` is one record of records: `prefs` (SharedPreferences: the username, and
the device that `sub_login`, `auth_key` and `aor` name), `fc` (the fields of
the `FusionConnection` singleton: `_username`, `_extension`, `_softphone`,
whether the departments and the socket are there), `page` (`_logged_in`,
`_isRegistering`, `_sub_login` of `main.dart`), `form` (`_isPending`,
`_wasSuccessful`) and `native` (the account stored on Android and the
default account of the core; accounts that are no longer the default decide
nothing the page shows). `requests`
are the REST calls in flight, each with the user its callback closes over; the
server answers any of them at any time, or the network loses it. A handler is
an operator from the phone and the requests to both; `Handle` picks the
callback by the kind of the request, and `InvalidLogin` is what `apiV1Call`
does for all of them when the session is refused. Reads and writes of
SharedPreferences are taken to happen with the code around them.

`Register` and `Unregister` are what native code does: Android keeps the
credentials it has and registers only when it has none, iOS adds an account
and makes it the default, both disable the default account and no other.
`crossed` is a history variable: an answer was used after the session it was
asked for had ended. The code has no guard against that, so the properties
about whose phone it is are stated as long as it has not happened; the gaps
are listed below.

Left out: `_onUnregister` (no native code reports the failed registration that
calls it), the heartbeat (the branch that reconnects the socket is dead code),
the registration again ten seconds after iOS reports it cleared (it registers
whom the page registered), the token sent after log-in, and the data looked up
for the stores, whose answers nothing waits for.

### Conversation

`phone.list` counts the rows of each message in `conversationMessages` (a bag:
the list is sorted by time whenever a page is merged, so the order is not
state), `phone.db` is the table `sms_message`, `phone.last` the id in
`conversation.message`, from which an unsent message takes its own.
`lookups` are the calls of `getMessages` under way; each reads the database,
shows what it found, asks the server and shows that, with the offset the view
has at the time (`Show`), not the one it was asked for. `coming` holds answers
to sent messages and socket events. `typing` is the bubble in the list (at
most one; earlier ones live on in timers), the users each bubble names, the
timers `usersTimers` knows and those that run without it.

An unsent message whose id the server gives to another one is a row that an
event turns into what looks like that message, `"mistaken"`. Left out: the
order of rows, media and scheduled messages, conversations without an id, the
list of conversations, unread counts, and the sound of a message.

## Runs

| Run | Instance | What it shows |
|---|---|---|
| `softphone_ios` | 2 calls, 3 uuids (one only CallKit knows), 2 objects | types; some call has the focus when calls are listed; the active call is in the list; one disposition per call; an arriving call leaves the focus alone; each step is one of the call book's |
| `android_foreground` | 2 calls, channel of 2 commands and 1 core event, 2 activities | no call goes on unseen; some call has the focus when calls are listed; each call listed once; the shown state is the core's once events are handled; a focus change holds all others |
| `android_liveness` | 1 call, 1 resume, 2 activities, 6 objects | types; an ended call that is still shown, in however many copies, has its removal on the way; ended calls leave the screen; calls taken off the screen end in the core |
| `ios_calls` | 1 outgoing and 1 incoming call, 1 command, request and event waiting | no call goes on that neither the app shows nor is about to be announced or ended; the shown state is the core's once events are handled; an answer given on the system's screen is on its way, kept, or carried out, or the call is being ended in the app |
| `ios_liveness` | 1 call, made or received | types; a call that is over leaves the system's screen, if it was there while the app listed it; a call taken off the app's screen ends |
| `ios_unwraps` | 1 outgoing, 1 incoming call, 1 stray push | a violation: `lpSetHold` is sent for a uuid native code does not know |
| `telecom_connections` | 3 calls, each reported up to twice, 2 requests, 3 connections | types; the connection of a call with media is active, or was ended with an earlier call; a call's connection is not taken away by other calls |
| `telecom_zombies` | 2 calls, each reported up to twice, 3 requests, 4 connections | a violation: the loop of `onLastCallEnded` leaves a connection behind, also after every call was released |
| `notifications` | 3 calls, 2 seconds, calls of other apps | types; quiet after the last call; a hang-up notification has its call |
| `notifications_microphone` | 2 calls, 2 seconds | a violation: the service stops with the call answered last, not with the last call |
| `session` | 2 users, both platforms, 1 retry, 2 requests in flight | types; a finished log-out sticks; the registered device is the user's; a refusal shown is final; an attempt to log in ends, whatever else the phone keeps asking for; requests end |
| `conversation` | 2 coworkers and room for 1 name, pages of 1, ids 1 to 3, 2 look-ups, 4 rows, 2 bubbles, 4 things that happen | types; a message is shown at most once while no older page is loaded; the spinner has a look-up to end it; a typing user has a timer for the bubble that names him |

Two calls are enough for every rule about the focus (the active call and one
other); a third copy of a call on Android (`MaxObjects = 3`) is enough for one
copy to be removed with the focus on another. `MaxObjects` is never reached in
`android_foreground` and `android_liveness`: raising it adds
no state. `MaxPending` bounds how many commands wait when a handler starts
(the handler may add several), `MaxEvents` how many events wait when the core
acts on its own: messages of both sides are then still on their way together,
which is the interleaving the properties are about. Symmetry exchanges the
calls (with their uuids) and is used for safety only. The liveness run has one
call and no symmetry. In `IosCalls` the bounds of one waiting command,
request and event restrict when a handler starts: each may add several, so
all three queues are non-empty together. With two waiting commands the three
invariants of `ios_calls` were searched up to a depth of 60 and 7 million states
without a violation, a run too long to be kept: a user who hangs up in the app may then answer on the system's
screen before native code has taken the hang-up, which is why `SystemAnswerCounts`
leaves out calls whose end was sent. In `TelecomConnections` the third call is the
one that is given the connection of a call that is over, while another
goes on; two reports of a call and two requests make a duplicate and a
connection that is created after its call has changed. On Android the active call may be a copy that is no longer listed, so
`FocusIsListed` is stated for iOS only, and `android_foreground` states what
holds there. In
`CallNotifications` the third call is the one that finds the service gone
after the first two; two seconds let two of the three share an id. Every call
connects once, so nothing else needs a bound.

In `session` one retry tells a count that is passed on from one that is not;
the code's five change nothing else. `MaxRequests` bounds what is in flight
when the user or the network starts something, and answers may ask for more.
In `conversation` `MaxHappened` counts what users, other writers and pushes do
to one view, and everything that follows from it (answers, events, look-ups,
timers) runs to its end, so the system may stop there and deadlock is not
checked. Four are enough for each pair of hazards to meet: two sent messages
with two look-ups, an unsent message between a sent one and its event, two
typing users with a look-up that drops their bubble and a third status that
makes another.

Operators whose comment begins with "Slip" are not part of the specification:
each is a definition as a plausible mistake would have it, and the property it
is paired with in `PROJECT.json` fails when it takes the definition's place.

### Known gaps

What the models show of the code and no run is spent on:

- `RingingDidTimeout` never ends a call: the guard wants an entry of
  `answeredUuids` that is not true, and only true is ever written
  (`ProviderDelegate.swift:1021`, `:1091`). A pushed call that never arrives
  rings until the user declines it. So does a call whose push comes after Dart
  took it off the list: only `_removeCall` asks CallKit to end a call, and
  `AppDelegate.swift:219` shows the uuid without a look at the core.
  `EndedCallsLeaveCallKit` is therefore stated of calls that are on the system's
  screen while they are listed or their announcement is on the way.
- `stopUpdates` cancels the coroutine that waits with an incoming call's
  notification whichever call it is (`NotificationsManager.kt:158`): of two
  calls that arrive within a second the first is never displayed.
- `dismissCallNotification` asserts a start id (`NotificationsManager.kt:388`)
  that a call never answered does not have once the service ran for another;
  `Dismissed` cancels the notification before that and stops there.
- A call declined in CallKit before its INVITE arrives rings in the app.
- `_checkAudio` asserts an active call (`softphone.dart:130`) and runs at the
  end of `callStateChanged`, also when the call that has just ended was the
  last one: the handler then fails with a null error.
- `onUnhold` sets the telecom connection active whether or not the core
  resumed the call (`NativeCallWrapper.kt:74`).
- A connection made for a call that never got an id outlives it when telecom
  creates it after the end, or when it is the second one without an id. It is
  disconnected when no call is left but may stay in the list (see
  `telecom_zombies`), and the next outgoing call is given it
  (`TelecomConnectionService.kt:195`): `StreamingIsActive` excepts it.
- A refused accept is not repeated: `answerTime` is set when the command is
  sent (`softphone.dart:1127`).
- A late answer acts for a session that is over: the answer to an automatic
  log-in sets the username and the socket after a log-out, the answer to the
  device lookup stores and registers the device of the user who left
  (`main.dart:661`). On Android two attempts to log in that overlap leave the
  first user's account registered under the second user's session, since
  `lpRegister` keeps the account it has (`FMCore.kt:321`).
- An unsent message may have the id of a message of the server
  (`messages.dart:838`): storing either replaces the other, and an event about
  the one makes the other look sent.
- `PhoneIsTheUsers` says nothing once a late answer was used (`crossed`): that
  half is the gap above, and what it does state is the other half, a page, a
  stored account or a restart that would keep the device of the user who left.
- `apiV2Call` calls back with each refusal of a request it sends again
  (`fusion_connection.dart:619`); `WrongIsFinal` and `RequestsEnd` are about
  the calls of a log-in, which use `apiV1Call`. Only the look-up of the call
  history, which is not modelled, gives `apiV2Call` an `onError` and so is sent
  again (`call_history.dart:252`).
- A look-up the network loses leaves `loadingMoreMessages` set, so that no older
  page is loaded until a later look-up is answered (`conversation.dart:190`);
  `LoadingIsAsking` excepts lost look-ups.
- "Try Again" removes the unsent message from the phone and sends nothing
  (`messageRow.dart:99`).
- Beyond the first page every look-up adds its rows twice, from the phone and
  from the server, and a push makes a look-up with the offset of the last page
  (`conversation.dart:149`), so that a new message is not shown by it.
- Pages are ordered by an id that is a TEXT column (`fusion_connection.dart:244`,
  `messages.dart:733`).

### Fairness

`AndroidCalls!Spec` assumes that messages are delivered: `WF` of
`NativeCommand` (the main thread runs posted handlers) and `SF` of
`DartEvent`. A Dart handler never waits for commands to be taken, only the
bound `MaxPending` makes it so; strong fairness undoes that, so a user who
taps for ever cannot starve events. Nothing is assumed of the user, the
remote party or the life cycle of the activity. `IosCalls!Spec` assumes the
same of both directions (strong here for both, since the bound `MaxRequests`
also makes commands wait, which the code does not) and that CallKit performs
transactions, tells its observer, and timers fire (`WF`).
`CallNotifications!Spec`
assumes that the main thread resumes the waiting coroutine and delivers
`onStartCommand` (`WF` of each). `Session!Spec` assumes that the HTTP client
answers or fails in the end, and that the retry after a second and the timer of
the log-in form fire (`WF`); nothing is assumed of the user, of connectivity or
of restarts. The timer alone would free the form; that nothing of the attempt is
left in flight besides, however often the phone logs out, restarts or comes back
on line, is what `LogInEnds` needs the rest for: retries that are counted and
departments that are asked for once. `Conversation` states safety only.

## Proofs

`Softphone_proofs` is checked by TLAPS for every number of calls, uuids and
objects, from `SoftphoneAssumption` and `NoCallIsNull` alone.

- `SoftphoneFocus`: `Spec => [](TypeOK /\ CallsHaveFocus)`. The invariant is
  inductive only with `TypeOK`'s bounds on objects (`Sound`): every object in
  use has a number up to `created`, which `Oldest` needs to be well defined.
  Each method is shown to keep `Sound` and to do one of a few things to the
  list (`Handled`: keep it, add one call, remove one id or two); `NextHandled`
  says so of each action and `HandledFocused` concludes.
- `IosFocus`: `Spec => [](FocusIsListed /\ AskedOncePerCall)`. The invariant
  `IosInv` adds that ids are unique in the list and that every listed call has
  an entry in `callData`, so that a call, once announced, is never announced
  anew and cannot enter `endedCalls` a second time.
- `IosKeepsBook`: `~Android => (Spec => KeepsBook)`, the refinement. Each
  method is shown to leave the mapped state alone, to attend to one call, to
  bring one call or to end one or two (the lemmas on `Stage` after each
  operator); under `IosInv` and the focus each is a step of `CallBook`. That a
  call over stays over rests on the entries of `callData`, which are never
  removed; that ended calls leave the focus with a call that goes on, on
  `IosFocus`.
- `SoftphoneTypes` and `IosAskedOnce` state one part each of the two theorems
  above.
- `ArrivalsLeaveFocus`: `Spec => ArrivalKeepsFocus`, an action property. Only an
  announcement lists a call, and `AddCall` moves the focus only if nobody has it,
  the call is outgoing, or it was answered already.
- `SoftphoneHoldsOthers`: `Spec => FocusHoldsTheOthers`, an action property, if
  commands are kept (`MaxPending # 0`). Every method only appends commands
  (`Follows`), and one that moves the focus appends a hold for each other call
  that is listed (`Moves`, `Tells`); methods in a row keep that up
  (`MovesTransitive`).

`CallNotifications_proofs` is checked for every number of calls and of seconds,
from `NotificationsAssumption` alone.

- `QuietPhone`: `Spec => []QuietAfterLastCall`, `HangUpHasCall`:
  `Spec => []OngoingHasCall`, and `NotificationTypes`: `Spec => []TypeOK`. The
  first two are not inductive. `IInv` adds what
  holds while calls go on: whatever is shown, or remembered in
  `activeNotification`, as ongoing has a call in `callNotificationsMap` with its
  id (`OngoingHeld`, `ActiveHeld`); the manager's reference is to the instance
  in the foreground, so that its `stopForeground` at the last call reaches it
  (`ForegroundReached`); and this because starts are delivered in the order of
  the instances they were asked of, so that a late `onStartCommand` never
  replaces the reference by an older one (`StartsInOrder`).

`Conversation_proofs` is checked for any page size and any number of messages,
coworkers, rows and look-ups, from `ConversationAssumption` alone.

- `ConversationTypes`: `Spec => []TypeOK`. The one step that takes work is the
  clamp of the offset and `Show`, which may add rows only as far as `Fits`.
- `ConversationTypingIsTimed`, `ConversationOnceAtTop`,
  `ConversationLoadingIsAsking`: each invariant is inductive on top of
  `TypeOK`. For the first page a message is either replaced with the list,
  inserted when no row has its id, or left; every action is shown to do one of
  these. For typing, every step that gives a bubble a user gives a timer with
  it, and every step that takes a timer away takes the user or the bubble.

`Session_proofs` is checked for any number of users, retries and requests in
flight, from the assumption of `Session` alone.

- `SessionTypes`, `SessionLogOut` (`LogOutSticks`) and `SessionPhone`
  (`PhoneIsTheUsers`). The invariant is `TypeOK /\ (~crossed => Good(app))`.
  `Good` adds to the two properties what they rest on: the preferences and
  the accounts name one user (`OneUser`); the home page has no other device than
  the one that is kept (`DeviceIsKept`); native code stores no account once the
  preferences keep no device (`StoredIsKept`), for it registers what it stored
  when the process starts; and while the form is shown nobody's device is kept
  or registered (`NobodyAtTheForm`). Each
  handler keeps `Good`, save the answer to a request of an earlier session,
  and that one sets `crossed`.
- `SessionWrong`: `Spec => WrongIsFinal`, an action property. Every handler
  leaves what the form says of the password (`Calm`) or leaves no request in
  place of the one it was the answer to (`CalmOrLast`).

`TelecomConnections_proofs` is checked for any number of calls, reports,
requests and connections, from `TelecomAssumption` alone.

- `TelecomTypes` and `TelecomActive` (`StreamingIsActive`). `StreamingShown`
  is the property without the choice of `FirstMatch`; it is inductive with
  `TypeOK`. The helpers on the list are treated once each: events change states
  only (`Renewed`), `Drop` takes away one connection of the call that is over,
  `Adopt` names what has no id, and a new connection starts in the state of its
  call. The step lemma `NextStep` says of each action what both theorems need.
- `TelecomKeeps` (`LiveCallKeepsConnection`) is an action property, from the
  same lemmas and `TypeOK`.

`AndroidCalls_proofs` is checked for any number of calls, objects, listeners,
resumes and messages on their way, from the assumptions of `AndroidCalls` and
`NoCallIsNull`.

- `AndroidSeen`: `Spec => []NoCallUnseen`. On Dart's side every method is shown
  to do one of three things (`Rests`, `Sheds`, `Announced`), and whatever it
  takes off the list it tells native code to end (`Accounts`). That needs
  `Linked`: a listed call is found by its uuid, or the command would go astray.
  On the core's side a request starts at most one call (`StartsOne`), and a call
  that starts is announced to every listener in that step (`Reported`). The
  invariant `Seen` joins both sides.
- `AndroidLeaves`: `Spec => []EndedCallLeaves`. The invariant `Leaving` says
  where the last word about an ended call is: while it is listed or about to
  be, its release is on the way to Dart behind every announcement of it
  (`EndsLast`), since the channel is in order and nothing announces a call that
  is over. Taking the release off the list removes every copy.
- `AndroidTypes` and `AndroidFocus` carry the theorems of `Softphone_proofs`
  over. Events and the user are steps of `Softphone` (`PhoneSteps`), because the
  channel holds nothing but events it expects (`EventIsExpected`), and native
  code only takes commands; `P!NextHandled` and `P!HandledFocused` say the rest.
  `AndroidCalls` and `Softphone_proofs` each have an instance of `Softphone`,
  and the lemmas from `SameLookUps` to `SameSteps` say that the two are one.
- `AndroidHoldsOthers`: `Spec => FocusHoldsTheOthers`, from the same lemmas:
  native code only takes commands, and a new activity changes no focus.
- `AndroidListedOnce` (`ListedOnce`) and `AndroidShowsCurrent`
  (`ShownStateIsCurrent`), both for as long as `MainActivity` does not resume.
  The invariant `Shown` says of each call (`ShownCall`) that Dart knows nothing
  of it before it begins; that its announcements come before its updates on the
  channel; that a call that is announced with no update behind it is still
  ringing, which is what the new object will show; that the last update on the
  way says what the core has; and that the list already shows it when there is
  none. It needs one object per call, with a number of its own
  (`P!Numbered`, `P!OneObject`), for the state is kept by that number. A request
  brings one call into a reported state at most, or ends several (`Lawful`), so
  that the events it appends say what the core has (`Told`, `ReactTells`).

`IosCalls_proofs` is checked for any number of calls, pushes and messages on
their way, from `IosCallsAssumption` and `NoCallIsNull`.

- `IosSeen`: `Spec => []NoCallUnseen`. As on Android every method accounts for
  what it takes off the list (`Accounts`), but by the uuid the call has:
  `answerButtonPressed` may give a call another's uuid and a later event restore
  it. So the invariant `Seen` says of every live call that still has its own uuid
  that it is listed, about to be announced or being ended (`Watched`), and only a
  listed call can lose its uuid or get it back. What is about to be announced has
  begun, is announced once and has no entry in `callData` yet (`AnnouncedOnce`);
  every object made so far belongs to an entry (`PhoneInv`), hence there
  is an object for each announcement (`ObjectIsLeft`) and it does list the call.
  On the core's side a step starts at most one call and none a second time
  (`CoreStep`). When the process dies the core's calls and Dart's list go together.
- `IosTypes` needs the same invariant, as `created` is bounded by it. As on
  Android the theorems about the Dart class are carried over (`IosInv`, by
  `SameSteps`).

- `IosShowsCurrent`: `Spec => []ShownStateIsCurrent`. As on Android the invariant
  `Shown` says for each call what its announcement, the updates on the way and
  the list must say together. It needs `Apart`: CallKit rings for calls that
  this phone gets, at any time, and for none that it makes (`RungOrCalled`), and each event is of a call of its own kind, so that a
  mistaken link (`NoneMistaken` false) is never repaired while the process lives
  and the calls of a phone without one are all under their own uuids
  (`LookupFindsOwn`). A step of native code brings one call into a reported
  state at most, and says so (`TellsOne`).

- `IosAnswerCounts`: `Spec => []SystemAnswerCounts`. The invariant is `Counts`,
  which has two parts. `Counted` says where the answer of a call can be: on the
  channel, with the call, kept until the call is announced while its announcement
  is still on the way, or overtaken by the app's command to end the call.
  `DialsBegun` says that CallKit shows a call as dialling, and is asked or told to
  start one, only if the call has begun or CallKit already shows it: without it a
  call could become connected on the system's screen with no answer. The
  step lemmas split in two. `Minds` is about Dart: each method of the class keeps
  every answer it has (`Answers`, by the uuid the call has) and reports to CallKit
  only outgoing calls that have begun. `NativeCounts` is about what native code
  and CallKit make of their messages. The proof uses `Apart`, and that a mistaken
  link stays (`MistakesStay`).

Only model-checked: the six liveness properties (`EndedCallsAreRemoved`,
`RemovedCallsEnd` on both platforms, `EndedCallsLeaveCallKit`, `LogInEnds`,
`RequestsEnd`): liveness under fairness is outside what TLAPS proves. Every
invariant and every action property of the passing runs is a theorem, and so is the
refinement of `CallBook`. No module uses recursion.

## Plan

Done: `Softphone` and its abstract `CallBook`, `AndroidCalls`,
`TelecomConnections`, `CallNotifications`, `IosCalls`, `Session` and
`Conversation`, with the proofs above. What is left, in order:

1. The guard `callInitiated` of `makeCall` as a state with its nine-second
   timer, and dynamic dialling with its answers; `Dialled` has their outcome.
2. The list of conversations (`ChatsVM`) and the department its answers are
   for, unread counts, and conversations the server does not know yet.

## Not modelled

Besides what is planned: widgets and styles, contacts and their import,
presence, call history, voicemails, park lines, settings, recordings, audio
routes, call quality, SIP registration parameters and CRM lookups. They are
data that is fetched anew or shown as it is, without state that interacts, or
belong to the phone. What lies under `ios/*.framework/Headers` are the C headers
of linphone, mediastreamer, belle-sip and the other libraries the binaries of
which are linked: declarations of external code, without behaviour to model.
The application itself is the Dart, Kotlin and Swift code listed above.
