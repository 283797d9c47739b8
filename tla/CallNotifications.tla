-------------------------- MODULE CallNotifications --------------------------
(***************************************************************************)
(* The notifications of calls on Android and the foreground service that   *)
(* keeps the microphone for them (NotificationsManager, FusionCallService, *)
(* FirebaseMessagingService).                                              *)
(*                                                                         *)
(* Everything runs on the main thread, in turns: the listener of the core, *)
(* the coroutine that waits for a push before it shows an incoming call,   *)
(* and onStartCommand, some time after the service was started.            *)
(***************************************************************************)
EXTENDS Naturals, Sequences, FiniteSets

CONSTANTS
  Calls,             \* the calls of the core
  NoCall,            \* no job is waiting
  Seconds,           \* bound: start times of calls, which name notifications
  ManagedCalls       \* whether the phone may be in a call of another app

ASSUME NotificationsAssumption ==
  /\ NoCall \notin Calls /\ IsFiniteSet(Calls)
  /\ Seconds \in Nat \ {0} /\ ManagedCalls \in BOOLEAN

VARIABLES
  core,                 \* state of each call, as far as notifications tell
  noteId,               \* second the call began in: its notification id
  background,           \* calls announced while the app was in the background
  incomingNotification, \* the flag a push sets
  job,                  \* the call the coroutine waits with
  callNotificationsMap, \* calls that have a Notifiable
  activeNotification,   \* last notification built under each id
  tray,                 \* what the phone shows under each id
  service,              \* Android's record of FusionCallService
  callService,          \* the instance the manager knows, 0 for null
  callServiceStartId,   \* start id per notification id, 0 for none
  starts                \* startService calls not yet delivered

note == <<callNotificationsMap, activeNotification, tray>>
srv == <<service, callService, callServiceStartId, starts>>
vars == <<core, noteId, background, incomingNotification, job, note, srv>>

Ids == 1..Seconds

LiveCalls == {c \in Calls : core[c] \notin {"none", "ended"}}

Init ==
  /\ core = [c \in Calls |-> "none"] /\ noteId = [c \in Calls |-> 1]
  /\ background = {} /\ incomingNotification = FALSE /\ job = NoCall
  /\ callNotificationsMap = {}
  /\ activeNotification = [i \in Ids |-> "none"] /\ tray = [i \in Ids |-> "none"]
  /\ service = [instance |-> 0, running |-> FALSE, lastStart |-> 0, foreground |-> 0]
  /\ callService = 0 /\ callServiceStartId = [i \in Ids |-> 0] /\ starts = <<>>

-----------------------------------------------------------------------------
(* Android's side of the service and of the tray.                          *)

(* Start ids count from 1 again when the service is created anew. *)
StartService(s) ==
  IF s.running THEN [s EXCEPT !.lastStart = @ + 1]
  ELSE [instance |-> s.instance + 1, running |-> TRUE, lastStart |-> 1, foreground |-> 0]

(* The notification the service had before goes when it takes another. *)
InForeground(t, s, i, n) ==
  [j \in Ids |-> IF j = i THEN n ELSE IF j = s.foreground THEN "none" ELSE t[j]]

(* A notification of the service in the foreground cannot be cancelled. *)
Cancel(t, s, i) == IF i = s.foreground THEN t ELSE [t EXCEPT ![i] = "none"]

Background(s) == [s EXCEPT !.foreground = 0]
WithoutForeground(t, s) == [j \in Ids |-> IF j = s.foreground THEN "none" ELSE t[j]]

(* The manager may hold an instance that was destroyed: nothing comes of   *)
(* what it asks that one.                                                  *)
Reachable == service.running /\ callService = service.instance

-----------------------------------------------------------------------------
(* Incoming calls. *)

Begins(c, s) ==
  /\ core[c] = "none" /\ core' = [core EXCEPT ![c] = s]
  /\ \E t \in Ids : /\ \A d \in Calls : core[d] # "none" => noteId[d] <= t
                    /\ noteId' = [noteId EXCEPT ![c] = t]

(* Slip: an incoming call is notified also while the app is open. *)
IncomingReceivedAlways(c) ==
  /\ Begins(c, "incoming") /\ job' = c
  /\ \/ background' = background \cup {c}
     \/ UNCHANGED background
  /\ UNCHANGED <<incomingNotification, note, srv>>

(* In the background the coroutine of the call before is cancelled and a   *)
(* new one waits for the push; in the foreground nothing is done.          *)
IncomingReceived(c) ==
  /\ Begins(c, "incoming")
  /\ \/ background' = background \cup {c} /\ job' = c
     \/ UNCHANGED <<background, job>>
  /\ UNCHANGED <<incomingNotification, note, srv>>

PushReceived ==
  /\ incomingNotification' = TRUE
  /\ UNCHANGED <<core, noteId, background, job, note, srv>>

(* The coroutine ends with the push or after a second without one.  By     *)
(* then the call may have been answered or be over.                        *)
DisplayIncomingCall(c) ==
  /\ callNotificationsMap' = callNotificationsMap \cup {c}
  /\ \/ /\ tray' = [tray EXCEPT ![noteId[c]] = "incoming"]
        /\ activeNotification' = [activeNotification EXCEPT ![noteId[c]] = "incoming"]
     \/ ManagedCalls /\ UNCHANGED <<tray, activeNotification>>

JobDisplays ==
  /\ job # NoCall /\ job' = NoCall /\ incomingNotification' = FALSE
  /\ DisplayIncomingCall(job)
  /\ UNCHANGED <<core, noteId, background, srv>>

-----------------------------------------------------------------------------
(* Calls that go on. *)

OutgoingInit(c) ==
  /\ Begins(c, "outgoing")
  /\ UNCHANGED <<background, incomingNotification, job, note, srv>>

Display(c) ==
  /\ callNotificationsMap' = callNotificationsMap \cup {c}
  /\ activeNotification' = [activeNotification EXCEPT ![noteId[c]] = "ongoing"]

(* Every state but the first ones and the last ones shows the call anew. *)
StateChanged(c) ==
  /\ core[c] \in {"outgoing", "connected"}
  /\ Display(c) /\ tray' = [tray EXCEPT ![noteId[c]] = "ongoing"]
  /\ UNCHANGED <<core, noteId, background, incomingNotification, job, srv>>

(* Connected also starts the service and puts the instance it knows in the *)
(* foreground.  Android may refuse to start a service from the background, *)
(* which ends the handler.                                                 *)
Connected(c) ==
  LET s == StartService(service)
      t == [tray EXCEPT ![noteId[c]] = "ongoing"]
      reached == Reachable
  IN /\ core[c] \in {"incoming", "outgoing"} /\ core' = [core EXCEPT ![c] = "connected"]
     /\ Display(c)
     /\ \/ /\ starts' = Append(starts, [instance |-> s.instance,
                                      startId |-> s.lastStart, id |-> noteId[c]])
           /\ service' = IF reached THEN [s EXCEPT !.foreground = noteId[c]] ELSE s
           /\ tray' = IF reached THEN InForeground(t, service, noteId[c], "ongoing") ELSE t
        \/ tray' = t /\ UNCHANGED <<service, starts>>
     /\ UNCHANGED <<noteId, background, incomingNotification, job,
                    callService, callServiceStartId>>

(* A start for an instance destroyed meanwhile does not put it in the      *)
(* foreground.                                                             *)
Started(h, n) ==
  /\ IF service.running /\ service.instance = h.instance
     THEN /\ service' = [service EXCEPT !.foreground = h.id]
          /\ tray' = InForeground(tray, service, h.id, n)
     ELSE UNCHANGED <<service, tray>>
  /\ callService' = h.instance
  /\ callServiceStartId' = [callServiceStartId EXCEPT ![h.id] = h.startId]

(* Slip: whether there is a notification to show is not asked. *)
OnStartCommandUnchecked ==
  /\ starts # <<>> /\ starts' = Tail(starts)
  /\ Started(Head(starts), "ongoing")
  /\ UNCHANGED <<core, noteId, background, incomingNotification, job,
                 callNotificationsMap, activeNotification>>

OnStartCommand ==
  LET h == Head(starts) IN
  /\ starts # <<>> /\ starts' = Tail(starts)
  /\ IF activeNotification[h.id] # "none"
     THEN Started(h, activeNotification[h.id])
     ELSE UNCHANGED <<service, tray, callService, callServiceStartId>>
  /\ UNCHANGED <<core, noteId, background, incomingNotification, job,
                 callNotificationsMap, activeNotification>>

-----------------------------------------------------------------------------
(* Calls that end.  The handlers of End and of the last call work on what  *)
(* is shown and on the service: [tray, service].                           *)

(* Only the latest start id stops the service; a start id that was never   *)
(* noted is an error, after the notification was cancelled.                *)
Stops(i) ==
  /\ Reachable /\ callServiceStartId[i] # 0
  /\ callServiceStartId[i] = service.lastStart

Dismissed(c, shown) ==
  LET t == Cancel(shown.tray, shown.service, noteId[c])
  IN IF Stops(noteId[c])
     THEN [tray |-> WithoutForeground(t, shown.service),
           service |-> [Background(shown.service) EXCEPT !.running = FALSE]]
     ELSE [shown EXCEPT !.tray = t]

(* Slip: the service is stopped before the notification is cancelled. *)
DismissAfterStop(c, shown) ==
  IF c \notin callNotificationsMap \/ (callService # 0 /\ callServiceStartId[noteId[c]] = 0)
  THEN shown ELSE Dismissed(c, shown)

DismissCallNotification(c, shown) ==
  IF c \notin callNotificationsMap THEN shown ELSE Dismissed(c, shown)

LastCallEnded(shown) ==
  IF shown.service.running /\ callService = shown.service.instance
  THEN [tray |-> WithoutForeground(shown.tray, shown.service),
        service |-> Background(shown.service)]
  ELSE shown

Ended(c) ==
  LET shown == [tray |-> tray, service |-> service]
      after == IF LiveCalls # {c} THEN {DismissCallNotification(c, shown)}
               ELSE {LastCallEnded(DismissCallNotification(c, shown)),
                     DismissCallNotification(c, LastCallEnded(shown))}
  IN /\ c \in LiveCalls /\ core' = [core EXCEPT ![c] = "ended"]
     /\ \E s \in after : tray' = s.tray /\ service' = s.service
     /\ callNotificationsMap' = callNotificationsMap \ {c}
     /\ activeNotification' =
          IF c \in callNotificationsMap
          THEN [activeNotification EXCEPT ![noteId[c]] = "none"] ELSE activeNotification
     /\ UNCHANGED <<noteId, background, incomingNotification, job,
                    callService, callServiceStartId, starts>>

(* Dart cancels what the app shows when it answers or drops a call. *)
DartCancelsAll ==
  /\ tray' = [i \in Ids |-> IF i = service.foreground THEN tray[i] ELSE "none"]
  /\ UNCHANGED <<core, noteId, background, incomingNotification, job,
                 callNotificationsMap, activeNotification, srv>>

Next ==
  \/ \E c \in Calls :
       \/ IncomingReceived(c) \/ OutgoingInit(c) \/ StateChanged(c)
       \/ Connected(c) \/ Ended(c)
  \/ PushReceived \/ JobDisplays \/ OnStartCommand \/ DartCancelsAll

(* The main thread resumes coroutines and runs what is posted to it. *)
Spec == Init /\ [][Next]_vars /\ WF_vars(JobDisplays) /\ WF_vars(OnStartCommand)

-----------------------------------------------------------------------------
Shows == {"none", "incoming", "ongoing"}

TypeOK ==
  /\ core \in [Calls -> {"none", "incoming", "outgoing", "connected", "ended"}]
  /\ noteId \in [Calls -> Ids] /\ background \subseteq Calls
  /\ incomingNotification \in BOOLEAN /\ job \in background \cup {NoCall}
  /\ callNotificationsMap \subseteq Calls
  /\ activeNotification \in [Ids -> Shows] /\ tray \in [Ids -> Shows]
  /\ service \in [instance : Nat, running : BOOLEAN, lastStart : Nat, foreground : 0..Seconds]
  /\ callService \in Nat
  /\ callServiceStartId \in [Ids -> Nat]
  /\ starts \in Seq([instance : Nat, startId : Nat, id : Ids])

(* When no call is left nothing on the phone says that one goes on, and    *)
(* the service does not hold the microphone, unless with the late          *)
(* notification of a call that rang.                                       *)
QuietAfterLastCall ==
  LiveCalls = {} =>
    \A i \in Ids : /\ tray[i] # "ongoing"
                   /\ service.foreground = i => activeNotification[i] = "incoming"

(* A notification that lets the user hang up stands for a call that goes   *)
(* on, save the one the service holds, which goes when the service does.   *)
OngoingHasCall ==
  \A i \in Ids : tray[i] = "ongoing" /\ service.foreground # i
                   => \E c \in LiveCalls : noteId[c] = i

(* Once started for a call, the service is kept running while the call     *)
(* goes on, "to [...] keep the mic active at all time": shown for calls    *)
(* that did not begin within the same second.                              *)
KeepsMicrophone ==
  [][\A c \in Calls :
       /\ \A d \in Calls \ {c} : noteId[d] # noteId[c]
       /\ service.foreground # 0 /\ callServiceStartId[noteId[c]] # 0
       /\ core[c] = "connected" /\ core'[c] = "connected"
       => service'.foreground # 0]_vars

=============================================================================
