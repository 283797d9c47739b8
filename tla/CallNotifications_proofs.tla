----------------------- MODULE CallNotifications_proofs -----------------------
(***************************************************************************)
(* Proofs about CallNotifications for any number of calls and of seconds:  *)
(* what the phone shows and the service holds once no call is left, and    *)
(* that a hang-up notification has its call.                               *)
(***************************************************************************)
EXTENDS CallNotifications, TLAPS

(* Some call that goes on has its notification under id i. *)
Held(i) == \E c \in LiveCalls \cap callNotificationsMap : noteId[c] = i

(* OngoingHasCall, of calls the manager would dismiss. *)
OngoingHeld ==
  \A i \in Ids : tray[i] = "ongoing" /\ service.foreground # i => Held(i)

(* onStartCommand finds the notification of an ongoing call only while     *)
(* there is one.                                                           *)
ActiveHeld == \A i \in Ids : activeNotification[i] = "ongoing" => Held(i)

(* The manager knows the instance that is in the foreground. *)
ForegroundReached == service.foreground # 0 => Reachable

(* Starts are delivered in order, those of an instance that was destroyed  *)
(* before those of the next.                                               *)
StartsInOrder ==
  /\ callService <= service.instance
  /\ \A k \in DOMAIN starts :
       /\ callService <= starts[k].instance /\ starts[k].instance <= service.instance
       /\ \A l \in k..Len(starts) : starts[k].instance <= starts[l].instance

IInv ==
  /\ TypeOK /\ OngoingHeld /\ ActiveHeld /\ ForegroundReached
  /\ StartsInOrder /\ QuietAfterLastCall

-----------------------------------------------------------------------------
LEMMA InitInv == Init => IInv
<1> SUFFICES ASSUME Init PROVE IInv
  OBVIOUS
<1> USE NotificationsAssumption
<1>1. TypeOK
  <2>1. 1 \in Ids /\ Seconds \in Nat
    BY DEF Ids
  <2>2. starts \in Seq([instance : Nat, startId : Nat, id : Ids])
    BY DEF Init
  <2>3. service \in [instance : Nat, running : BOOLEAN, lastStart : Nat, foreground : 0..Seconds]
    BY <2>1 DEF Init
  <2>4. core \in [Calls -> {"none", "incoming", "outgoing", "connected", "ended"}] /\ noteId \in [Calls -> Ids]
    BY <2>1 DEF Init
  <2>5. /\ callServiceStartId \in [Ids -> Nat] /\ callService \in Nat
        /\ activeNotification \in [Ids -> Shows] /\ tray \in [Ids -> Shows]
    BY <2>1 DEF Init, Shows
  <2>6. /\ background \subseteq Calls /\ incomingNotification \in BOOLEAN
        /\ job \in background \cup {NoCall} /\ callNotificationsMap \subseteq Calls
    BY DEF Init
  <2> QED BY <2>2, <2>3, <2>4, <2>5, <2>6 DEF TypeOK
<1>2. OngoingHeld /\ ActiveHeld /\ ForegroundReached /\ StartsInOrder /\ QuietAfterLastCall
  BY DEF Init, OngoingHeld, ActiveHeld, ForegroundReached, StartsInOrder, QuietAfterLastCall, Ids
<1> QED BY <1>1, <1>2 DEF IInv

(* A step that takes no call out of the core or out of the map and gives   *)
(* none of those another id keeps every id held.                           *)
LEMMA StillHeld ==
  ASSUME LiveCalls \cap callNotificationsMap \subseteq LiveCalls' \cap callNotificationsMap',
         \A c \in LiveCalls \cap callNotificationsMap : noteId'[c] = noteId[c]
  PROVE  \A i : Held(i) => Held(i)'
BY DEF Held

(* A call that begins was not one that goes on, and goes on now. *)
LEMMA BeginsLive ==
  ASSUME TypeOK, NEW c \in Calls, NEW s \in {"incoming", "outgoing"}, Begins(c, s)
  PROVE  /\ core' \in [Calls -> {"none", "incoming", "outgoing", "connected", "ended"}]
         /\ noteId' \in [Calls -> Ids]
         /\ LiveCalls' # {} /\ LiveCalls \subseteq LiveCalls'
         /\ \A d \in LiveCalls : noteId'[d] = noteId[d]
BY DEF TypeOK, Begins, LiveCalls

(* A step that leaves the service's instance and the starts alone keeps    *)
(* them in order.                                                          *)
LEMMA StillInOrder ==
  ASSUME StartsInOrder, UNCHANGED <<callService, starts>>, service'.instance = service.instance
  PROVE  StartsInOrder'
BY DEF StartsInOrder

LEMMA StartsTyped ==
  ASSUME TypeOK
  PROVE  \A k \in DOMAIN starts : starts[k].instance \in Nat
<1> DEFINE E == [instance : Nat, startId : Nat, id : Ids]
<1>1. starts \in Seq(E)
  BY DEF TypeOK
<1> HIDE DEF E
<1>2. \A k \in DOMAIN starts : starts[k] \in E
  BY <1>1
<1> QED BY <1>2 DEF E

-----------------------------------------------------------------------------
LEMMA IncomingReceivedInv ==
  ASSUME IInv, NEW c \in Calls, IncomingReceived(c)
  PROVE  IInv'
<1> USE DEF IInv
<1>1. Begins(c, "incoming") /\ UNCHANGED <<note, srv>>
  BY DEF IncomingReceived
<1>2. TypeOK'
  BY <1>1, BeginsLive DEF IncomingReceived, TypeOK, note, srv
<1>3. \A i : Held(i) => Held(i)'
  BY <1>1, BeginsLive, StillHeld DEF note
<1>4. OngoingHeld' /\ ActiveHeld' /\ ForegroundReached' /\ StartsInOrder'
  BY <1>1, <1>3, StillInOrder DEF OngoingHeld, ActiveHeld, ForegroundReached, Reachable, note, srv
<1>5. QuietAfterLastCall'
  BY <1>1, BeginsLive DEF QuietAfterLastCall
<1> QED BY <1>2, <1>4, <1>5

LEMMA OutgoingInitInv ==
  ASSUME IInv, NEW c \in Calls, OutgoingInit(c)
  PROVE  IInv'
<1> USE DEF IInv
<1>1. Begins(c, "outgoing") /\ UNCHANGED <<note, srv>>
  BY DEF OutgoingInit
<1>2. TypeOK'
  BY <1>1, BeginsLive DEF OutgoingInit, TypeOK, note, srv
<1>3. \A i : Held(i) => Held(i)'
  BY <1>1, BeginsLive, StillHeld DEF note
<1>4. OngoingHeld' /\ ActiveHeld' /\ ForegroundReached' /\ StartsInOrder'
  BY <1>1, <1>3, StillInOrder DEF OngoingHeld, ActiveHeld, ForegroundReached, Reachable, note, srv
<1>5. QuietAfterLastCall'
  BY <1>1, BeginsLive DEF QuietAfterLastCall
<1> QED BY <1>2, <1>4, <1>5

LEMMA PushReceivedInv == IInv /\ PushReceived => IInv'
<1> SUFFICES ASSUME IInv, PushReceived PROVE IInv'
  OBVIOUS
<1> QED
  BY StillInOrder
     DEF IInv, PushReceived, TypeOK, OngoingHeld, ActiveHeld, ForegroundReached, Reachable,
         QuietAfterLastCall, Held, LiveCalls, note, srv

(* The late notification of a call that rang is the one that may outlive   *)
(* the last call.                                                          *)
LEMMA JobDisplaysInv == IInv /\ JobDisplays => IInv'
<1> SUFFICES ASSUME IInv, JobDisplays PROVE IInv'
  OBVIOUS
<1> USE DEF IInv
<1>1. /\ job \in Calls /\ noteId[job] \in Ids
      /\ UNCHANGED <<core, noteId, background, srv>> /\ job' = NoCall /\ incomingNotification' = FALSE
      /\ callNotificationsMap' = callNotificationsMap \cup {job}
      /\ \/ /\ tray' = [tray EXCEPT ![noteId[job]] = "incoming"]
            /\ activeNotification' = [activeNotification EXCEPT ![noteId[job]] = "incoming"]
         \/ UNCHANGED <<tray, activeNotification>>
  BY DEF JobDisplays, DisplayIncomingCall, TypeOK
<1>2. TypeOK'
  BY <1>1 DEF TypeOK, Shows, srv
<1>3. \A i \in Ids : /\ tray'[i] = tray[i] \/ tray'[i] = "incoming"
                     /\ activeNotification'[i] = activeNotification[i] \/ activeNotification'[i] = "incoming"
  BY <1>1 DEF TypeOK
<1>4. (\A i : Held(i) => Held(i)') /\ LiveCalls' = LiveCalls /\ service' = service /\ callService' = callService
  BY <1>1 DEF Held, LiveCalls, srv
<1>5. OngoingHeld' /\ ActiveHeld' /\ ForegroundReached' /\ QuietAfterLastCall'
  BY <1>3, <1>4 DEF OngoingHeld, ActiveHeld, ForegroundReached, Reachable, QuietAfterLastCall
<1>6. StartsInOrder'
  BY <1>1, StillInOrder DEF srv
<1> QED BY <1>2, <1>5, <1>6

-----------------------------------------------------------------------------
LEMMA StateChangedInv ==
  ASSUME IInv, NEW c \in Calls, StateChanged(c)
  PROVE  IInv'
<1> USE DEF IInv
<1>1. /\ c \in LiveCalls /\ noteId[c] \in Ids
      /\ UNCHANGED <<core, noteId, background, incomingNotification, job, srv>>
      /\ callNotificationsMap' = callNotificationsMap \cup {c}
      /\ tray' = [tray EXCEPT ![noteId[c]] = "ongoing"]
      /\ activeNotification' = [activeNotification EXCEPT ![noteId[c]] = "ongoing"]
  BY DEF StateChanged, Display, LiveCalls, TypeOK
<1>2. TypeOK'
  BY <1>1 DEF TypeOK, Shows, srv
<1>3. (\A i : Held(i) => Held(i)') /\ Held(noteId[c])' /\ LiveCalls' = LiveCalls
  BY <1>1 DEF Held, LiveCalls
<1>4. \A i \in Ids : i # noteId[c] => tray'[i] = tray[i] /\ activeNotification'[i] = activeNotification[i]
  BY <1>1 DEF TypeOK
<1>5. OngoingHeld' /\ ActiveHeld' /\ ForegroundReached' /\ QuietAfterLastCall'
  BY <1>1, <1>3, <1>4 DEF OngoingHeld, ActiveHeld, ForegroundReached, Reachable, QuietAfterLastCall, srv
<1>6. StartsInOrder'
  BY <1>1, StillInOrder DEF srv
<1> QED BY <1>2, <1>5, <1>6

LEMMA ConnectedInv ==
  ASSUME IInv, NEW c \in Calls, Connected(c)
  PROVE  IInv'
<1> USE DEF IInv
<1> DEFINE n == noteId[c]
           s == StartService(service)
<1>1. /\ c \in LiveCalls /\ n \in Ids /\ n # 0
      /\ core' = [core EXCEPT ![c] = "connected"]
      /\ callNotificationsMap' = callNotificationsMap \cup {c}
      /\ activeNotification' = [activeNotification EXCEPT ![n] = "ongoing"]
      /\ UNCHANGED <<noteId, background, incomingNotification, job, callService, callServiceStartId>>
  BY NotificationsAssumption DEF Connected, Display, LiveCalls, TypeOK, Ids
<1>2. /\ s \in [instance : Nat, running : BOOLEAN, lastStart : Nat, foreground : 0..Seconds]
      /\ s.running
      /\ service.running => s.instance = service.instance /\ s.foreground = service.foreground
      /\ ~service.running => s.foreground = 0
      /\ service.instance <= s.instance
  <2>1. 0 \in 0..Seconds /\ service \in [instance : Nat, running : BOOLEAN, lastStart : Nat, foreground : 0..Seconds]
    BY NotificationsAssumption DEF TypeOK
  <2>2. CASE service.running
    <3>1. s = [service EXCEPT !.lastStart = service.lastStart + 1]
      BY <2>2 DEF StartService
    <3> QED BY <2>1, <2>2, <3>1
  <2>3. CASE ~service.running
    <3>1. s = [instance |-> service.instance + 1, running |-> TRUE, lastStart |-> 1, foreground |-> 0]
      BY <2>3 DEF StartService
    <3>2. service.instance + 1 \in Nat /\ 1 \in Nat
      BY <2>1
    <3> QED BY <2>1, <2>3, <3>1, <3>2
  <2> QED BY <2>2, <2>3
<1> HIDE DEF s
<1>3. /\ \/ service' = service \/ service' = s
         \/ Reachable /\ service' = [s EXCEPT !.foreground = n]
      /\ starts' = starts \/ starts' = Append(starts, [instance |-> s.instance, startId |-> s.lastStart, id |-> n])
  BY DEF Connected, s
<1>4. (\A i : Held(i) => Held(i)') /\ (\A i : i = n => Held(i)') /\ c \in LiveCalls'
  BY <1>1 DEF Held, LiveCalls, TypeOK
<1>5. /\ tray' \in [Ids -> Shows]
      /\ \A i \in Ids : i # n /\ tray'[i] = "ongoing"
                          => tray[i] = "ongoing" /\ service'.foreground \in {service.foreground, 0, n}
                               /\ (i = service.foreground => service'.foreground = i)
  <2>1. CASE tray' = [tray EXCEPT ![n] = "ongoing"] /\ UNCHANGED <<service, starts>>
    BY <2>1, <1>1 DEF TypeOK, Shows
  <2>2. CASE ~Reachable /\ tray' = [tray EXCEPT ![n] = "ongoing"] /\ service' = s
    <3>1. service.foreground = 0
      BY <2>2 DEF ForegroundReached
    <3> QED BY <2>2, <3>1, <1>1, <1>2 DEF TypeOK, Shows, Ids
  <2>3. CASE /\ Reachable /\ service' = [s EXCEPT !.foreground = n]
             /\ tray' = InForeground([tray EXCEPT ![n] = "ongoing"], service, n, "ongoing")
    BY <2>3, <1>1, <1>2 DEF InForeground, TypeOK, Shows
  <2> QED BY <2>1, <2>2, <2>3 DEF Connected, s
<1>6. /\ service' \in [instance : Nat, running : BOOLEAN, lastStart : Nat, foreground : 0..Seconds]
      /\ service'.foreground # 0 => Reachable'
  <2>1. CASE service' = service
    BY <2>1, <1>1 DEF ForegroundReached, Reachable, TypeOK
  <2>2. CASE service' = s
    BY <2>2, <1>1, <1>2 DEF ForegroundReached, Reachable, TypeOK
  <2>3. CASE Reachable /\ service' = [s EXCEPT !.foreground = n]
    BY <2>3, <1>1, <1>2 DEF Reachable, Ids
  <2> QED BY <2>1, <2>2, <2>3, <1>3
<1>7. starts' \in Seq([instance : Nat, startId : Nat, id : Ids])
  <2> DEFINE E == [instance : Nat, startId : Nat, id : Ids]
             e == [instance |-> s.instance, startId |-> s.lastStart, id |-> n]
  <2>1. e \in E
    BY <1>1, <1>2
  <2>2. starts \in Seq(E) /\ (starts' = starts \/ starts' = Append(starts, e))
    BY <1>3 DEF TypeOK
  <2> HIDE DEF E, e
  <2>3. starts' \in Seq(E)
    BY <2>1, <2>2
  <2> QED BY <2>3 DEF E
<1>8. TypeOK'
  <2>1. activeNotification' \in [Ids -> Shows] /\ core' \in [Calls -> {"none", "incoming", "outgoing", "connected", "ended"}]
    BY <1>1 DEF TypeOK, Shows
  <2> QED BY <1>1, <1>5, <1>6, <1>7, <2>1 DEF TypeOK
<1>9. \A i \in Ids : activeNotification'[i] = "ongoing" => i = n \/ activeNotification[i] = "ongoing"
  BY <1>1 DEF TypeOK
<1>10. OngoingHeld'
  BY <1>4, <1>5 DEF OngoingHeld
<1>11. ActiveHeld' /\ ForegroundReached' /\ QuietAfterLastCall'
  BY <1>4, <1>6, <1>9 DEF ActiveHeld, ForegroundReached, QuietAfterLastCall
<1>12. StartsInOrder'
  <2>1. /\ service'.instance \in Nat /\ service.instance \in Nat /\ callService \in Nat
        /\ service.instance <= service'.instance /\ callService' = callService
    <3>1. service.instance \in Nat /\ callService \in Nat /\ s.instance \in Nat /\ callService' = callService
      BY <1>1, <1>2 DEF TypeOK
    <3>2. CASE service' = service
      BY <3>1, <3>2
    <3>3. CASE service' = s
      BY <3>1, <3>3, <1>2
    <3>4. CASE service' = [s EXCEPT !.foreground = n]
      <4>1. service'.instance = s.instance
        BY <3>4, <1>2
      <4> QED BY <3>1, <4>1, <1>2
    <3> QED BY <3>2, <3>3, <3>4, <1>3
  <2>2. CASE starts' = starts
    <3>1. \A k \in DOMAIN starts : starts[k].instance \in Nat
      BY StartsTyped
    <3> QED BY <2>1, <2>2, <3>1 DEF StartsInOrder
  <2>3. CASE starts' # starts
    <3> DEFINE e == [instance |-> s.instance, startId |-> s.lastStart, id |-> n]
    <3>1. starts' = Append(starts, e) /\ service'.instance = s.instance
      BY <2>3, <1>2, <1>3 DEF Connected, s
    <3>2. e.instance = service'.instance
      BY <3>1
    <3> HIDE DEF e
    <3>4. /\ Len(starts) \in Nat /\ Len(starts') = Len(starts) + 1 /\ DOMAIN starts = 1..Len(starts)
          /\ DOMAIN starts' = 1..(Len(starts) + 1)
          /\ starts'[Len(starts) + 1] = e
          /\ \A k \in DOMAIN starts : starts'[k] = starts[k] /\ starts[k].instance \in Nat
      <4> DEFINE E == [instance : Nat, startId : Nat, id : Ids]
      <4>1. starts \in Seq(E)
        BY DEF TypeOK
      <4> HIDE DEF E
      <4>2. Len(starts) \in Nat /\ DOMAIN starts = 1..Len(starts)
        BY <4>1
      <4>3. /\ Len(Append(starts, e)) = Len(starts) + 1
            /\ DOMAIN Append(starts, e) = 1..(Len(starts) + 1)
            /\ Append(starts, e)[Len(starts) + 1] = e
            /\ \A k \in 1..Len(starts) : Append(starts, e)[k] = starts[k]
        BY <4>1
      <4> QED BY <3>1, <4>2, <4>3, StartsTyped
    <3>5. \A k \in DOMAIN starts' : callService' <= starts'[k].instance /\ starts'[k].instance <= service'.instance
      BY <2>1, <3>2, <3>4 DEF StartsInOrder
    <3>6. ASSUME NEW k \in DOMAIN starts', NEW l \in k..Len(starts')
          PROVE  starts'[k].instance <= starts'[l].instance
      <4>1. CASE l = Len(starts) + 1
        BY <4>1, <3>2, <3>4, <3>5
      <4>2. CASE l # Len(starts) + 1
        <5>1. k \in DOMAIN starts /\ l \in DOMAIN starts /\ l \in k..Len(starts)
          BY <4>2, <3>4
        <5> QED BY <5>1, <3>4 DEF StartsInOrder
      <4> QED BY <4>1, <4>2
    <3>7. callService' <= service'.instance
      BY <2>1 DEF StartsInOrder
    <3> QED BY <3>5, <3>6, <3>7 DEF StartsInOrder
  <2> QED BY <2>2, <2>3
<1> QED BY <1>8, <1>10, <1>11, <1>12

(* The service takes the notification of an ongoing call only if a call    *)
(* that goes on has it.                                                    *)
LEMMA OnStartCommandInv == IInv /\ OnStartCommand => IInv'
<1> SUFFICES ASSUME IInv, OnStartCommand PROVE IInv'
  OBVIOUS
<1> USE DEF IInv
<1> DEFINE h == Head(starts)
           a == activeNotification[h.id]
<1>1. /\ h \in [instance : Nat, startId : Nat, id : Ids]
      /\ starts' \in Seq([instance : Nat, startId : Nat, id : Ids])
  <2> DEFINE E == [instance : Nat, startId : Nat, id : Ids]
  <2>1. starts \in Seq(E) /\ starts # <<>> /\ starts' = Tail(starts)
    BY DEF OnStartCommand, TypeOK
  <2> HIDE DEF E
  <2>2. Head(starts) \in E /\ starts' \in Seq(E)
    BY <2>1
  <2> QED BY <2>2 DEF E
<1>2. UNCHANGED <<core, noteId, background, incomingNotification, job,
                 callNotificationsMap, activeNotification>>
  BY DEF OnStartCommand
<1>3. (\A i : Held(i) => Held(i)') /\ LiveCalls' = LiveCalls
  BY <1>2 DEF Held, LiveCalls
<1>4. h.id \in Ids /\ h.id # 0 /\ h.id \in 0..Seconds /\ a \in Shows
  <2>1. h.id \in Ids
    BY <1>1
  <2> HIDE DEF h
  <2>2. a \in Shows
    BY <2>1 DEF TypeOK
  <2> QED BY <2>1, <2>2, NotificationsAssumption DEF Ids
<1>7. /\ \A k \in DOMAIN starts' : /\ h.instance <= starts'[k].instance
                                  /\ starts'[k].instance <= service.instance
                                  /\ callService <= starts'[k].instance
                                  /\ \A l \in k..Len(starts') : starts'[k].instance <= starts'[l].instance
      /\ callService <= h.instance /\ h.instance <= service.instance
  <2> DEFINE E == [instance : Nat, startId : Nat, id : Ids]
  <2>1. starts \in Seq(E) /\ starts # <<>> /\ starts' = Tail(starts)
    BY DEF OnStartCommand, TypeOK
  <2> HIDE DEF E
  <2>2. /\ Len(starts) \in Nat /\ Len(starts) > 0 /\ Len(starts') = Len(starts) - 1 /\ h = starts[1]
        /\ DOMAIN starts = 1..Len(starts) /\ DOMAIN starts' = 1..Len(starts')
        /\ \A k \in DOMAIN starts' : starts'[k] = starts[k + 1]
    BY <2>1
  <2> HIDE DEF h
  <2>3. 1 \in DOMAIN starts
    BY <2>2
  <2>4. \A k \in DOMAIN starts' : k + 1 \in DOMAIN starts /\ k + 1 \in 1..Len(starts)
    BY <2>2
  <2>5. \A k \in DOMAIN starts' : \A l \in k..Len(starts') :
           l \in DOMAIN starts' /\ l + 1 \in (k + 1)..Len(starts)
    BY <2>2
  <2> QED BY <2>2, <2>3, <2>4, <2>5 DEF StartsInOrder
<1>5. CASE UNCHANGED <<service, tray, callService, callServiceStartId>>
  <2>1. TypeOK'
    BY <1>1, <1>2, <1>5 DEF TypeOK
  <2>2. StartsInOrder'
    BY <1>5, <1>7 DEF StartsInOrder
  <2> QED
    BY <2>1, <2>2, <1>2, <1>3, <1>5
       DEF OngoingHeld, ActiveHeld, ForegroundReached, Reachable, QuietAfterLastCall
<1>6. CASE a # "none" /\ Started(h, a)
  <2> HIDE DEF h
  <2>1. callService' = h.instance /\ callServiceStartId' \in [Ids -> Nat] /\ callService' \in Nat
    BY <1>1, <1>6 DEF Started, TypeOK
  <2>2. CASE ~(service.running /\ service.instance = h.instance)
    <3>1. UNCHANGED <<service, tray>>
      BY <2>2, <1>6 DEF Started
    <3>2. TypeOK'
      BY <1>1, <1>2, <2>1, <3>1 DEF TypeOK
    <3>3. service.foreground = 0
      <4>1. callService <= h.instance /\ h.instance <= service.instance
        BY <1>7
      <4>2. callService \in Nat /\ service.instance \in Nat /\ h.instance \in Nat
        BY <1>1 DEF TypeOK
      <4> QED BY <2>2, <4>1, <4>2 DEF ForegroundReached, Reachable
    <3>4. StartsInOrder'
      BY <3>1, <2>1, <1>7 DEF StartsInOrder
    <3> QED
      BY <3>1, <3>2, <3>3, <3>4, <1>2, <1>3
         DEF OngoingHeld, ActiveHeld, ForegroundReached, QuietAfterLastCall
  <2>3. CASE service.running /\ service.instance = h.instance
    <3>1. /\ service' = [service EXCEPT !.foreground = h.id]
          /\ tray' = InForeground(tray, service, h.id, a)
      BY <2>3, <1>6 DEF Started
    <3>2. /\ service'.foreground = h.id /\ Reachable'
          /\ service' \in [instance : Nat, running : BOOLEAN, lastStart : Nat, foreground : 0..Seconds]
      BY <2>1, <2>3, <3>1, <1>4 DEF TypeOK, Reachable
    <3>3. /\ tray' \in [Ids -> Shows] /\ tray'[h.id] = a
          /\ \A i \in Ids : i # h.id /\ tray'[i] = "ongoing"
                              => tray[i] = "ongoing" /\ i # service.foreground
      BY <3>1, <1>4 DEF InForeground, TypeOK, Shows
    <3>4. TypeOK'
      <4>1. tray' \in [Ids -> Shows]
        BY <3>3
      <4>2. service' \in [instance : Nat, running : BOOLEAN, lastStart : Nat, foreground : 0..Seconds]
        BY <3>2
      <4> QED BY <1>1, <1>2, <2>1, <4>1, <4>2 DEF TypeOK
    <3>5. OngoingHeld' /\ ActiveHeld' /\ ForegroundReached'
      BY <3>2, <3>3, <1>2, <1>3 DEF OngoingHeld, ActiveHeld, ForegroundReached
    <3>6. ASSUME LiveCalls = {} PROVE a = "incoming" /\ \A i \in Ids : tray[i] # "ongoing"
      BY <3>6, <1>4, <1>6 DEF ActiveHeld, Held, Shows, QuietAfterLastCall
    <3>7. QuietAfterLastCall'
      BY <3>2, <3>3, <3>6, <1>2, <1>3 DEF QuietAfterLastCall
    <3>8. StartsInOrder'
      <4>1. service'.instance = service.instance
        BY <3>1, <1>4 DEF TypeOK
      <4> QED BY <4>1, <2>1, <1>7 DEF StartsInOrder
    <3> QED BY <3>4, <3>5, <3>7, <3>8
  <2> QED BY <2>2, <2>3
<1> QED BY <1>5, <1>6 DEF OnStartCommand

-----------------------------------------------------------------------------
(* What a handler of an ending call does to what is shown: it takes        *)
(* notifications away, and the one of the service when the service loses   *)
(* its place.                                                              *)
Fades(p, q) ==
  /\ q.tray \in [Ids -> Shows]
  /\ q.service \in [instance : Nat, running : BOOLEAN, lastStart : Nat, foreground : 0..Seconds]
  /\ q.service.instance = p.service.instance
  /\ q.service.foreground # 0 => q.service.running
  /\ q.service.foreground \in {0, p.service.foreground}
  /\ \A i \in Ids : /\ q.tray[i] \in {"none", p.tray[i]}
                    /\ i = p.service.foreground /\ i # q.service.foreground => q.tray[i] = "none"

Screen == [tray : [Ids -> Shows],
           service : [instance : Nat, running : BOOLEAN, lastStart : Nat, foreground : 0..Seconds]]

Running(p) == p.service.foreground # 0 => p.service.running

LEMMA DismissFades ==
  ASSUME NotificationsAssumption, NEW p \in Screen, Running(p), NEW c \in Calls, noteId[c] \in Ids
  PROVE  /\ Fades(p, DismissCallNotification(c, p)) /\ DismissCallNotification(c, p) \in Screen
         /\ LET q == DismissCallNotification(c, p)
            IN c \in callNotificationsMap
                 => q.tray[noteId[c]] = "none" \/ q.service.foreground = noteId[c]
<1> DEFINE t == Cancel(p.tray, p.service, noteId[c])
           q == DismissCallNotification(c, p)
<1>0. /\ p.tray \in [Ids -> Shows] /\ "none" \in Shows /\ 0 \in 0..Seconds /\ 0 \notin Ids
      /\ p.service \in [instance : Nat, running : BOOLEAN, lastStart : Nat, foreground : 0..Seconds]
  BY DEF Screen, Shows, Ids, NotificationsAssumption
<1>1. /\ t \in [Ids -> Shows]
      /\ \A i \in Ids : t[i] \in {"none", p.tray[i]}
      /\ t[noteId[c]] = "none" \/ p.service.foreground = noteId[c]
  BY <1>0 DEF Cancel
<1> HIDE DEF t
<1>2. CASE c \notin callNotificationsMap
  <2>1. q = p
    BY <1>2 DEF DismissCallNotification
  <2> QED BY <1>0, <1>2, <2>1 DEF Fades, Running
<1>3. CASE c \in callNotificationsMap /\ ~Stops(noteId[c])
  <2>1. q = [p EXCEPT !.tray = t]
    BY <1>3 DEF DismissCallNotification, Dismissed, t
  <2>2. q.tray = t /\ q.service = p.service /\ q \in Screen
    BY <2>1, <1>0, <1>1 DEF Screen
  <2> HIDE DEF q
  <2>3. Fades(p, q)
    BY <1>0, <1>1, <2>2 DEF Fades, Running
  <2> QED BY <1>1, <2>2, <2>3 DEF q
<1>4. CASE c \in callNotificationsMap /\ Stops(noteId[c])
  <2>1. q = [tray |-> WithoutForeground(t, p.service),
             service |-> [Background(p.service) EXCEPT !.running = FALSE]]
    BY <1>4 DEF DismissCallNotification, Dismissed, t
  <2>2. /\ q.tray = [j \in Ids |-> IF j = p.service.foreground THEN "none" ELSE t[j]]
        /\ q.service = [Background(p.service) EXCEPT !.running = FALSE]
    BY <2>1 DEF WithoutForeground
  <2>3. /\ q.service \in [instance : Nat, running : BOOLEAN, lastStart : Nat, foreground : 0..Seconds]
        /\ q.service.instance = p.service.instance /\ q.service.foreground = 0
    BY <2>2, <1>0 DEF Background
  <2>4. /\ q.tray \in [Ids -> Shows]
        /\ \A i \in Ids : q.tray[i] \in {"none", p.tray[i]} /\ (i = p.service.foreground => q.tray[i] = "none")
        /\ q.tray[noteId[c]] = "none"
    BY <2>2, <1>0, <1>1
  <2>5. q = [tray |-> q.tray, service |-> q.service]
    BY <2>1
  <2> HIDE DEF q
  <2>6. Fades(p, q) /\ q \in Screen
    BY <2>3, <2>4, <2>5 DEF Fades, Screen
  <2> QED BY <2>4, <2>6 DEF q
<1> QED BY <1>2, <1>3, <1>4

LEMMA LastCallEndedFades ==
  ASSUME NotificationsAssumption, NEW p \in Screen, Running(p),
         p.service.foreground # 0 => callService = p.service.instance
  PROVE  /\ Fades(p, LastCallEnded(p)) /\ LastCallEnded(p) \in Screen
         /\ LastCallEnded(p).service.foreground = 0
<1> DEFINE q == LastCallEnded(p)
<1>0. /\ p.tray \in [Ids -> Shows] /\ "none" \in Shows /\ 0 \in 0..Seconds /\ 0 \notin Ids
      /\ p.service \in [instance : Nat, running : BOOLEAN, lastStart : Nat, foreground : 0..Seconds]
  BY DEF Screen, Shows, Ids, NotificationsAssumption
<1>1. CASE ~(p.service.running /\ callService = p.service.instance)
  <2>1. q = p /\ p.service.foreground = 0
    BY <1>1 DEF LastCallEnded, Running
  <2> QED BY <2>1, <1>0 DEF Fades, Running
<1>2. CASE p.service.running /\ callService = p.service.instance
  <2>1. q = [tray |-> WithoutForeground(p.tray, p.service), service |-> Background(p.service)]
    BY <1>2 DEF LastCallEnded
  <2>2. /\ q.tray = [j \in Ids |-> IF j = p.service.foreground THEN "none" ELSE p.tray[j]]
        /\ q.service = [p.service EXCEPT !.foreground = 0]
        /\ q = [tray |-> q.tray, service |-> q.service]
    BY <2>1 DEF WithoutForeground, Background
  <2> HIDE DEF q
  <2>3. /\ q.service \in [instance : Nat, running : BOOLEAN, lastStart : Nat, foreground : 0..Seconds]
        /\ q.service.instance = p.service.instance /\ q.service.foreground = 0
    BY <2>2, <1>0
  <2>4. q.tray \in [Ids -> Shows]
    BY <2>2, <1>0
  <2>5. \A i \in Ids : q.tray[i] \in {"none", p.tray[i]} /\ (i = p.service.foreground => q.tray[i] = "none")
    BY <2>2
  <2>6. Fades(p, q) /\ q \in Screen
    BY <2>2, <2>3, <2>4, <2>5 DEF Fades, Screen
  <2> QED BY <2>3, <2>6 DEF q
<1> QED BY <1>1, <1>2

LEMMA EndedInv ==
  ASSUME IInv, NEW c \in Calls, Ended(c)
  PROVE  IInv'
<1> USE DEF IInv
<1> DEFINE n == noteId[c]
           p == [tray |-> tray, service |-> service]
           q == [tray |-> tray', service |-> service']
<1>1. /\ c \in LiveCalls /\ n \in Ids
      /\ core' = [core EXCEPT ![c] = "ended"]
      /\ callNotificationsMap' = callNotificationsMap \ {c}
      /\ activeNotification' = IF c \in callNotificationsMap
                               THEN [activeNotification EXCEPT ![n] = "none"] ELSE activeNotification
      /\ UNCHANGED <<noteId, background, incomingNotification, job,
                     callService, callServiceStartId, starts>>
  BY DEF Ended, TypeOK
<1>2. /\ LiveCalls' = LiveCalls \ {c}
      /\ (LiveCalls \ {c}) \cap callNotificationsMap = LiveCalls' \cap callNotificationsMap'
  BY <1>1 DEF LiveCalls, TypeOK
<1>3. /\ p \in Screen /\ Running(p) /\ p.tray = tray /\ p.service = service
      /\ service.foreground # 0 => callService = service.instance
  BY DEF Screen, Running, TypeOK, ForegroundReached, Reachable
<1>4. /\ Fades(p, q)
      /\ c \in callNotificationsMap => q.tray[n] = "none" \/ q.service.foreground = n
      /\ LiveCalls = {c} => q.service.foreground = 0
  <2> DEFINE d == DismissCallNotification(c, p)
             l == LastCallEnded(p)
  <2>1. /\ Fades(p, d) /\ d \in Screen
        /\ c \in callNotificationsMap => d.tray[n] = "none" \/ d.service.foreground = n
    BY <1>1, <1>3, DismissFades, NotificationsAssumption
  <2>2. Fades(p, l) /\ l \in Screen /\ l.service.foreground = 0
    BY <1>3, LastCallEndedFades, NotificationsAssumption
  <2>3. PICK s \in IF LiveCalls # {c} THEN {d} ELSE {LastCallEnded(d), DismissCallNotification(c, l)} :
                tray' = s.tray /\ service' = s.service
    BY DEF Ended
  <2> HIDE DEF d, l
  <2>4. CASE s = d /\ LiveCalls # {c}
    BY <2>1, <2>3, <2>4, <1>3 DEF Fades
  <2>5. CASE s = LastCallEnded(d)
    <3>1. Running(d) /\ (d.service.foreground # 0 => callService = d.service.instance)
      BY <2>1, <1>3 DEF Fades, Running
    <3>2. Fades(d, s) /\ s \in Screen /\ s.service.foreground = 0
      BY <2>1, <2>5, <3>1, LastCallEndedFades, NotificationsAssumption
    <3>3. Fades(p, s)
      BY <2>1, <3>2 DEF Fades
    <3>4. c \in callNotificationsMap => s.tray[n] = "none"
      BY <2>1, <3>2, <1>1 DEF Fades, Ids
    <3> QED BY <2>3, <3>2, <3>3, <3>4 DEF Fades
  <2>6. CASE s = DismissCallNotification(c, l)
    <3>1. Running(l)
      BY <2>2 DEF Running
    <3>2. /\ Fades(l, s) /\ s \in Screen
          /\ c \in callNotificationsMap => s.tray[n] = "none" \/ s.service.foreground = n
      BY <2>2, <2>6, <3>1, <1>1, DismissFades, NotificationsAssumption
    <3>3. s.service.foreground = 0
      BY <2>2, <3>2 DEF Fades
    <3>4. Fades(p, s)
      BY <2>2, <3>2, <3>3 DEF Fades
    <3> QED BY <2>3, <3>2, <3>3, <3>4 DEF Fades
  <2> QED BY <2>3, <2>4, <2>5, <2>6
<1>5. TypeOK'
  <2>1. /\ tray' \in [Ids -> Shows] /\ callNotificationsMap' \subseteq Calls
        /\ service' \in [instance : Nat, running : BOOLEAN, lastStart : Nat, foreground : 0..Seconds]
    BY <1>1, <1>4 DEF Fades, TypeOK
  <2>2. core' \in [Calls -> {"none", "incoming", "outgoing", "connected", "ended"}]
    BY <1>1 DEF TypeOK
  <2>3. activeNotification' \in [Ids -> Shows]
    BY <1>1 DEF TypeOK, Shows
  <2> QED BY <1>1, <2>1, <2>2, <2>3 DEF TypeOK
<1>6. /\ service'.foreground # 0 => service'.running
      /\ service'.instance = service.instance
      /\ service'.foreground \in {0, service.foreground}
      /\ \A i \in Ids : /\ tray'[i] \in {"none", tray[i]}
                        /\ i = service.foreground /\ i # service'.foreground => tray'[i] = "none"
      /\ c \in callNotificationsMap => tray'[n] = "none" \/ service'.foreground = n
      /\ LiveCalls = {c} => service'.foreground = 0
  BY <1>4 DEF Fades
<1> HIDE DEF p, q
<1>7. \A i \in Ids : Held(i) /\ ~(i = n /\ c \in callNotificationsMap) => Held(i)'
  BY <1>1, <1>2 DEF Held
<1>8. OngoingHeld'
  BY <1>6, <1>7 DEF OngoingHeld
<1>9. \A i \in Ids : activeNotification'[i] = "ongoing"
                       => activeNotification[i] = "ongoing" /\ ~(i = n /\ c \in callNotificationsMap)
  BY <1>1 DEF TypeOK
<1>10. ActiveHeld'
  BY <1>7, <1>9 DEF ActiveHeld
<1>11. ForegroundReached'
  BY <1>1, <1>6 DEF ForegroundReached, Reachable
<1>12. QuietAfterLastCall'
  <2> SUFFICES ASSUME LiveCalls' = {}, NEW i \in Ids
               PROVE  tray'[i] # "ongoing" /\ service'.foreground # i
    BY DEF QuietAfterLastCall
  <2>1. service'.foreground = 0 /\ 0 \notin Ids
    BY <1>1, <1>2, <1>6 DEF Ids
  <2>2. ~Held(i)'
    BY DEF Held
  <2> QED BY <1>8, <2>1, <2>2 DEF OngoingHeld
<1>13. StartsInOrder'
  BY <1>1, <1>6, StillInOrder
<1> QED BY <1>5, <1>8, <1>10, <1>11, <1>12, <1>13

LEMMA DartCancelsAllInv == IInv /\ DartCancelsAll => IInv'
<1> SUFFICES ASSUME IInv, DartCancelsAll PROVE IInv'
  OBVIOUS
<1> USE DEF IInv
<1>1. UNCHANGED <<core, noteId, background, incomingNotification, job,
                  callNotificationsMap, activeNotification, service, callService,
                  callServiceStartId, starts>>
  BY DEF DartCancelsAll, srv
<1>2. tray' \in [Ids -> Shows] /\ \A i \in Ids : tray'[i] \in {"none", tray[i]}
  BY DEF DartCancelsAll, TypeOK, Shows
<1>3. TypeOK'
  BY <1>1, <1>2 DEF TypeOK
<1>4. (\A i : Held(i) => Held(i)') /\ LiveCalls' = LiveCalls
  BY <1>1 DEF Held, LiveCalls
<1>5. StartsInOrder'
  BY <1>1, StillInOrder
<1> QED
  BY <1>1, <1>2, <1>3, <1>4, <1>5
     DEF OngoingHeld, ActiveHeld, ForegroundReached, Reachable, QuietAfterLastCall

LEMMA NextInv == IInv /\ [Next]_vars => IInv'
<1> SUFFICES ASSUME IInv, [Next]_vars PROVE IInv'
  OBVIOUS
<1>1. ASSUME NEW c \in Calls, IncomingReceived(c) \/ OutgoingInit(c) \/ StateChanged(c)
                               \/ Connected(c) \/ Ended(c)
      PROVE  IInv'
  BY <1>1, IncomingReceivedInv, OutgoingInitInv, StateChangedInv, ConnectedInv, EndedInv
<1>2. CASE PushReceived \/ JobDisplays \/ OnStartCommand \/ DartCancelsAll
  BY <1>2, PushReceivedInv, JobDisplaysInv, OnStartCommandInv, DartCancelsAllInv
<1>3. CASE UNCHANGED vars
  BY <1>3, StillInOrder DEF vars, note, srv, IInv, TypeOK, OngoingHeld, ActiveHeld, ForegroundReached, Reachable,
              QuietAfterLastCall, Held, LiveCalls
<1> QED BY <1>1, <1>2, <1>3 DEF Next

(* The invariant that makes the two theorems below inductive holds. *)
LEMMA NotificationsInvariant == Spec => []IInv
<1> QED BY InitInv, NextInv, PTL DEF Spec

(* Once the last call has ended, and whatever comes late, no notification  *)
(* says that a call goes on and the service is out of the foreground, save *)
(* with the notification of a call that rang.                              *)
THEOREM QuietPhone == Spec => []QuietAfterLastCall
<1>1. IInv => QuietAfterLastCall
  BY DEF IInv
<1> QED BY <1>1, NotificationsInvariant, PTL

(* A hang-up notification has its call, save the one the service holds.    *)
THEOREM HangUpHasCall == Spec => []OngoingHasCall
<1>1. IInv => OngoingHasCall
  BY DEF IInv, OngoingHeld, OngoingHasCall, Held
<1> QED BY <1>1, NotificationsInvariant, PTL

(* The fields of the manager and of the service keep their types.          *)
THEOREM NotificationTypes == Spec => []TypeOK
<1>1. IInv => TypeOK
  BY DEF IInv
<1> QED BY <1>1, NotificationsInvariant, PTL

=============================================================================
