------------------------- MODULE TelecomConnections -------------------------
(***************************************************************************)
(* The connections that stand for the calls of the app in Android's        *)
(* telecom framework (TelecomConnectionService, NativeCallWrapper and the  *)
(* part of CallsManager that asks for them).                               *)
(*                                                                         *)
(* A connection is asked for when a call begins and created when telecom   *)
(* comes back, which may be after the call changed or ended.  From then on *)
(* the service follows the states of the core, and telecom in turn holds,  *)
(* answers and ends calls through their connections.                       *)
(***************************************************************************)
EXTENDS Naturals, Sequences, FiniteSets, SequencesExt

CONSTANTS
  Calls,             \* SIP call ids
  NoId,              \* call id of an outgoing call that has none yet
  MaxReports,        \* bound: listeners that report one incoming call
  MaxRequests,       \* bound: requests telecom has not answered
  MaxConnections     \* bound: connections listed at a time

ASSUME TelecomAssumption ==
  /\ NoId \notin Calls
  /\ MaxReports \in Nat \ {0} /\ MaxRequests \in Nat /\ MaxConnections \in Nat

VARIABLES
  core,              \* state of each call in the linphone core
  requests,          \* what telecom was asked for, in order
  connections        \* CallsManager.connections

vars == <<core, requests, connections>>

(* "ended" is a call after End or Error, which core.calls has no more, and *)
(* "failed" one that ended before it got an id; "held" is Pausing, Paused  *)
(* and PausedByRemote.                                                     *)
CoreState == {"none", "incoming", "init", "progress", "connected", "streaming",
              "held", "resuming", "ended", "failed", "released"}

Request == [kind : {"incoming", "outgoing"}, id : Calls \cup {NoId}]

Connection ==
  [callId : Calls \cup {NoId},
   state  : {"RINGING", "DIALING", "ACTIVE", "HOLDING", "DISCONNECTED"}]

Init ==
  /\ core = [c \in Calls |-> "none"]
  /\ requests = <<>> /\ connections = <<>>

LiveCalls == {c \in Calls : core[c] \notin {"none", "ended", "failed", "released"}}

(* The id in the log of a call. *)
IdOf(c) == IF core[c] \in {"init", "failed"} THEN NoId ELSE c

-----------------------------------------------------------------------------
(* The list.  A connection is found by the first match; one that was       *)
(* disconnected never takes another state.                                 *)

Matches(cs, id) == {k \in DOMAIN cs : cs[k].callId = id}

FirstMatch(cs, id) == CHOOSE k \in Matches(cs, id) : \A l \in Matches(cs, id) : k <= l

SetState(cs, k, s) ==
  [cs EXCEPT ![k].state = IF @ = "DISCONNECTED" THEN @ ELSE s]

Follow(cs, id, s) ==
  IF Matches(cs, id) = {} THEN cs ELSE SetState(cs, FirstMatch(cs, id), s)

(* Slip: whatever connection comes first ends with the call. *)
DropFirst(cs, id) == IF cs = <<>> THEN cs ELSE Tail(cs)

Drop(cs, id) ==
  IF Matches(cs, id) = {} THEN cs ELSE RemoveAt(cs, FirstMatch(cs, id))

(* The loop over the list removes from it: it fails or ends at its second  *)
(* turn.  The core catches what a listener throws.                         *)
DestroyZombies(cs) == IF cs = <<>> THEN cs ELSE Tail(cs)

-----------------------------------------------------------------------------
(* What the core does.  pause and resume are refused in the wrong state,   *)
(* and resume while another call is being set up.                          *)

Locked(c) == \E d \in Calls \ {c} : core[d] \in {"init", "progress", "connected", "resuming"}

Moves(c, s) == core' = [core EXCEPT ![c] = s]

(* Taking the sound device pauses the call that has it. *)
Takes(c, s) ==
  core' = [d \in Calls |-> CASE d = c -> s
                             [] d # c /\ core[d] = "streaming" -> "held"
                             [] OTHER -> core[d]]

HoldStreaming(cs, c) ==
  LET d == {e \in Calls \ {c} : core[e] = "streaming"}
  IN IF d = {} THEN cs ELSE Follow(cs, CHOOSE e \in d : TRUE, "HOLDING")

(* Every listener of the activity, and the one of the notifications when   *)
(* the app is in the background, reports an incoming call to telecom.      *)
IncomingReceived(c) ==
  /\ core[c] = "none" /\ Moves(c, "incoming")
  /\ \E k \in 1..MaxReports :
       /\ Len(requests) + k <= MaxRequests
       /\ requests' = requests \o [l \in 1..k |-> [kind |-> "incoming", id |-> c]]
  /\ UNCHANGED connections

(* OutgoingProgress names the connections that have no id yet. *)
Adopt(cs, c) ==
  [k \in DOMAIN cs |-> [cs[k] EXCEPT !.callId = IF @ = NoId THEN c ELSE @]]

(* outgoingCall invites and then asks for a connection under the id the    *)
(* current call has by then; the core may have gone through both of its    *)
(* first states.                                                           *)
OutgoingCall(c) ==
  /\ core[c] = "none" /\ ~Locked(c) /\ Len(requests) < MaxRequests
  /\ \/ /\ Takes(c, "init") /\ connections' = HoldStreaming(connections, c)
        /\ requests' = Append(requests, [kind |-> "outgoing", id |-> NoId])
     \/ /\ Takes(c, "progress") /\ connections' = Adopt(HoldStreaming(connections, c), c)
        /\ requests' = Append(requests, [kind |-> "outgoing", id |-> c])

(* It does so also when the core refuses the invitation: the id is then    *)
(* that of the call which is being set up.                                 *)
OutgoingCallRefused ==
  /\ Len(requests) < MaxRequests
  /\ \E c \in Calls :
       /\ core[c] \in {"progress", "connected", "resuming"}
       /\ requests' = Append(requests, [kind |-> "outgoing", id |-> c])
  /\ UNCHANGED <<core, connections>>

OutgoingProgress(c) ==
  /\ core[c] = "init" /\ Moves(c, "progress")
  /\ connections' = Adopt(connections, c)
  /\ UNCHANGED requests

RemoteAnswers(c) ==
  /\ core[c] = "progress" /\ Moves(c, "connected")
  /\ connections' = Follow(connections, c, "ACTIVE")
  /\ UNCHANGED requests

Answered(c) ==
  /\ core[c] = "incoming" /\ ~Locked(c) /\ Takes(c, "connected")
  /\ connections' = Follow(HoldStreaming(connections, c), c, "ACTIVE")
  /\ UNCHANGED requests

(* Slip: only the answer makes a connection active. *)
StreamsRunningUnfollowed(c) ==
  /\ core[c] \in {"connected", "resuming"} /\ Moves(c, "streaming")
  /\ UNCHANGED <<connections, requests>>

StreamsRunning(c) ==
  /\ core[c] \in {"connected", "resuming"} /\ Moves(c, "streaming")
  /\ connections' = Follow(connections, c, "ACTIVE")
  /\ UNCHANGED requests

(* Paused by the user, by Dart or by the remote party. *)
Paused(c) ==
  /\ core[c] = "streaming" /\ Moves(c, "held")
  /\ connections' = Follow(connections, c, "HOLDING")
  /\ UNCHANGED requests

(* The service does not follow Resuming. *)
Resumed(c) ==
  /\ core[c] = "held" /\ ~Locked(c) /\ Takes(c, "resuming")
  /\ connections' = HoldStreaming(connections, c)
  /\ UNCHANGED requests

(* End and Error take the connection with the id of the call away: of a    *)
(* call that has none, the first connection without one.  With the last    *)
(* call the zombies are destroyed; the core tells of both in either order. *)
Ended(c) ==
  /\ c \in LiveCalls /\ Moves(c, IF core[c] = "init" THEN "failed" ELSE "ended")
  /\ connections' \in
       IF LiveCalls = {c}
       THEN {DestroyZombies(Drop(connections, IdOf(c))),
             Drop(DestroyZombies(connections), IdOf(c))}
       ELSE {Drop(connections, IdOf(c))}
  /\ UNCHANGED requests

Released(c) ==
  /\ core[c] \in {"ended", "failed"} /\ Moves(c, "released")
  /\ connections' = Drop(connections, IdOf(c))
  /\ UNCHANGED requests

-----------------------------------------------------------------------------
(* What telecom does. *)

(* Slip: the state of the call is taken over as it is. *)
StartStateUnmapped(kind, id) ==
  IF id \in LiveCalls THEN core[id] ELSE IF kind = "incoming" THEN "RINGING" ELSE "DIALING"

(* The state a new connection starts in; a call the core does not have is  *)
(* taken to be at its beginning.                                           *)
StartState(kind, id) ==
  CASE id \notin LiveCalls -> IF kind = "incoming" THEN "RINGING" ELSE "DIALING"
    [] id \in LiveCalls /\ core[id] = "held" -> "HOLDING"
    [] id \in LiveCalls /\ kind = "incoming" /\ core[id] = "incoming" -> "RINGING"
    [] id \in LiveCalls /\ kind = "outgoing" /\ core[id] \in {"init", "progress"} -> "DIALING"
    [] OTHER -> "ACTIVE"

(* A call without an id falls back on the current call, if it has one. *)
Named(id) ==
  IF id # NoId THEN {id}
  ELSE {NoId} \cup {c \in LiveCalls : core[c] \in {"progress", "connected", "streaming", "resuming"}}

(* onCreate...Connection: with no call in the core a cancelled connection  *)
(* is returned, which is not listed.                                       *)
CreateConnection ==
  /\ requests # <<>> /\ requests' = Tail(requests)
  /\ IF LiveCalls = {} THEN UNCHANGED connections
     ELSE /\ Len(connections) < MaxConnections
          /\ \E id \in Named(Head(requests).id) :
               connections' = Append(connections,
                 [callId |-> id, state |-> StartState(Head(requests).kind, id)])
  /\ UNCHANGED core

(* onCreate...ConnectionFailed. *)
RefuseConnection ==
  /\ requests # <<>> /\ requests' = Tail(requests)
  /\ UNCHANGED <<core, connections>>

(* A connection whose call is gone destroys itself once no call is left,   *)
(* and stays in the list.                                                  *)
SelfDestroy(k) ==
  IF LiveCalls = {} THEN SetState(connections, k, "DISCONNECTED") ELSE connections

Usable(k) == connections[k].state # "DISCONNECTED"

OnHold(k) ==
  LET c == connections[k].callId
  IN /\ Usable(k)
     /\ IF c \in LiveCalls /\ core[c] = "streaming"
        THEN Moves(c, "held")
             /\ connections' = SetState(Follow(connections, c, "HOLDING"), k, "HOLDING")
        ELSE UNCHANGED core
             /\ connections' = SetState(IF c \in LiveCalls THEN connections ELSE SelfDestroy(k),
                                        k, "HOLDING")
     /\ UNCHANGED requests

OnUnhold(k) ==
  LET c == connections[k].callId
  IN /\ Usable(k)
     /\ IF c \in LiveCalls /\ core[c] = "held" /\ ~Locked(c)
        THEN Takes(c, "resuming")
             /\ connections' = SetState(HoldStreaming(connections, c), k, "ACTIVE")
        ELSE UNCHANGED core
             /\ connections' = SetState(IF c \in LiveCalls THEN connections ELSE SelfDestroy(k),
                                        k, "ACTIVE")
     /\ UNCHANGED requests

(* onAnswer, onDisconnect, onAbort and onReject of a connection whose call *)
(* goes on are Answered and Ended.                                         *)
OnOther(k) ==
  /\ Usable(k) /\ connections[k].callId \notin LiveCalls
  /\ connections' = SelfDestroy(k)
  /\ UNCHANGED <<core, requests>>

Next ==
  \/ \E c \in Calls :
       \/ IncomingReceived(c) \/ OutgoingCall(c) \/ OutgoingProgress(c)
       \/ RemoteAnswers(c) \/ Answered(c) \/ StreamsRunning(c)
       \/ Paused(c) \/ Resumed(c) \/ Ended(c) \/ Released(c)
  \/ OutgoingCallRefused \/ CreateConnection \/ RefuseConnection
  \/ \E k \in DOMAIN connections : OnHold(k) \/ OnUnhold(k) \/ OnOther(k)

Spec == Init /\ [][Next]_vars

-----------------------------------------------------------------------------
TypeOK ==
  /\ core \in [Calls -> CoreState]
  /\ requests \in Seq(Request) /\ Len(requests) <= MaxRequests
  /\ connections \in Seq(Connection) /\ Len(connections) <= MaxConnections

(* While a call has media, the connection telecom would find for it is     *)
(* active: audio focus and the other apps' calls follow that state.  The   *)
(* exception is a connection without an id that outlived its call, was     *)
(* disconnected when none was left and is given to the next outgoing call. *)
StreamingIsActive ==
  \A c \in Calls :
    core[c] = "streaming" /\ Matches(connections, c) # {}
      => connections[FirstMatch(connections, c)].state \in {"ACTIVE", "DISCONNECTED"}

(* A call that goes on keeps its connection, whatever ends around it: no   *)
(* other call's end, and no id that becomes known, takes it away.          *)
LiveCallKeepsConnection ==
  [][\A c \in LiveCalls :
       Matches(connections, c) # {} /\ c \in LiveCalls'
         => Matches(connections', c) # {}]_vars

(* Once every call is over and released no connection is left: each call   *)
(* took its own away, and the loop of onLastCallEnded sets out to destroy  *)
(* the zombies.                                                            *)
LastCallEndsConnections ==
  (\A c \in Calls : core[c] \in {"none", "released"}) => connections = <<>>

=============================================================================
