---------------------------- MODULE LinphoneCore ----------------------------
(***************************************************************************)
(* The calls of the linphone core, an external library, as the native code *)
(* of both platforms relies on it: a call that is being set up or resumed  *)
(* keeps the sound device, a running call is paused when another one takes *)
(* it, and a call in the wrong state refuses.  Each function of the core   *)
(* yields the states of all calls after it.                                *)
(***************************************************************************)
EXTENDS FiniteSets

CONSTANT Ids         \* calls of a behaviour

VARIABLE core        \* state of each call in the core

(* Call.State of linphone.  "none" is a call that does not exist yet; End  *)
(* and Error, after which a call cannot be revived, are merged with the    *)
(* Released that follows them.                                             *)
CoreState == {"none", "incoming", "outgoing", "connected", "streaming", "pausing",
              "paused", "resuming", "pausedByRemote", "released"}

InState(s) == {i \in Ids : core[i] = s}

LiveCalls == {i \in Ids : core[i] \notin {"none", "released"}}

Locked(i) == \E j \in Ids \ {i} : core[j] \in {"outgoing", "connected", "resuming"}

Taking(i, s) ==
  [j \in Ids |-> CASE j = i -> s
                   [] j # i /\ core[j] = "streaming" -> "pausing"
                   [] OTHER -> core[j]]

Invite(i) == IF Locked(i) THEN core ELSE Taking(i, "outgoing")

Accept(i) == IF core[i] # "incoming" \/ Locked(i) THEN core ELSE Taking(i, "connected")

Resume(i) == IF core[i] # "paused" \/ Locked(i) THEN core ELSE Taking(i, "resuming")

PauseFrom(states, is) ==
  [j \in Ids |-> IF j \in is /\ core[j] \in states THEN "pausing" ELSE core[j]]

Terminate(is) ==
  [j \in Ids |-> IF j \in is \cap LiveCalls THEN "released" ELSE core[j]]

(* What the core does to a call on its own: the remote party calls,        *)
(* answers, holds and lets go on, media start, requests are acknowledged.  *)
OwnSteps ==
  {<<"none", "incoming">>, <<"outgoing", "connected">>, <<"connected", "streaming">>,
   <<"pausing", "paused">>, <<"resuming", "streaming">>,
   <<"streaming", "pausedByRemote">>, <<"pausedByRemote", "streaming">>}

=============================================================================
