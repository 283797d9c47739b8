------------------------------- MODULE CallBook -------------------------------
(***************************************************************************)
(* What Softphone promises of calls, without its objects, its commands and *)
(* its two numberings: a call goes on once, while calls go on one of them  *)
(* has the user's attention, and who talked is asked for a disposition     *)
(* once, after the call.                                                   *)
(***************************************************************************)
CONSTANTS
  Ids,               \* SIP call ids
  ForceDisposition   \* a disposition is asked for

VARIABLES
  stage,             \* of each call, see Stages
  focus,             \* the call the call view is about: none or one
  asking             \* calls whose disposition is waited for

vars == <<stage, focus, asking>>

Stages == {"unknown", "waiting", "talking", "over"}

GoingOn == {i \in Ids : stage[i] \in {"waiting", "talking"}}

Init ==
  /\ stage = [i \in Ids |-> "unknown"]
  /\ focus = {} /\ asking = {}

(* A call arrives or is dialled; some are answered by the time the phone   *)
(* hears of them.  The first to come has the attention.                    *)
Arrives(i) ==
  /\ stage[i] = "unknown"
  /\ \E s \in {"waiting", "talking"} : stage' = [stage EXCEPT ![i] = s]
  /\ focus' \in {focus, {i}} \ {{}}
  /\ UNCHANGED asking

(* A call is answered, or one that was answered is turned to. *)
Attends(i) ==
  /\ i \in GoingOn
  /\ stage' = [stage EXCEPT ![i] = "talking"]
  /\ focus' \in {focus, {i}}
  /\ UNCHANGED asking

(* Calls end, whoever ends them; a transfer ends two. *)
End(ended) ==
  /\ stage' = [i \in Ids |-> IF i \in ended THEN "over" ELSE stage[i]]
  /\ \/ GoingOn = ended /\ focus' = {}
     \/ \E i \in GoingOn \ ended : focus' = {i}
  /\ asking' = IF ForceDisposition
               THEN asking \cup {i \in ended : stage[i] = "talking"} ELSE asking

Saves(i) ==
  /\ focus = {} /\ i \in asking
  /\ asking' = asking \ {i}
  /\ UNCHANGED <<stage, focus>>

(* Holding, muting, dialling and most events are nothing to the book. *)
Rests == UNCHANGED vars

Next ==
  \/ Rests
  \/ \E i \in Ids : Arrives(i) \/ Attends(i) \/ Saves(i)
  \/ \E i, j \in GoingOn : End({i, j})

Spec == Init /\ [][Next]_vars

=============================================================================
