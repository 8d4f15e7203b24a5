-------------------------- MODULE IntentLifecycle --------------------------
(***************************************************************************)
(* What the immobilization engine promises an operator, with no evaluator, *)
(* replica, tick or timeout in sight: an intent waits, is either withdrawn *)
(* or claimed, and a claimed one ends as completed or failed; a vehicle    *)
(* has one live intent; a command goes out once, never for a withdrawn     *)
(* intent; completed means that Traccar accepted it.                       *)
(***************************************************************************)
CONSTANTS Intent, Vehicle

VARIABLES
  stage,    \* per intent: where it stands
  owner,    \* per intent: the vehicle it is for
  command   \* per intent: what became of its command

vars == <<stage, owner, command>>

Stage   == {"absent", "waiting", "claimed", "withdrawn", "completed", "failed"}
Live    == {"waiting", "claimed"}
Command == {"idle", "inflight", "accepted", "rejected"}

Init ==
  /\ stage = [i \in Intent |-> "absent"]
  /\ owner = [i \in Intent |-> "none"]
  /\ command = [i \in Intent |-> "idle"]

\* A new intent takes the place of the waiting ones of its vehicle; nothing
\* takes the place of a claimed one.
Ask(i, v) ==
  /\ stage[i] = "absent"
  /\ \A j \in Intent : owner[j] = v => stage[j] # "claimed"
  /\ owner' = [owner EXCEPT ![i] = v]
  /\ stage' = [j \in Intent |->
                 IF j = i THEN "waiting"
                 ELSE IF owner[j] = v /\ stage[j] = "waiting" THEN "withdrawn"
                 ELSE stage[j]]
  /\ UNCHANGED command

Move(i, from, to) ==
  /\ stage[i] = from
  /\ stage' = [stage EXCEPT ![i] = to]
  /\ UNCHANGED <<owner, command>>

Withdraw(i) == Move(i, "waiting", "withdrawn")
Claim(i)    == Move(i, "waiting", "claimed")
GiveUp(i)   == Move(i, "claimed", "failed")
Succeed(i)  == command[i] = "accepted" /\ Move(i, "claimed", "completed")

\* The command may leave late, when the intent was already given up.
Send(i) ==
  /\ command[i] = "idle" /\ stage[i] \in {"claimed", "failed"}
  /\ command' = [command EXCEPT ![i] = "inflight"]
  /\ UNCHANGED <<stage, owner>>

Answer(i) ==
  /\ command[i] = "inflight"
  /\ \E answer \in {"accepted", "rejected"} : command' = [command EXCEPT ![i] = answer]
  /\ UNCHANGED <<stage, owner>>

Next == \E i \in Intent :
  \/ \E v \in Vehicle : Ask(i, v)
  \/ Withdraw(i) \/ Claim(i) \/ GiveUp(i) \/ Succeed(i) \/ Send(i) \/ Answer(i)

Spec == Init /\ [][Next]_vars
=============================================================================
