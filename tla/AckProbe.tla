------------------------------ MODULE AckProbe ------------------------------
(***************************************************************************)
(* The acknowledgement probe of the immobilization engine.  A command whose*)
(* POST Traccar accepted is `sent'; the probe raises it to `relay_reported'*)
(* on a commandResult event of the device.  Traccar's events carry no id of*)
(* the command they answer: the probe goes by time, and refuses an event   *)
(* when another intent of the device was delivered in between.             *)
(***************************************************************************)
EXTENDS Integers, Sequences

CONSTANTS
  Prober,      \* evaluators that sweep, and probes after a delivery
  Commands,    \* number of intents of the device
  MatchWindow, \* IMMOBILIZATION_ACK_MATCH_WINDOW_SEC
  ProbeWindow, \* IMMOBILIZATION_ACK_PROBE_WINDOW_SEC
  Fetched,     \* the limit of getTraccarCommandResultsSince
  MaxResults,  \* bound: commandResult events
  MaxTime      \* bound: the clock

ASSUME ConstantsAssumption ==
  {Commands, MatchWindow, ProbeWindow, Fetched, MaxResults, MaxTime} \subseteq Nat

Intent == 1..Commands

VARIABLES
  now,        \* the clock, taken to be one for Postgres and Traccar
  cmd,        \* vehicle_immobilization_intents of the device
  results,    \* tc_events of type commandResult, in the order they came in
  probe,      \* what each prober is doing
  claimed,    \* history: the event by which an intent was raised
  unrecorded  \* history: what had no recorded delivery at the check

vars == <<now, cmd, results, probe, claimed, unrecorded>>

-----------------------------------------------------------------------------
None == 0

\* posted: Traccar has the command, the row does not say so yet.  lost: it
\* never will.  at: traccarDeliveryAt.
Stage   == {"none", "posted", "lost", "sent", "relay_reported"}
Command == [stage : Stage, at : -1..MaxTime]

\* ack: commandResultLooksLikeAck.  of: the command the device has answered,
\* None when it was none of these.
Result == [at : 0..MaxTime, ack : BOOLEAN, of : Intent \cup {None}]

Idle == [pc |-> "idle", intent |-> None, todo |-> {}]

Init ==
  /\ now = 0
  /\ cmd = [i \in Intent |-> [stage |-> "none", at |-> -1]]
  /\ results = <<>>
  /\ probe = [p \in Prober |-> Idle]
  /\ claimed = [i \in Intent |-> None]
  /\ unrecorded = [i \in Intent |-> {}]

history == <<claimed, unrecorded>>

Tick == now < MaxTime /\ now' = now + 1 /\ UNCHANGED <<cmd, results, probe, history>>

-----------------------------------------------------------------------------
(* Deliveries.  A vehicle has one active intent: they come one after the    *)
(* other.                                                                   *)

Post(i) ==
  /\ cmd[i].stage = "none" /\ \A j \in Intent : j < i => cmd[j].stage \notin {"none", "posted"}
  /\ cmd' = [cmd EXCEPT ![i].stage = "posted"]
  /\ UNCHANGED <<now, results, probe, history>>

\* recordTraccarDeliveryAccepted and finalizeExecutingIntent.
Record(i) ==
  /\ cmd[i].stage = "posted"
  /\ cmd' = [cmd EXCEPT ![i] = [stage |-> "sent", at |-> now]]
  /\ UNCHANGED <<now, results, probe, history>>

\* A timeout, a crash: the intent ends without a delivery.
Lose(i) ==
  /\ cmd[i].stage = "posted"
  /\ cmd' = [cmd EXCEPT ![i].stage = "lost"]
  /\ UNCHANGED <<now, results, probe, history>>

\* The device answers a command, or something else, well or badly, or never.
Answer(of) ==
  /\ Len(results) < MaxResults
  /\ of # None => cmd[of].stage # "none" /\ \A k \in DOMAIN results : results[k].of # of
  /\ \E ack \in BOOLEAN : results' = Append(results, [at |-> now, ack |-> ack, of |-> of])
  /\ UNCHANGED <<now, cmd, probe, history>>

-----------------------------------------------------------------------------
(* probeDeviceCommandOutcome.                                               *)

\* getTraccarCommandResultsSince: the newest events since the delivery, Fetched
\* of them at most.
Newest(i) ==
  {k \in DOMAIN results : cmd[i].at <= results[k].at /\ Len(results) - Fetched < k}

\* selectPlausibleAckEvents: of these, the ones within the window.
Plausible(i) == {k \in Newest(i) : results[k].at <= cmd[i].at + MatchWindow}

\* The intent is completed and sent, and its events are read.
Probe(p, i) ==
  /\ probe[p] = Idle
  /\ cmd[i].stage = "sent" /\ now < cmd[i].at + ProbeWindow /\ Plausible(i) # {}
  /\ probe' = [probe EXCEPT ![p] = [pc |-> "check", intent |-> i, todo |-> Plausible(i)]]
  /\ UNCHANGED <<now, cmd, results, history>>

\* The candidates are taken oldest first.
IsNext(o, k) == k \in o.todo /\ \A l \in o.todo : k <= l

\* Without event k.
Without(o, k) == IF o.todo = {k} THEN Idle ELSE [o EXCEPT !.todo = @ \ {k}]

SkipFailure(p, k) ==
  /\ probe[p].pc = "check" /\ IsNext(probe[p], k) /\ ~results[k].ack
  /\ probe' = [probe EXCEPT ![p] = Without(@, k)]
  /\ UNCHANGED <<now, cmd, results, history>>

\* Mutant: only the intent's own delivery is looked at.
CompetingNever(i, at) == {}

\* Mutant: a delivery in the instant of the event does not compete.
CompetingBefore(i, at) ==
  {j \in Intent \ {i} : cmd[j].at # -1 /\ cmd[i].at < cmd[j].at /\ cmd[j].at < at}

\* hasCompetingDeliveryBetween.
Competing(i, at) ==
  {j \in Intent \ {i} : cmd[j].at # -1 /\ cmd[i].at < cmd[j].at /\ cmd[j].at <= at}

CheckRivals(p, k) ==
  LET o == probe[p] IN
  /\ o.pc = "check" /\ IsNext(o, k) /\ results[k].ack
  /\ IF Competing(o.intent, results[k].at) # {}
     THEN probe' = [probe EXCEPT ![p] = Without(@, k)] /\ UNCHANGED unrecorded
     ELSE /\ probe' = [probe EXCEPT ![p] =
                         [pc |-> "claim", intent |-> o.intent, todo |-> {k}]]
          /\ unrecorded' = [unrecorded EXCEPT ![o.intent] =
                              @ \cup {j \in Intent : cmd[j].at = -1}]
  /\ UNCHANGED <<now, cmd, results, claimed>>

\* The UPDATE, WHERE confidence = 'sent'.
Claim(p, k) ==
  LET i == probe[p].intent IN
  /\ probe[p].pc = "claim" /\ k \in probe[p].todo
  /\ IF cmd[i].stage = "sent"
     THEN /\ cmd' = [cmd EXCEPT ![i].stage = "relay_reported"]
          /\ claimed' = [claimed EXCEPT ![i] = k]
     ELSE UNCHANGED <<cmd, claimed>>
  /\ probe' = [probe EXCEPT ![p] = Idle]
  /\ UNCHANGED <<now, results, unrecorded>>

-----------------------------------------------------------------------------
Next ==
  \/ Tick
  \/ \E i \in Intent : Post(i) \/ Record(i) \/ Lose(i)
  \/ \E of \in Intent \cup {None} : Answer(of)
  \/ \E p \in Prober, i \in Intent : Probe(p, i)
  \/ \E p \in Prober, k \in DOMAIN results :
       SkipFailure(p, k) \/ CheckRivals(p, k) \/ Claim(p, k)

Spec == Init /\ [][Next]_vars

-----------------------------------------------------------------------------
\* Types of the rows, the events and the probers.
TypeOK ==
  /\ now \in 0..MaxTime
  /\ cmd \in [Intent -> Command] /\ results \in Seq(Result)
  /\ probe \in [Prober -> [pc : {"idle", "check", "claim"},
                         intent : Intent \cup {None}, todo : SUBSET DOMAIN results]]
  /\ claimed \in [Intent -> {None} \cup DOMAIN results]
  /\ unrecorded \in [Intent -> SUBSET Intent]

\* The command that event k has answered.
AnswerTo(k) == results[k].of

\* An intent is raised by the answer of another only where the probe cannot
\* tell: the other was delivered before it, or in the same instant, and answers
\* late; its delivery was not recorded yet when the rivals were looked up; or
\* the answer is older than the record of its delivery.  A delivery recorded
\* between this one and the event never goes unseen.
OnlyBlindMistakes ==
  \A i \in Intent : claimed[i] # None /\ AnswerTo(claimed[i]) \notin {i, None} =>
    LET j == AnswerTo(claimed[i])
    IN \/ cmd[j].at <= cmd[i].at
       \/ results[claimed[i]].at < cmd[j].at
       \/ j \in unrecorded[i]

\* One event raises one intent, except two that were recorded in one instant,
\* or one of which was not recorded yet when the other's rivals were looked up.
OneResultOneIntent ==
  \A i, j \in Intent :
    i # j /\ claimed[i] # None /\ claimed[i] = claimed[j] =>
      cmd[i].at = cmd[j].at \/ j \in unrecorded[i] \/ i \in unrecorded[j]

\* docs/IMMOBILIZATION.md on the rivals: "the guard that stops two intents on
\* the same device [...] from both claiming the same stray event, or the wrong
\* one claiming it".
RightIntentClaims ==
  \A i \in Intent : claimed[i] # None => AnswerTo(claimed[i]) \in {i, None}
=============================================================================
