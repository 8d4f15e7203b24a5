--------------------------- MODULE Immobilization ---------------------------
(***************************************************************************)
(* The immobilization intent engine of fuel-api.  An operator asks for a   *)
(* vehicle to be stopped or released; the request is a row of the table    *)
(* vehicle_immobilization_intents.  Every fuel-api replica runs an         *)
(* evaluator: each tick it reconciles rows stuck in `executing', loads the *)
(* active rows, and takes them one by one through expiry, safety gates,    *)
(* claim, delivery to Traccar and finalization.  Each await of the code is *)
(* a step boundary here, so the API, the other replicas, Traccar and time  *)
(* interleave wherever they can in the program.                            *)
(*                                                                         *)
(* Time is kept as durations: a stamp of the code (safeSpeedSince,         *)
(* executionStartedAt, ...) is the time elapsed since it, expiresAt is the *)
(* time left, and both saturate at the threshold the code compares with.   *)
(* What a position says, and whether a tracker is still assigned, is input *)
(* that may differ at every read.  The gate columns are forgotten once a   *)
(* row can no longer be claimed, and the claim age once it is terminal: no *)
(* code reads them again.                                                  *)
(***************************************************************************)
EXTENDS Integers

CONSTANTS
  Vehicle,        \* vehicles
  Replica,        \* fuel-api processes running the evaluator
  MaxIntents,     \* bound: how many intents are ever requested
  Ttl,            \* intentTtlMin: how long an intent may wait
  SafeDuration,   \* safeSpeedDurationSec
  ConnDuration,   \* connectionStableSec
  ClaimTimeout,   \* EXECUTION_CLAIM_TIMEOUT_SEC
  TickLock,       \* IMMOBILIZATION_USE_ADVISORY_LOCK: one tick at a time
  MaxFaults       \* bound: how many crashes and database errors happen

ASSUME ConstantsAssumption ==
  /\ MaxIntents \in Nat /\ Ttl \in Nat /\ MaxFaults \in Nat
  /\ SafeDuration \in Nat /\ ConnDuration \in Nat /\ ClaimTimeout \in Nat
  /\ TickLock \in BOOLEAN

VARIABLES
  status,     \* per intent: the status column ("absent": not yet inserted)
  request,    \* per intent: vehicle and action, fixed at insertion
  gate,       \* per intent: time left before expiresAt, and the gate timers
  exec,       \* per intent: claim age, traccarDeliveryAt set?, executionError
  notified,   \* per intent: the terminal statuses operators were told of
  wire,       \* per intent: what happened to its command at Traccar
  posts,      \* per intent: number of POST /api/commands/send (history)
  sinceUnsafe, \* per intent: time since an evaluation that was saved saw it not safe
  pc,         \* per replica: the next step of its tick
  todo,       \* per replica: the loaded intents not yet evaluated
  snap,       \* per replica: the loaded copy of each row in todo
  verdict,    \* per replica: evaluation.authorized of the current row
  result,     \* per replica: the error or outcome it is about to report
  plan,       \* per replica: what reconcileStuckExecuting decided per row
  faults      \* crashes and database errors so far

rowVars   == <<status, request, gate, exec, sinceUnsafe>>
traccarVars == <<wire, posts>>
tickVars  == <<pc, todo, snap, verdict, result, plan>>
vars == <<rowVars, notified, traccarVars, tickVars, faults>>

-----------------------------------------------------------------------------
Intent == 1..MaxIntents

Cancellable == {"pending", "monitoring"}
Active      == Cancellable \cup {"executing"}
Terminal    == {"completed", "failed", "expired", "cancelled"}
Status      == {"absent"} \cup Active \cup Terminal

Action == {"immobilize", "mobilize"}
Error  == {"device_reassigned", "claim_timeout", "traccar_http_rejected",
           "traccar_delivery_unknown_timeout"}

Result == Error \cup {"none", "completed", "failed", "expired"}

\* What a device's latest position amounts to for the gates: "offline" is not
\* online or not fresh, "moving" is fresh above the speed limit, "safe" is
\* fresh and slow.
Telemetry == {"offline", "moving", "safe"}

Off == -1                           \* a null stamp
Elapsed(limit) == Off..limit

Request   == [vehicle : Vehicle, action : Action]
Gate      == [ttl : 0..Ttl, safe : Elapsed(SafeDuration), online : Elapsed(ConnDuration)]
Exec      == [age : 0..(ClaimTimeout + 1), recorded : BOOLEAN, error : Result]
Copy      == [status : Active \cup {"none"}, safe : Elapsed(SafeDuration), online : Elapsed(ConnDuration)]
Step      == {"down", "startup", "idle", "reconcile", "next", "gated", "claim", "assign", "post",
              "wait", "record", "complete", "fail", "notify"}
\* The steps between a won claim and its finalization.
Delivering == {"assign", "post", "wait", "record", "complete", "fail"}

NoRequest == [vehicle |-> "none", action |-> "none"]
NoGate    == [ttl |-> 0, safe |-> Off, online |-> Off]
NoExec    == [age |-> 0, recorded |-> FALSE, error |-> "none"]
NoCopy    == [status |-> "none", safe |-> Off, online |-> Off]
NoPlan    == [i \in Intent |-> "none"]

Init ==
  /\ status = [i \in Intent |-> "absent"]
  /\ request = [i \in Intent |-> NoRequest]
  /\ gate = [i \in Intent |-> NoGate]
  /\ exec = [i \in Intent |-> NoExec]
  /\ notified = [i \in Intent |-> {}]
  /\ wire = [i \in Intent |-> "idle"]
  /\ posts = [i \in Intent |-> 0]
  /\ sinceUnsafe = [i \in Intent |-> Off]
  /\ pc = [r \in Replica |-> "down"]
  /\ todo = [r \in Replica |-> {}]
  /\ snap = [r \in Replica |-> [i \in Intent |-> NoCopy]]
  /\ verdict = [r \in Replica |-> FALSE]
  /\ result = [r \in Replica |-> "none"]
  /\ plan = [r \in Replica |-> NoPlan]
  /\ faults = 0

-----------------------------------------------------------------------------
(* The safety gates, on the three telemetry classes.                       *)

\* A timer runs from the first evaluation that met its condition.
TimerAfter(met, timer) ==
  IF ~met THEN Off ELSE IF timer = Off THEN 0 ELSE timer

\* Mutant: a running timer is taken for an elapsed one.
ReachedOnceStarted(timer, limit) == timer # Off

Reached(timer, limit) == timer # Off /\ timer = limit

Connected(seen) == seen # "offline"

Authorized(action, seen, safe, online) ==
  \/ action = "mobilize" /\ Connected(seen)
  \/ /\ action = "immobilize" /\ seen = "safe"
     /\ Reached(safe, SafeDuration)
     /\ Reached(online, ConnDuration)

-----------------------------------------------------------------------------
(* The API.                                                                *)

IntentsOf(v, S) == {i \in Intent : status[i] \in S /\ request[i].vehicle = v}

\* computeEffectiveStatus: an unswept row past expiresAt counts as expired.
EffectivelyActive(i) ==
  \/ status[i] = "executing"
  \/ status[i] \in Cancellable /\ gate[i].ttl > 0

\* Rows are numbered in the order of createdAt.
Fresh(i) == status[i] = "absent" /\ \A j \in Intent : j < i => status[j] # "absent"

\* The inserted row, its gates evaluated once with empty timers on the position
\* seen; `others' are the rows the same transaction cancels.
Insert(i, v, action, others, seen) ==
  /\ status' = [j \in Intent |-> IF j = i THEN "pending"
                                 ELSE IF j \in others THEN "cancelled" ELSE status[j]]
  /\ request' = [request EXCEPT ![i] = [vehicle |-> v, action |-> action]]
  /\ gate' = [j \in Intent |->
                IF j = i THEN [ttl |-> Ttl,
                               safe |-> TimerAfter(seen = "safe", Off),
                               online |-> TimerAfter(Connected(seen), Off)]
                ELSE IF j \in others THEN NoGate ELSE gate[j]]
  /\ sinceUnsafe' = [j \in Intent |-> IF j = i THEN (IF seen = "safe" THEN Off ELSE 0)
                                      ELSE IF j \in others THEN Off ELSE sinceUnsafe[j]]
  /\ UNCHANGED <<exec, notified, traccarVars, tickVars, faults>>

\* The findOne of createIntent, and the partial unique index on the table.
PreCheckPasses(v) == \A i \in IntentsOf(v, Active) : ~EffectivelyActive(i)
IndexAdmits(v)    == IntentsOf(v, Active) = {}

\* createIntent(immobilize).  The pre-check is an earlier read than the insert,
\* but the index admits a row only in states in which it would pass, so one
\* step has the outcomes of both; a refused request changes nothing.
CreateImmobilize(i, v) ==
  /\ Fresh(i)
  /\ PreCheckPasses(v) /\ IndexAdmits(v)
  /\ \E seen \in Telemetry : Insert(i, v, "immobilize", {}, seen)

\* Mutant: a release is admitted while another command of the vehicle executes.
CreateMobilizeAlways(i, v) ==
  /\ Fresh(i)
  /\ \E seen \in Telemetry :
       Insert(i, v, "mobilize", IntentsOf(v, Cancellable), seen)

\* createIntent(mobilize): one transaction cancels the cancellable intents of
\* the vehicle and inserts; an executing one makes the insert fail and rolls
\* the cancellations back.
CreateMobilize(i, v) ==
  /\ Fresh(i)
  /\ IntentsOf(v, {"executing"}) = {}
  /\ \E seen \in Telemetry :
       Insert(i, v, "mobilize", IntentsOf(v, Cancellable), seen)

\* The row leaves the states in which the gates are evaluated.
Leave(i, to) ==
  /\ status' = [status EXCEPT ![i] = to]
  /\ gate' = [gate EXCEPT ![i] = NoGate]
  /\ sinceUnsafe' = [sinceUnsafe EXCEPT ![i] = Off]

\* Mutant: an executing intent can be cancelled too.
CancelActive(i) ==
  /\ status[i] \in Active
  /\ Leave(i, "cancelled")
  /\ notified' = [notified EXCEPT ![i] = @ \cup {"cancelled"}]
  /\ UNCHANGED <<request, exec, traccarVars, tickVars, faults>>

\* cancelIntent: a compare-and-set from the cancellable statuses.
Cancel(i) ==
  /\ status[i] \in Cancellable
  /\ Leave(i, "cancelled")
  /\ notified' = [notified EXCEPT ![i] = @ \cup {"cancelled"}]
  /\ UNCHANGED <<request, exec, traccarVars, tickVars, faults>>

-----------------------------------------------------------------------------
(* The evaluator: reconcileStuckExecuting.                                 *)

\* Mutant: only recorded deliveries are resolved.
ResolveRecordedOnly(i) ==
  IF status[i] = "executing" /\ exec[i].recorded THEN "complete" ELSE "none"

\* resolveStuckExecutingRow on the row as it is selected.
Resolve(i) ==
  IF status[i] # "executing" THEN "none"
  ELSE IF exec[i].recorded THEN "complete"
  ELSE IF exec[i].age > ClaimTimeout THEN "fail" ELSE "none"

\* An executing row is closed; what was recorded of its delivery stays.
Close(i, to, error) ==
  /\ status' = [status EXCEPT ![i] = to]
  /\ exec' = [exec EXCEPT ![i] = [age |-> 0, recorded |-> exec[i].recorded, error |-> error]]

\* SELECT ... WHERE status = 'executing', with the decisions taken on it.
SelectStuck(r, step) ==
  /\ plan' = [plan EXCEPT ![r] = [i \in Intent |-> Resolve(i)]]
  /\ pc' = [pc EXCEPT ![r] = step]
  /\ UNCHANGED <<rowVars, notified, traccarVars, todo, snap, verdict,
                 result, faults>>

\* A process starts, and reconciles once before its schedulers run.
Boot(r) == pc[r] = "down" /\ SelectStuck(r, "startup")

\* runIntervalJob: a tick starts unless one is in flight in this process or,
\* with the advisory lock, in another.
StartTick(r) ==
  /\ pc[r] = "idle"
  /\ TickLock => \A s \in Replica : pc[s] \in {"down", "startup", "idle"}
  /\ SelectStuck(r, "reconcile")

\* Mutant: the UPDATE does not ask whether the row is still executing.
ReconcileRowBlindly(r, i) ==
  /\ pc[r] \in {"startup", "reconcile"} /\ plan[r][i] # "none"
  /\ plan' = [plan EXCEPT ![r][i] = "none"]
  /\ IF plan[r][i] = "complete" THEN Close(i, "completed", "none")
                                ELSE Close(i, "failed", "claim_timeout")
  /\ UNCHANGED <<request, gate, sinceUnsafe, notified, traccarVars, pc,
                 todo, snap, verdict, result, faults>>

\* The UPDATE for one selected row: it rechecks nothing but the status.
ReconcileRow(r, i) ==
  /\ pc[r] \in {"startup", "reconcile"} /\ plan[r][i] # "none"
  /\ plan' = [plan EXCEPT ![r][i] = "none"]
  /\ IF status[i] # "executing" THEN UNCHANGED <<status, exec>>
     ELSE IF plan[r][i] = "complete" THEN Close(i, "completed", "none")
                                     ELSE Close(i, "failed", "claim_timeout")
  /\ UNCHANGED <<request, gate, sinceUnsafe, notified, traccarVars, pc,
                 todo, snap, verdict, result, faults>>

FinishStartup(r) ==
  /\ pc[r] = "startup" /\ plan[r] = NoPlan
  /\ pc' = [pc EXCEPT ![r] = "idle"]
  /\ UNCHANGED <<rowVars, notified, traccarVars, todo, snap, verdict,
                 result, plan, faults>>

-----------------------------------------------------------------------------
(* The evaluator: evaluateActiveIntents and evaluateOneIntent.             *)

\* The one read of a tick: every later step works on these copies.
LoadActive(r) ==
  /\ pc[r] = "reconcile" /\ plan[r] = NoPlan
  /\ LET rows == {i \in Intent : status[i] \in Active} IN
     /\ todo' = [todo EXCEPT ![r] = rows]
     /\ snap' = [snap EXCEPT ![r] = [i \in Intent |->
                    IF i \in rows THEN [status |-> status[i], safe |-> gate[i].safe,
                                        online |-> gate[i].online]
                    ELSE NoCopy]]
     /\ pc' = [pc EXCEPT ![r] = IF rows = {} THEN "idle" ELSE "next"]
  /\ UNCHANGED <<rowVars, notified, traccarVars, verdict, result, plan, faults>>

\* Intents are taken in the order of createdAt.
Current(r, i) == i \in todo[r] /\ \A j \in todo[r] : i <= j

Goto(r, step) ==
  /\ pc' = [pc EXCEPT ![r] = step]
  /\ UNCHANGED <<todo, plan>>

\* evaluateOneIntent returned: drop the copy, go on with the next one.
Finished(r, i) ==
  /\ todo' = [todo EXCEPT ![r] = @ \ {i}]
  /\ snap' = [snap EXCEPT ![r][i] = NoCopy]
  /\ verdict' = [verdict EXCEPT ![r] = FALSE]
  /\ result' = [result EXCEPT ![r] = "none"]
  /\ pc' = [pc EXCEPT ![r] = IF todo[r] = {i} THEN "idle" ELSE "next"]
  /\ UNCHANGED plan

\* Mutant: only pending rows are swept.
ExpirePending(r, i) ==
  /\ pc[r] = "next" /\ Current(r, i)
  /\ status[i] = "pending" /\ gate[i].ttl = 0
  /\ Leave(i, "expired")
  /\ result' = [result EXCEPT ![r] = "expired"]
  /\ Goto(r, "notify")
  /\ UNCHANGED <<request, exec, notified, traccarVars, snap, verdict, faults>>

\* Past expiresAt and still cancellable: swept to `expired', then notified.
Expire(r, i) ==
  /\ pc[r] = "next" /\ Current(r, i)
  /\ status[i] \in Cancellable /\ gate[i].ttl = 0
  /\ Leave(i, "expired")
  /\ result' = [result EXCEPT ![r] = "expired"]
  /\ Goto(r, "notify")
  /\ UNCHANGED <<request, exec, notified, traccarVars, snap, verdict, faults>>

\* The copy says executing, or the row is executing or terminal by now: every
\* compare-and-set that the code may still try on it misses.
PassOver(r, i) ==
  /\ pc[r] = "next" /\ Current(r, i)
  /\ snap[r][i].status = "executing" \/ status[i] \notin Cancellable
  /\ Finished(r, i)
  /\ UNCHANGED <<rowVars, notified, traccarVars, faults>>

\* loadTelemetryForDevice and evaluateGates, from the timers of the copy.
ReadGates(r, i) ==
  /\ pc[r] = "next" /\ Current(r, i)
  /\ snap[r][i].status # "executing"
  /\ status[i] \in Cancellable /\ gate[i].ttl > 0
  /\ \E seen \in Telemetry :
       LET safe   == TimerAfter(seen = "safe", snap[r][i].safe)
           online == TimerAfter(Connected(seen), snap[r][i].online)
       IN  /\ snap' = [snap EXCEPT ![r][i] = [status |-> snap[r][i].status,
                                              safe |-> safe, online |-> online]]
           /\ verdict' = [verdict EXCEPT ![r] = Authorized(request[i].action, seen, safe, online)]
  /\ Goto(r, "gated")
  /\ UNCHANGED <<rowVars, notified, traccarVars, result, faults>>

\* Mutant: the row is saved whatever its status has become.
SaveGatesBlindly(r, i) ==
  /\ pc[r] = "gated" /\ Current(r, i)
  /\ status' = [status EXCEPT ![i] = "monitoring"]
  /\ Finished(r, i)
  /\ UNCHANGED <<request, gate, exec, sinceUnsafe, notified, traccarVars, faults>>

\* pending -> monitoring, or the gateSnapshot of a monitoring row; either is
\* conditional on the status the copy shows.
SaveGates(r, i) ==
  /\ pc[r] = "gated" /\ Current(r, i)
  /\ IF status[i] = snap[r][i].status
     THEN /\ status' = [status EXCEPT ![i] = "monitoring"]
          /\ gate' = [gate EXCEPT ![i] = [ttl |-> gate[i].ttl, safe |-> snap[r][i].safe,
                                          online |-> snap[r][i].online]]
          /\ sinceUnsafe' = [sinceUnsafe EXCEPT ![i] = IF snap[r][i].safe = Off THEN 0 ELSE @]
          /\ IF verdict[r] THEN Goto(r, "claim") /\ UNCHANGED <<snap, verdict, result>>
                           ELSE Finished(r, i)
     ELSE Finished(r, i) /\ UNCHANGED <<status, gate, sinceUnsafe>>
  /\ UNCHANGED <<request, exec, notified, traccarVars, faults>>

\* Mutant: the claim does not ask whether somebody else holds the row.
ClaimableHeld(i) == status[i] \in Active

Claimable(i) == status[i] \in Cancellable /\ gate[i].ttl > 0

\* tryClaimIntentForExecution.
Claim(r, i) ==
  /\ pc[r] = "claim" /\ Current(r, i)
  /\ IF Claimable(i)
     THEN /\ Leave(i, "executing")
          /\ exec' = [exec EXCEPT ![i].age = 0]
          /\ Goto(r, "assign")
          /\ UNCHANGED <<snap, verdict, result>>
     ELSE Finished(r, i) /\ UNCHANGED <<status, gate, sinceUnsafe, exec>>
  /\ UNCHANGED <<request, notified, traccarVars, faults>>

-----------------------------------------------------------------------------
(* The evaluator: delivery of a claimed intent.                            *)

\* getActiveAssignment and deviceMatchesActiveAssignment, after the claim: the
\* tracker may have been moved to another vehicle at any time, or not.
CheckAssignment(r, i) ==
  /\ pc[r] = "assign" /\ Current(r, i)
  /\ \/ Goto(r, "post") /\ UNCHANGED result
     \/ Goto(r, "fail") /\ result' = [result EXCEPT ![r] = "device_reassigned"]
  /\ UNCHANGED <<rowVars, notified, traccarVars, snap, verdict, faults>>

\* sendDeviceCommand puts the request on the wire.
Post(r, i) ==
  /\ pc[r] = "post" /\ Current(r, i)
  /\ posts' = [posts EXCEPT ![i] = @ + 1]
  /\ wire' = [wire EXCEPT ![i] = "inflight"]
  /\ Goto(r, "wait")
  /\ UNCHANGED <<rowVars, notified, snap, verdict, result, faults>>

\* Traccar takes the command or refuses it, early or late, or never sees it.
TraccarAnswers(i) ==
  /\ wire[i] = "inflight"
  /\ \E answer \in {"accepted", "rejected"} : wire' = [wire EXCEPT ![i] = answer]
  /\ UNCHANGED <<rowVars, notified, posts, tickVars, faults>>

\* What the awaited sendDeviceCommand comes back with.
Await(r, i) ==
  /\ pc[r] = "wait" /\ Current(r, i)
  /\ UNCHANGED <<rowVars, notified, traccarVars, snap, verdict, faults>>

\* Mutant: any answer is taken for a 2xx.
GotAnswer(r, i) ==
  /\ Await(r, i) /\ wire[i] \in {"accepted", "rejected"}
  /\ Goto(r, "record") /\ UNCHANGED result

Got2xx(r, i) ==
  /\ Await(r, i) /\ wire[i] = "accepted"
  /\ Goto(r, "record") /\ UNCHANGED result

\* The fetch ran into AbortSignal.timeout: the error carries timedOut.
TimedOut(r, i) ==
  /\ Await(r, i)
  /\ Goto(r, "fail")
  /\ result' = [result EXCEPT ![r] = "traccar_delivery_unknown_timeout"]

\* Any other error: a non-2xx answer, but also a broken connection or a body
\* that could not be read in time, which do not carry timedOut.
Threw(r, i) ==
  /\ Await(r, i)
  /\ Goto(r, "fail")
  /\ result' = [result EXCEPT ![r] = "traccar_http_rejected"]

\* recordTraccarDeliveryAccepted, whose result nobody looks at.
Record(r, i) ==
  /\ pc[r] = "record" /\ Current(r, i)
  /\ exec' = IF status[i] = "executing" THEN [exec EXCEPT ![i].recorded = TRUE] ELSE exec
  /\ Goto(r, "complete")
  /\ UNCHANGED <<status, request, gate, sinceUnsafe, notified, traccarVars,
                 snap, verdict, result, faults>>

\* finalizeExecutingIntent: only while still executing; the winner notifies.
Finalize(r, i, to, error, outcome) ==
  /\ IF status[i] = "executing"
     THEN /\ Close(i, to, error)
          /\ result' = [result EXCEPT ![r] = outcome]
          /\ Goto(r, "notify")
          /\ UNCHANGED <<snap, verdict>>
     ELSE Finished(r, i) /\ UNCHANGED <<status, exec>>
  /\ UNCHANGED <<request, gate, sinceUnsafe, notified, traccarVars, faults>>

Complete(r, i) ==
  /\ pc[r] = "complete" /\ Current(r, i)
  /\ Finalize(r, i, "completed", "none", "completed")

Fail(r, i) ==
  /\ pc[r] = "fail" /\ Current(r, i)
  /\ Finalize(r, i, "failed", result[r], "failed")

\* safeNotify with the row the update returned.
Notify(r, i) ==
  /\ pc[r] = "notify" /\ Current(r, i)
  /\ notified' = [notified EXCEPT ![i] = @ \cup {result[r]}]
  /\ Finished(r, i)
  /\ UNCHANGED <<rowVars, traccarVars, faults>>

-----------------------------------------------------------------------------
(* Faults: a database error at any await of a tick, a process crash.       *)

Faulty == faults < MaxFaults /\ faults' = faults + 1

\* Thrown out of reconcileStuckExecuting: the tick, or the startup run, ends.
ReconcileThrows(r) ==
  /\ pc[r] \in {"startup", "reconcile"} /\ Faulty
  /\ plan' = [plan EXCEPT ![r] = NoPlan]
  /\ pc' = [pc EXCEPT ![r] = "idle"]
  /\ UNCHANGED <<rowVars, notified, traccarVars, todo, snap, verdict,
                 result>>

\* Thrown out of evaluateOneIntent: caught by the loop, next intent.
EvaluationThrows(r, i) ==
  /\ pc[r] \in {"next", "gated", "claim", "assign", "fail"} /\ Current(r, i) /\ Faulty
  /\ Finished(r, i)
  /\ UNCHANGED <<rowVars, notified, traccarVars>>

\* Thrown while recording or finalizing a 2xx: caught beside the HTTP errors,
\* and reported as one.
DeliveryThrows(r, i) ==
  /\ pc[r] \in {"record", "complete"} /\ Current(r, i) /\ Faulty
  /\ Goto(r, "fail")
  /\ result' = [result EXCEPT ![r] = "traccar_http_rejected"]
  /\ UNCHANGED <<rowVars, notified, traccarVars, snap, verdict>>

Crash(r) ==
  /\ pc[r] # "down" /\ Faulty
  /\ pc' = [pc EXCEPT ![r] = "down"]
  /\ todo' = [todo EXCEPT ![r] = {}]
  /\ snap' = [snap EXCEPT ![r] = [i \in Intent |-> NoCopy]]
  /\ verdict' = [verdict EXCEPT ![r] = FALSE]
  /\ result' = [result EXCEPT ![r] = "none"]
  /\ plan' = [plan EXCEPT ![r] = NoPlan]
  /\ UNCHANGED <<rowVars, notified, traccarVars>>

-----------------------------------------------------------------------------
(* Time.                                                                   *)

Aged(timer, limit) == IF timer = Off \/ timer = limit THEN timer ELSE timer + 1

TimePasses ==
  /\ gate' = [i \in Intent |-> IF status[i] \in Cancellable
                  THEN [ttl |-> IF gate[i].ttl = 0 THEN 0 ELSE gate[i].ttl - 1,
                        safe |-> Aged(gate[i].safe, SafeDuration),
                        online |-> Aged(gate[i].online, ConnDuration)]
                  ELSE gate[i]]
  /\ exec' = [i \in Intent |-> IF status[i] = "executing"
                  THEN [exec[i] EXCEPT !.age = IF @ > ClaimTimeout THEN @ ELSE @ + 1]
                  ELSE exec[i]]
  /\ sinceUnsafe' = [i \in Intent |-> Aged(sinceUnsafe[i], SafeDuration)]
  /\ snap' = [r \in Replica |-> [i \in Intent |->
                 [status |-> snap[r][i].status,
                  safe |-> Aged(snap[r][i].safe, SafeDuration),
                  online |-> Aged(snap[r][i].online, ConnDuration)]]]
  /\ UNCHANGED <<status, request, notified, traccarVars, pc, todo, verdict,
                 result, plan, faults>>

-----------------------------------------------------------------------------
Create ==
  \E v \in Vehicle, i \in Intent : CreateImmobilize(i, v) \/ CreateMobilize(i, v)

\* What the code of one replica does on its own accord.
Evaluate(r, i) ==
  \/ ReconcileRow(r, i) \/ Expire(r, i) \/ PassOver(r, i) \/ ReadGates(r, i)
  \/ SaveGates(r, i) \/ Claim(r, i) \/ CheckAssignment(r, i) \/ Post(r, i)
  \/ Got2xx(r, i) \/ TimedOut(r, i) \/ Threw(r, i) \/ Record(r, i)
  \/ Complete(r, i) \/ Fail(r, i) \/ Notify(r, i)

Run(r) ==
  \/ Boot(r) \/ StartTick(r) \/ FinishStartup(r) \/ LoadActive(r)
  \/ \E i \in Intent : Evaluate(r, i)

Fault(r) ==
  \/ ReconcileThrows(r) \/ Crash(r)
  \/ \E i \in Intent : EvaluationThrows(r, i) \/ DeliveryThrows(r, i)

Next ==
  \/ Create
  \/ \E i \in Intent : Cancel(i) \/ TraccarAnswers(i)
  \/ \E r \in Replica : Run(r) \/ Fault(r)
  \/ TimePasses

Spec == Init /\ [][Next]_vars

\* setInterval fires again and again, every await of a tick settles (the HTTP
\* call is bounded by AbortSignal.timeout), and time passes.
FairSpec == Spec /\ (\A r \in Replica : WF_vars(Run(r))) /\ WF_vars(TimePasses)

-----------------------------------------------------------------------------
TypeOK ==
  /\ status \in [Intent -> Status]
  /\ request \in [Intent -> Request \cup {NoRequest}]
  /\ gate \in [Intent -> Gate]
  /\ exec \in [Intent -> Exec]
  /\ notified \in [Intent -> SUBSET (Terminal \cup Result)]
  /\ wire \in [Intent -> {"idle", "inflight", "accepted", "rejected"}]
  /\ posts \in [Intent -> Nat]
  /\ sinceUnsafe \in [Intent -> Elapsed(SafeDuration)]
  /\ pc \in [Replica -> Step]
  /\ todo \in [Replica -> SUBSET Intent]
  /\ snap \in [Replica -> [Intent -> Copy]]
  /\ verdict \in [Replica -> BOOLEAN]
  /\ result \in [Replica -> Result]
  /\ plan \in [Replica -> [Intent -> {"none", "complete", "fail"}]]
  /\ faults \in Nat

\* "At most one Traccar POST per intent row": across ticks, replicas, crashes,
\* retries and the watchdog, the claim is the only way to the POST.
AtMostOnePost == \A i \in Intent : posts[i] <= 1

\* An intent that was cancelled, superseded or that expired never had its
\* command sent, whatever an evaluator held in hand when it was withdrawn.
WithdrawnNeverSent ==
  \A i \in Intent : status[i] \in {"expired", "cancelled"} => posts[i] = 0

\* An intent is reported completed only if Traccar did accept its command, be
\* it finalized by its evaluator or by the watchdog after a crash.
CompletedMeansAccepted ==
  \A i \in Intent : status[i] = "completed" => wire[i] = "accepted"

\* Two replicas are between claim and finalization of two intents of one
\* vehicle only if the watchdog had already given up one of the two: no stop
\* and release commands cross otherwise.
RivalsOnlyAfterWatchdog ==
  \A r, s \in Replica : \A i, j \in Intent :
    /\ i # j /\ request[i].vehicle = request[j].vehicle
    /\ pc[r] \in Delivering /\ Current(r, i)
    /\ pc[s] \in Delivering /\ Current(s, j)
    => \E k \in {i, j} : \/ status[k] = "failed" /\ exec[k].error = "claim_timeout"
                         \/ status[k] = "completed"

\* Operators are told of at most one outcome of an intent, and it is the one
\* its row ends with.
NotifiedIsFinal ==
  \A i \in Intent : notified[i] = {} \/ notified[i] = {status[i]}

\* A stop is claimed for delivery only if no evaluation of that intent that was
\* saved, by any replica, saw the vehicle unsafe within the required time; this
\* takes one evaluator at a time.
StopNeedsSafeWindow ==
  [][\A i \in Intent :
        /\ status[i] # "executing" /\ status'[i] = "executing"
        /\ request[i].action = "immobilize"
        => sinceUnsafe[i] = Off \/ sinceUnsafe[i] = SafeDuration]_vars

\* "Stuck executing resolves": a claimed intent reaches completed or failed,
\* though its process crashes or a statement throws.
StuckExecutingResolves ==
  \A i \in Intent : status[i] = "executing" ~> status[i] \in {"completed", "failed"}

\* An intent does not wait forever: it is claimed, withdrawn or swept.
WaitingEnds ==
  \A i \in Intent : status[i] \in Cancellable ~> status[i] \notin Cancellable

\* The engine implements the lifecycle it promises (IntentLifecycle): to an
\* operator, pending and monitoring are one waiting stage, cancelled and
\* expired one withdrawal.
StageOf(s) ==
  IF s \in Cancellable THEN "waiting"
  ELSE IF s = "executing" THEN "claimed"
  ELSE IF s \in {"expired", "cancelled"} THEN "withdrawn" ELSE s

Lifecycle == INSTANCE IntentLifecycle WITH
  stage <- [i \in Intent |-> StageOf(status[i])],
  owner <- [i \in Intent |-> request[i].vehicle],
  command <- wire

ImplementsLifecycle == Lifecycle!Spec

-----------------------------------------------------------------------------
(* The inductive invariant behind the safety properties.                   *)

\* r holds the claim of i: it won it and has not yet finalized.
InDelivery(r, i) == pc[r] \in Delivering /\ Current(r, i)

\* What the rows and Traccar's record say of one intent.
RowConsistent(i) ==
  /\ posts[i] \in {0, 1} /\ (posts[i] = 0 <=> wire[i] = "idle")
  /\ posts[i] # 0 => status[i] \in {"executing", "completed", "failed"}
  /\ exec[i].recorded \/ status[i] = "completed" => wire[i] = "accepted"
  /\ notified[i] \subseteq Terminal \cap {status[i]}

OneActivePerVehicle ==
  \A i, j \in Intent :
    /\ status[i] \in Active /\ status[j] \in Active
    /\ request[i].vehicle = request[j].vehicle
    => i = j

\* What a replica relies on, at its point of the tick, of its current intent:
\* only the watchdog ends a row under its holder, nothing was sent before the
\* POST, whatever leads to `completed' has seen Traccar accept, and what is
\* notified is what the row says.
TickConsistent(r, i) ==
  /\ plan[r][i] = "complete" => wire[i] = "accepted"
  /\ Current(r, i) =>
       /\ pc[r] = "gated" => snap[r][i].status # "executing"
       /\ pc[r] \in Delivering =>
            \/ status[i] \in {"executing", "completed"}
            \/ status[i] = "failed" /\ exec[i].error = "claim_timeout"
       /\ pc[r] \in {"assign", "post"} => posts[i] = 0
       /\ pc[r] \in {"record", "complete"} => wire[i] = "accepted"
       /\ pc[r] = "notify" => result[r] \in Terminal /\ status[i] = result[r]

\* A claim has one holder.
OneHolder ==
  \A r, s \in Replica : \A i \in Intent : InDelivery(r, i) /\ InDelivery(s, i) => r = s

IInv ==
  /\ TypeOK
  /\ \A i \in Intent : RowConsistent(i)
  /\ OneActivePerVehicle
  /\ \A r \in Replica : \A i \in Intent : TickConsistent(r, i)
  /\ OneHolder

-----------------------------------------------------------------------------
(* The inductive invariant behind StopNeedsSafeWindow, which needs what     *)
(* docs/IMMOBILIZATION.md:90 asks of a deployment.                         *)

\* "Keep IMMOBILIZATION_USE_ADVISORY_LOCK=1 on all replicas or" evaluate on one.
OneEvaluator == TickLock \/ \A r, s \in Replica : r = s

AtRest == {"down", "startup", "idle"}

OneTickAtATime == \A r, s \in Replica : pc[r] \notin AtRest /\ pc[s] \notin AtRest => r = s

\* A safe-speed timer that runs was started after i was last saved unsafe.
Backed(i, timer) == timer # Off => sinceUnsafe[i] = Off \/ sinceUnsafe[i] >= timer

\* The copies a tick holds are of rows that exist and none outlives the tick; a
\* stop is on its way to the claim only once the timer has run out.
CopiesBacked(r) ==
  /\ pc[r] \in AtRest \cup {"reconcile"} => todo[r] = {}
  /\ \A i \in todo[r] : status[i] # "absent" /\ Backed(i, snap[r][i].safe)
  /\ pc[r] = "claim" => verdict[r]
  /\ \A i \in Intent :
       /\ pc[r] \in {"gated", "claim"} /\ Current(r, i)
       /\ verdict[r] /\ request[i].action = "immobilize"
       => snap[r][i].safe = SafeDuration

WindowInv ==
  /\ OneTickAtATime
  /\ \A i \in Intent : Backed(i, gate[i].safe)
  /\ \A r \in Replica : CopiesBacked(r)

-----------------------------------------------------------------------------
(* What the documentation says; Immobilization*Doc.cfg refute it.          *)

\* docs/IMMOBILIZATION.md:127: traccar_http_rejected is "Traccar HTTP non-2xx
\* (a real response was received)".
RejectedMeansResponse ==
  \A i \in Intent : status[i] = "failed" /\ exec[i].error = "traccar_http_rejected"
                    => wire[i] = "rejected"

=============================================================================
