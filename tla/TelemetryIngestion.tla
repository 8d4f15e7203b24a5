------------------------- MODULE TelemetryIngestion -------------------------
(***************************************************************************)
(* The activity row of one vehicle and everybody who writes it: the        *)
(* webhook's executions of processTelemetryEvent, the hourly job that      *)
(* re-scans Traccar's events after a cursor and feeds them to the same     *)
(* function, the sweep that evaluates every vehicle, and the on-demand     *)
(* reads of the API.  The first three take the vehicle's advisory lock,    *)
(* a blocking one, through the connection pool.  Each action is the code   *)
(* between two awaits.                                                     *)
(***************************************************************************)
EXTENDS Integers, FiniteSets

CONSTANTS
  Slot,      \* concurrent executions started by the webhook
  Sweeper,   \* executions of the vehicle-state sweep
  Reader,    \* concurrent on-demand reads
  Kinds,     \* the types of events the device produces
  Conn,      \* the connections of the pool (pool.max)
  Freshness, \* OFFLINE_FRESHNESS_MS
  Overdue,   \* MAX_RECONSTRUCTED_DURATION_MS
  Lookback,  \* TELEMETRY_RECONCILE_LOOKBACK_HOURS
  Batch,     \* batchSize of a scan
  MaxEvents, \* bound: events of the device
  MaxTime,   \* bound: clock
  MaxHolds,  \* bound: how often one session may hold the lock
  MaxPosts,  \* bound: deliveries of the webhook
  MaxFaults  \* bound: failed queries, crashes and reassignments

Handler == Slot \cup {"job"}                 \* who runs processTelemetryEvent
Locker  == Handler \cup Sweeper              \* who takes the vehicle lock
Actor   == Locker \cup Reader

ASSUME ConstantsAssumption ==
  /\ Handler \cap (Sweeper \cup Reader) = {} /\ Sweeper \cap Reader = {} /\ "job" \notin Slot
  /\ Conn # {}
  /\ Kinds \subseteq {"devicemoving", "devicestopped", "deviceonline", "deviceoffline"}
  /\ {Freshness, Overdue, Lookback, Batch, MaxEvents, MaxTime, MaxHolds, MaxPosts, MaxFaults}
       \subseteq Nat

VARIABLES
  now,      \* the clock
  device,   \* Traccar: status, last update and speed of the device
  ev,       \* Traccar: tc_events, in the order of their ids
  count,    \* Traccar: how many there are
  mapped,   \* device_assignments: does the device belong to the vehicle
  row,      \* vehicle_activity_state
  ledger,   \* telemetry_processed_events: outcome per event
  cursor,   \* notification_bridge_state: the cursor of the job
  holds,    \* the vehicle lock, per connection (AdvisoryLock)
  op,       \* what each actor is doing, and what it has read
  scan,     \* the job's loop: running, rows left, maxId
  posts,    \* deliveries of the webhook so far
  faults,   \* faults so far
  applied,  \* history: events whose evaluation was persisted
  handed,   \* history: events the job has put through processTelemetryEvent
  aged      \* history: events a scan found older than its lookback

traccarVars == <<now, device, ev, count, posts>>
storeVars   == <<mapped, row, ledger, cursor, holds>>
history     == <<applied, handed, aged>>
vars        == <<traccarVars, storeVars, op, scan, faults, history>>

-----------------------------------------------------------------------------
Time    == 0..MaxTime
EventId == 1..MaxEvents

Telemetry == [status : {"online", "offline"}, seen : Time, speed : 0..1]
Event     == [kind : Kinds \cup {"deviceoffline"}, at : Time, device : Telemetry]

State == {"moving", "idle", "offline"}
Row   == [state : State \cup {"none"}, at : Time, source : {"observed", "reconstructed"}]
NoRow == [state |-> "none", at |-> 0, source |-> "observed"]

Outcome == {"none", "skipped_unmapped_device", "error", "processed"}

\* event 0: no event.  at: the `now' the evaluation is given.
Op == [pc : {"idle", "skip", "lock", "wait", "ledger", "row", "persist", "record", "error", "unlock"},
       event : 0..MaxEvents, tele : Telemetry, at : Time, copy : Row, conn : Conn]

Silent == [status |-> "offline", seen |-> 0, speed |-> 0]
Idle   == [pc |-> "idle", event |-> 0, tele |-> Silent, at |-> 0, copy |-> NoRow,
           conn |-> CHOOSE c \in Conn : TRUE]

Process == {"fuel-api"}
Lock == INSTANCE AdvisoryLock
held == holds["fuel-api"]
LockFreeFor(c) == Lock!CanTake(holds, "fuel-api", c)

Init ==
  /\ now = 0 /\ device = Silent /\ count = 0 /\ mapped = TRUE
  /\ ev = [e \in EventId |-> [kind |-> "deviceoffline", at |-> 0, device |-> Silent]]
  /\ row = NoRow /\ ledger = [e \in EventId |-> "none"] /\ cursor = 0
  /\ holds = Lock!Unheld
  /\ op = [a \in Actor |-> Idle]
  /\ scan = [on |-> FALSE, todo |-> {}, last |-> 0]
  /\ posts = 0 /\ faults = 0
  /\ applied = {} /\ handed = {} /\ aged = {}

Goto(a, step) == op' = [op EXCEPT ![a].pc = step]

\* The call of actor a is over; the job goes on to its next row.
Finish(a) ==
  /\ op' = [op EXCEPT ![a] = Idle]
  /\ handed' = IF a = "job" THEN handed \cup {op[a].event} ELSE handed

Faulty == faults < MaxFaults /\ faults' = faults + 1

\* A connection no statement is waiting on.
Free(c) == \A a \in Actor : op[a].pc = "wait" => op[a].conn # c

\* Every statement needs one.
Connected == \E c \in Conn : Free(c)

-----------------------------------------------------------------------------
(* VehicleStateEngine, evaluateAndHeal.                                    *)

Online(tele, at) == tele.status = "online" \/ at - tele.seen < Freshness

\* resolveActivityState.
Activity(tele, at) ==
  IF ~Online(tele, at) THEN "offline" ELSE IF tele.speed > 0 THEN "moving" ELSE "idle"

EventFor(state) == IF state = "moving" THEN "devicemoving" ELSE "devicestopped"

\* The times fetchDeviceEvents may return for a state.
Matching(state, at) ==
  {ev[e].at : e \in {d \in 1..count : ev[d].kind = EventFor(state) /\ ev[d].at <= at}}

Newest(times) == {t \in times : \A u \in times : u <= t}

\* resolveStateEnteredAt: the rows it may come to.  The query of Traccar's
\* events finds the newest match, finds none, or fails.
Entered(state, tele, at) ==
  IF state = "offline"
  THEN {[state |-> state, at |-> tele.seen, source |-> "observed"]}
  ELSE {[state |-> state, at |-> at, source |-> "observed"]} \cup
       {[state |-> state, at |-> t, source |-> "reconstructed"] : t \in Newest(Matching(state, at))}

\* The health check that makes evaluateAndHeal rebuild a row.
Implausible(copy, at) == copy.source = "reconstructed" /\ at - copy.at > Overdue

\* evaluateAndHeal: what may become of the row an actor read.
Evaluated(copy, tele, at) ==
  LET fresh == Entered(Activity(tele, at), tele, at)
  IN IF copy.state # Activity(tele, at) THEN fresh
     ELSE IF Implausible(copy, at)
     THEN {IF f.at = copy.at THEN copy ELSE f : f \in fresh}
     ELSE {copy}

-----------------------------------------------------------------------------
(* Traccar, time, assignments.                                             *)

\* What Traccar says of the device once an event has happened.
After(kind) ==
  CASE kind = "devicemoving"  -> [status |-> "online", seen |-> now, speed |-> 1]
    [] kind = "devicestopped" -> [status |-> "online", seen |-> now, speed |-> 0]
    [] kind = "deviceonline"  -> [status |-> "online", seen |-> now, speed |-> device.speed]
    [] kind = "deviceoffline" -> [status |-> "offline", seen |-> device.seen, speed |-> device.speed]

Happen(kind) ==
  /\ count < MaxEvents
  /\ count' = count + 1
  /\ device' = After(kind)
  /\ ev' = [ev EXCEPT ![count + 1] = [kind |-> kind, at |-> now, device |-> After(kind)]]
  /\ UNCHANGED <<now, posts, storeVars, op, scan, faults, history>>

TimePasses ==
  /\ now < MaxTime /\ now' = now + 1
  /\ UNCHANGED <<device, ev, count, posts, storeVars, op, scan, faults, history>>

Reassign ==
  /\ Faulty /\ mapped' = ~mapped
  /\ UNCHANGED <<traccarVars, row, ledger, cursor, holds, op, scan, history>>

-----------------------------------------------------------------------------
(* processTelemetryEvent.                                                  *)

\* normalizeTraccarEvent of a row of tc_events, which comes without device and
\* position: status and speed are what the type implies, the device was last
\* updated at the time of the event.
Implied(e) ==
  [status |-> IF ev[e].kind = "deviceoffline" THEN "offline" ELSE "online",
   seen   |-> ev[e].at,
   speed  |-> IF ev[e].kind = "devicemoving" THEN 1 ELSE 0]

\* DeviceAssignment.findOne, with which a handling begins.
Begin(a, e, tele) ==
  /\ Connected
  /\ op' = [op EXCEPT ![a] = [Idle EXCEPT !.pc = IF mapped THEN "lock" ELSE "skip",
                                         !.event = e, !.tele = tele, !.at = ev[e].at]]

\* The webhook delivers an event, late, again or out of order; what it never
\* delivers is lost.
Deliver(s, e) ==
  /\ posts < MaxPosts /\ posts' = posts + 1
  /\ op[s].pc = "idle"
  /\ Begin(s, e, ev[e].device)
  /\ UNCHANGED <<now, device, ev, count, storeVars, scan, faults, history>>

RecordSkip(h) ==
  /\ op[h].pc = "skip" /\ Connected
  /\ ledger' = [ledger EXCEPT ![op[h].event] = "skipped_unmapped_device"]
  /\ Finish(h)
  /\ UNCHANGED <<traccarVars, mapped, row, cursor, holds, scan, faults, applied, aged>>

AfterLock(l) == IF l \in Sweeper THEN "persist" ELSE "ledger"

\* Mutant: the lock is not re-entrant, its own session waits for it too.
TakeLockOnce(l, c) ==
  /\ op[l].pc = "lock" /\ Free(c)
  /\ IF \A d \in Conn : held[d] = 0
     THEN holds' = Lock!Taken(holds, "fuel-api", c) /\ Goto(l, AfterLock(l))
     ELSE op' = [op EXCEPT ![l].pc = "wait", ![l].conn = c] /\ UNCHANGED holds
  /\ UNCHANGED <<traccarVars, mapped, row, ledger, cursor, scan, faults, history>>

\* pg_advisory_lock, on a free connection: it blocks that connection for as long
\* as another session holds the lock.
TakeLock(l, c) ==
  /\ op[l].pc = "lock" /\ Free(c)
  /\ IF LockFreeFor(c)
     THEN /\ held[c] < MaxHolds
          /\ holds' = Lock!Taken(holds, "fuel-api", c)
          /\ Goto(l, AfterLock(l))
     ELSE op' = [op EXCEPT ![l].pc = "wait", ![l].conn = c] /\ UNCHANGED holds
  /\ UNCHANGED <<traccarVars, mapped, row, ledger, cursor, scan, faults, history>>

GetLock(l) ==
  /\ op[l].pc = "wait" /\ LockFreeFor(op[l].conn)
  /\ holds' = Lock!Taken(holds, "fuel-api", op[l].conn)
  /\ op' = [op EXCEPT ![l].pc = AfterLock(l), ![l].conn = Idle.conn]
  /\ UNCHANGED <<traccarVars, mapped, row, ledger, cursor, scan, faults, history>>

\* getEventOutcome.
CheckLedger(h) ==
  /\ op[h].pc = "ledger" /\ Connected
  /\ Goto(h, IF ledger[op[h].event] = "processed" THEN "unlock" ELSE "row")
  /\ UNCHANGED <<traccarVars, storeVars, scan, faults, history>>

\* The row an evaluation starts from.  The webhook and the job read it under the
\* lock and evaluate at the time of the event; the sweep reads it before it
\* asks for the lock.
ReadRow(a) ==
  /\ op[a].pc = "row" /\ Connected
  /\ op' = [op EXCEPT ![a].pc = IF a \in Sweeper THEN "lock" ELSE "persist",
                      ![a].copy = row,
                      ![a].at = IF a \in Handler THEN @ ELSE now]
  /\ UNCHANGED <<traccarVars, storeVars, scan, faults, history>>

AfterPersist(a) == IF a \in Handler THEN "record" ELSE IF a \in Sweeper THEN "unlock" ELSE "idle"

\* Mutant: the sweep never writes over a row it has found.
PersistNew(a) ==
  /\ op[a].pc = "persist" /\ Connected
  /\ \E r \in Evaluated(op[a].copy, op[a].tele, op[a].at) :
       row' = IF a \in Sweeper /\ op[a].copy # NoRow THEN row ELSE r
  /\ op' = [op EXCEPT ![a] = [Idle EXCEPT !.pc = AfterPersist(a), !.event = op[a].event]]
  /\ applied' = IF a \in Handler THEN applied \cup {op[a].event} ELSE applied
  /\ UNCHANGED <<traccarVars, mapped, ledger, cursor, holds, scan, faults, handed, aged>>

\* evaluateAndHeal and persistActivityState: the sweep writes only a change.
Persist(a) ==
  /\ op[a].pc = "persist" /\ Connected
  /\ \E r \in Evaluated(op[a].copy, op[a].tele, op[a].at) :
       row' = IF a \in Sweeper /\ r = op[a].copy THEN row ELSE r
  /\ op' = [op EXCEPT ![a] = [Idle EXCEPT !.pc = AfterPersist(a), !.event = op[a].event]]
  /\ applied' = IF a \in Handler THEN applied \cup {op[a].event} ELSE applied
  /\ UNCHANGED <<traccarVars, mapped, ledger, cursor, holds, scan, faults, handed, aged>>

\* Mutant: the catch block does not throw again.
RecordBlindly(h) ==
  /\ op[h].pc \in {"record", "error"} /\ Connected
  /\ ledger' = [ledger EXCEPT ![op[h].event] = "processed"]
  /\ Goto(h, "unlock")
  /\ UNCHANGED <<traccarVars, mapped, row, cursor, holds, scan, faults, history>>

\* recordOutcome, for an attempt that persisted or that threw.
Record(h) ==
  /\ op[h].pc \in {"record", "error"} /\ Connected
  /\ ledger' = [ledger EXCEPT ![op[h].event] =
                  IF op[h].pc = "record" THEN "processed" ELSE "error"]
  /\ Goto(h, "unlock")
  /\ UNCHANGED <<traccarVars, mapped, row, cursor, holds, scan, faults, history>>

\* pg_advisory_unlock, on a free connection, whichever that is.
Unlock(l, c) ==
  /\ op[l].pc = "unlock" /\ Free(c)
  /\ holds' = Lock!GivenBack(holds, "fuel-api", c)
  /\ Finish(l)
  /\ UNCHANGED <<traccarVars, mapped, row, ledger, cursor, scan, faults, applied, aged>>

-----------------------------------------------------------------------------
(* The sweep (vehicleStateReconciliationScheduler) and the on-demand reads *)
(* (evaluateAndPersistActivityStates).                                     *)

Evaluator == Reader \cup Sweeper

\* The active assignment, then Traccar's device and latest position.
ReadDevice(a) ==
  /\ op[a].pc = "idle" /\ Connected /\ mapped
  /\ op' = [op EXCEPT ![a].pc = "row", ![a].tele = device]
  /\ UNCHANGED <<traccarVars, storeVars, scan, faults, history>>

-----------------------------------------------------------------------------
(* The job (telemetryReconciliationScheduler).                             *)

\* fetchTraccarEventsAfterCursor.
Recent(e) == e \in 1..count /\ e > cursor /\ ev[e].at >= now - Lookback
Fetched   == {e \in EventId : Recent(e) /\ Cardinality({d \in EventId : Recent(d) /\ d < e}) < Batch}

\* A tick that fetches nothing does nothing.
Scan ==
  /\ ~scan.on /\ Connected /\ Fetched # {}
  /\ scan' = [on |-> TRUE, todo |-> Fetched, last |-> cursor]
  /\ aged' = aged \cup {e \in 1..count : e > cursor /\ ~Recent(e)}
  /\ UNCHANGED <<traccarVars, storeVars, op, faults, applied, handed>>

Between == scan.on /\ op["job"].pc = "idle"

HandOver(e) ==
  /\ Between /\ e \in scan.todo /\ \A d \in scan.todo : e <= d
  /\ Begin("job", e, Implied(e))
  /\ scan' = [scan EXCEPT !.todo = @ \ {e}, !.last = e]
  /\ UNCHANGED <<traccarVars, storeVars, faults, history>>

\* Mutant: the cursor is saved before the rows are processed.
SaveCursorEarly ==
  /\ Between /\ Connected
  /\ cursor' = IF scan.todo = {} THEN scan.last ELSE CHOOSE e \in scan.todo : \A d \in scan.todo : d <= e
  /\ scan' = [scan EXCEPT !.on = scan.todo # {}]
  /\ UNCHANGED <<traccarVars, mapped, row, ledger, holds, op, faults, history>>

\* setReconciliationCursor(maxId): whatever became of the rows.
SaveCursor ==
  /\ Between /\ scan.todo = {} /\ Connected
  /\ cursor' = scan.last
  /\ scan' = [scan EXCEPT !.on = FALSE]
  /\ UNCHANGED <<traccarVars, mapped, row, ledger, holds, op, faults, history>>

ScanThrows ==
  /\ Between /\ scan.todo = {} /\ Faulty
  /\ scan' = [scan EXCEPT !.on = FALSE]
  /\ UNCHANGED <<traccarVars, storeVars, op, history>>

-----------------------------------------------------------------------------
(* Faults.                                                                 *)

\* A statement of a throws: outside the inner try the attempt is over, but the
\* finally block still unlocks; inside it the error is recorded first.
Throws(a) ==
  /\ Faulty
  /\ \/ op[a].pc \in {"skip", "lock", "wait", "unlock"} /\ Finish(a)
     \/ op[a].pc \in {"row", "persist"} /\ a \in Handler /\ Goto(a, "error") /\ UNCHANGED handed
     \/ op[a].pc = "persist" /\ a \in Sweeper /\ Goto(a, "unlock") /\ UNCHANGED handed
     \/ op[a].pc \in {"row", "persist"} /\ a \in Reader /\ Finish(a)
     \/ op[a].pc = "row" /\ a \in Sweeper /\ Finish(a)
     \/ op[a].pc \in {"ledger", "record", "error"} /\ Goto(a, "unlock") /\ UNCHANGED handed
  /\ UNCHANGED <<traccarVars, storeVars, scan, applied, aged>>

\* Mutant: the pool keeps its idle connections open (no pool.idle).
KeepConnection(c) == FALSE /\ UNCHANGED vars

\* The pool closes an idle connection (pool.idle), or it breaks: its session
\* ends, and its holds with it.
CloseConnection(c) ==
  /\ held[c] > 0 /\ Free(c)
  /\ holds' = Lock!Closed(holds, "fuel-api", c)
  /\ UNCHANGED <<traccarVars, mapped, row, ledger, cursor, op, scan, faults, history>>

Crash ==
  /\ Faulty
  /\ holds' = Lock!Gone(holds, "fuel-api")
  /\ op' = [a \in Actor |-> Idle]
  /\ scan' = [on |-> FALSE, todo |-> {}, last |-> 0]
  /\ UNCHANGED <<traccarVars, mapped, row, ledger, cursor, history>>

-----------------------------------------------------------------------------
\* What an actor does once it has begun.
Continue(a) ==
  \/ a \in Handler /\ (RecordSkip(a) \/ CheckLedger(a) \/ Record(a))
  \/ a \in Locker /\ (GetLock(a) \/ \E c \in Conn : TakeLock(a, c) \/ Unlock(a, c))
  \/ ReadRow(a) \/ Persist(a)

Job == Scan \/ SaveCursor \/ \E e \in EventId : HandOver(e)

Next ==
  \/ \E kind \in Kinds : Happen(kind)
  \/ TimePasses \/ Reassign \/ Job \/ ScanThrows \/ Crash
  \/ \E s \in Slot : \E e \in 1..count : Deliver(s, e)
  \/ \E a \in Evaluator : ReadDevice(a)
  \/ \E a \in Actor : Continue(a) \/ Throws(a)
  \/ \E c \in Conn : CloseConnection(c)

Spec == Init /\ [][Next]_vars

\* Statements settle, the pool hands out connections and Postgres grants a lock
\* in the order they were asked for, a quiet pool closes its connections, and
\* the two jobs run again and again.  Nothing is assumed of the webhook, the
\* readers, the device or the clock.
FairSpec ==
  /\ Spec
  /\ \A l \in Locker : SF_vars(Continue(l))
  /\ \A c \in Conn : WF_vars(CloseConnection(c))
  /\ \A w \in Sweeper : WF_vars(ReadDevice(w))
  /\ WF_vars(Job)

-----------------------------------------------------------------------------
TypeOK ==
  /\ now \in Time /\ device \in Telemetry /\ count \in 0..MaxEvents
  /\ ev \in [EventId -> Event] /\ mapped \in BOOLEAN /\ row \in Row
  /\ ledger \in [EventId -> Outcome] /\ cursor \in 0..MaxEvents
  /\ holds \in Lock!Holds
  /\ op \in [Actor -> Op]
  /\ scan \in [on : BOOLEAN, todo : SUBSET EventId, last : 0..MaxEvents]
  /\ posts \in Nat /\ faults \in Nat
  /\ applied \subseteq EventId /\ handed \subseteq 0..MaxEvents /\ aged \subseteq EventId

\* telemetryIngestion.js:26: "processed" in the ledger always means that the
\* state the event led to was persisted, across errors, retries and crashes.
ProcessedMeansPersisted == \A e \in EventId : ledger[e] = "processed" => e \in applied

\* The cursor leaves no event behind that the job has neither put through
\* processTelemetryEvent nor found older than its lookback, wherever a scan
\* was cut short.
CursorBehindScan == \A e \in EventId : e <= cursor => e \in handed \cup aged

\* However many actors wait for the vehicle lock, each blocking a connection,
\* one connection of the pool is left to the actor that holds it.
PoolNeverFull == Connected

\* Once the device says nothing new and nothing fails, the row comes to agree
\* with it and stays so, whatever webhooks were lost, late or repeated.
RowHeals == <>[](mapped => row.state = Activity(device, now))

\* Nobody waits for ever for the vehicle lock, whoever leaked it: a handling of
\* an event and an evaluation of the sweep both come to their end.
AttemptsEnd == \A l \in Locker : op[l].pc # "idle" ~> op[l].pc = "idle"

-----------------------------------------------------------------------------
(* The inductive invariant of the proofs.                                  *)

\* A handling is of an event, and one about to record "processed" persisted it.
HandlingsOwnEvents ==
  \A h \in Handler :
    /\ op[h].pc # "idle" => op[h].event \in EventId
    /\ op[h].pc = "record" => op[h].event \in applied

\* The event the job is handling just now.
InHand == IF op["job"].pc = "idle" THEN {} ELSE {op["job"].event}

\* The loop of the job: what is up to maxId is dealt with, what lies between
\* maxId and a row to come is another row to come, or too old.
ScanInOrder ==
  /\ ~scan.on => op["job"].pc = "idle"
  /\ scan.on =>
       /\ \A e \in EventId : e <= scan.last => e \in handed \cup aged \cup InHand
       /\ \A e \in scan.todo : e > scan.last
       /\ \A e \in scan.todo : \A d \in EventId :
            d > scan.last /\ d < e => d \in scan.todo \cup aged

\* One session holds the lock, a connection that waits for it does not hold it,
\* and no two actors wait on one connection.
SessionsApart ==
  /\ \A c, d \in Conn : held[c] > 0 /\ held[d] > 0 => c = d
  /\ \A a \in Actor : op[a].pc = "wait" => held[op[a].conn] = 0
  /\ \A a, b \in Actor :
       op[a].pc = "wait" /\ op[b].pc = "wait" /\ op[a].conn = op[b].conn => a = b

IInv ==
  /\ TypeOK /\ HandlingsOwnEvents /\ ProcessedMeansPersisted
  /\ ScanInOrder /\ CursorBehindScan
  /\ SessionsApart /\ PoolNeverFull

-----------------------------------------------------------------------------
(* What the documentation says; TelemetryRetryDoc.cfg refutes it.          *)

\* telemetryIngestion.js:94: "a prior attempt that errored" is retried, "this is
\* what lets the hourly reconciliation job actually recover a transition".
ErrorsRetried == \A e \in EventId : ledger[e] = "error" ~> ledger[e] # "error"

=============================================================================
