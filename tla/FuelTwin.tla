------------------------------ MODULE FuelTwin ------------------------------
(***************************************************************************)
(* One vehicle's tank and what the system believes of it: the refuel rows  *)
(* operators record, the intervals and the efficiency learnt from them,    *)
(* and the Digital Fuel Twin that replays the rows from the last reliable  *)
(* full tank.  A recording is one transaction: it updates the refuel row,  *)
(* which locks it, and then learns; but it reads the vehicle's completed   *)
(* refuels outside the transaction, where its own update is not visible.   *)
(* Kilometres and litres are scaled so that the vehicle does one per one.  *)
(***************************************************************************)
EXTENDS Integers, FiniteSets, Sequences

CONSTANTS
  Recorder,    \* concurrent recordings
  Source,      \* where a recording may have its mileage from (Captures)
  Capacity,    \* litres of the tank
  MinDistance, \* MIN_DISTANCE_KM
  Implausible, \* how far from the truth an efficiency is out of the plausible range
  MaxOdo,      \* bound: odometer
  MaxFills,    \* bound: visits to the pump
  MaxStamps    \* bound: writes of a sessionDate

ASSUME ConstantsAssumption ==
  /\ Source \subseteq {"typed", "typed_blind", "live", "none"}
  /\ {Capacity, MinDistance, Implausible, MaxOdo, MaxFills, MaxStamps} \subseteq Nat \ {0}

VARIABLES
  odo,       \* the odometer
  tank,      \* litres in the tank
  pump,      \* what happened at the pump, fill by fill
  rows,      \* operation_session_refuels, as committed
  intervals, \* vehicle_fuel_intervals
  learning,  \* vehicle_fuel_learning: totalObservations, or Absent
  op,        \* the open transactions
  stamps,    \* how many times a sessionDate was written
  orderly    \* history: every recording was in time and in order

world == <<odo, tank, pump>>
store == <<rows, intervals, learning>>
vars  == <<world, store, op, stamps, orderly>>

-----------------------------------------------------------------------------
Fill   == 1..MaxFills
Absent == -1
Unread == 0     \* a mileage that was not captured

\* A visit to the pump: where it was and what went into the tank.
Visit == [odo : 1..MaxOdo, litres : 1..Capacity, full : BOOLEAN]

\* litres 0: the row is planned, and nothing is recorded.  trusted: the
\* confidence of the odometer at capture is high or medium.
Row == [litres : 0..Capacity, mileage : 0..MaxOdo, trusted : BOOLEAN,
        fill : {"FULL", "PARTIAL", "UNKNOWN"}, capturedAt : 0..MaxStamps,
        sessionDate : 0..MaxStamps]
NoRow == [litres |-> 0, mileage |-> Unread, trusted |-> FALSE, fill |-> "UNKNOWN",
          capturedAt |-> 0, sessionDate |-> 0]

Status == {"LEARNABLE", "STORED_ONLY", "REJECTED", "FLAGGED"}

\* km and litres: distanceKm, litresConsumed.
Interval == [refuel : Fill, previous : Fill, km : (-MaxOdo)..MaxOdo, litres : 1..Capacity,
             status : Status, eventAt : 1..MaxStamps]

Op   == [pc : {"idle", "learn", "commit"}, fill : 0..MaxFills, row : Row,
         new : SUBSET Interval, seen : {Absent} \cup Nat]
Idle == [pc |-> "idle", fill |-> 0, row |-> NoRow, new |-> {}, seen |-> Absent]

Init ==
  /\ odo = 1 /\ tank = Capacity /\ pump = <<>>
  /\ rows = [f \in Fill |-> NoRow]
  /\ intervals = {} /\ learning = Absent
  /\ op = [t \in Recorder |-> Idle]
  /\ stamps = 0 /\ orderly = TRUE

Completed == {f \in Fill : rows[f].litres > 0}

-----------------------------------------------------------------------------
(* The road and the pump.                                                  *)

Drive ==
  /\ tank > 0 /\ odo < MaxOdo
  /\ odo' = odo + 1 /\ tank' = tank - 1
  /\ UNCHANGED <<pump, store, op, stamps, orderly>>

FillUp ==
  /\ Len(pump) < MaxFills
  /\ \E litres \in 1..(Capacity - tank) :
       /\ tank' = tank + litres
       /\ pump' = Append(pump, [odo |-> odo, litres |-> litres,
                                full |-> tank + litres = Capacity])
  /\ UNCHANGED <<odo, store, op, stamps, orderly>>

-----------------------------------------------------------------------------
(* completeRefuelRow.                                                      *)

\* What the operator says of a fill: what it was, or nothing.
Classifications(f) == {IF pump[f].full THEN "FULL" ELSE "PARTIAL", "UNKNOWN"}

\* Mutant: rounds the odometer up.
CapturesRounded(f) == {<<pump[f].odo, TRUE>>, <<odo + 1, TRUE>>}

\* captureRefuelOdometer: <<mileage, trusted>>.  The operator enters the mileage
\* of the pump, or the odometer of the moment is taken when it can be read; the
\* confidence is the odometer's in either case ("_blind": it cannot be read).
Captures(f) ==
  LET capture == [typed       |-> <<pump[f].odo, TRUE>>,
                  typed_blind |-> <<pump[f].odo, FALSE>>,
                  live        |-> <<odo, TRUE>>,
                  none        |-> <<Unread, FALSE>>]
  IN {capture[source] : source \in Source}

InTurn(f, mileage) ==
  /\ mileage \in {pump[f].odo, Unread}
  /\ \A g \in Fill : (g < f) = (g \in Completed \ {f})
  /\ \A t \in Recorder : op[t] = Idle

\* The row is locked from its update to the end of the transaction.
Update(t) ==
  /\ op[t] = Idle /\ stamps < MaxStamps
  /\ \E f \in DOMAIN pump :
       /\ \A u \in Recorder : op[u].fill # f
       /\ \E fill \in Classifications(f), capture \in Captures(f) :
            /\ op' = [op EXCEPT ![t] =
                 [Idle EXCEPT !.pc = "learn", !.fill = f,
                    !.row = [litres |-> pump[f].litres, mileage |-> capture[1],
                             trusted |-> capture[2], fill |-> fill,
                             capturedAt |-> stamps + 1, sessionDate |-> stamps + 1]]]
            /\ orderly' = (orderly /\ InTurn(f, capture[1]))
  /\ stamps' = stamps + 1
  /\ UNCHANGED <<world, store>>

\* A later edit of the plan of a row writes its sessionDate, too.
EditPlan ==
  /\ stamps < MaxStamps /\ stamps' = stamps + 1 /\ orderly' = FALSE
  /\ \E f \in Completed :
       /\ \A t \in Recorder : op[t].fill # f
       /\ rows' = [rows EXCEPT ![f].sessionDate = stamps + 1]
  /\ UNCHANGED <<world, intervals, learning, op>>

-----------------------------------------------------------------------------
(* processFuelLearningOnRefuelComplete.                                    *)

\* resolveChronologicalPreviousRefuel among the committed rows: nothing when
\* the refuel is not one of them yet.
Previous(f) ==
  {g \in Completed \ {f} :
     /\ f \in Completed /\ rows[g].sessionDate < rows[f].sessionDate
     /\ \A h \in Completed \ {f} :
          rows[h].sessionDate < rows[f].sessionDate
            => rows[h].sessionDate <= rows[g].sessionDate}

\* Mutant: the previous refuel need not have filled the tank.
ValidatedUngated(previous, current) ==
  LET km == current.mileage - previous.mileage
  IN CASE km <= 0                                         -> "REJECTED"
       [] km > 0 /\ km < MinDistance                      -> "STORED_ONLY"
       [] km >= MinDistance
            /\ (~previous.trusted \/ ~current.trusted \/ current.fill # "FULL")
                                                          -> "STORED_ONLY"
       [] OTHER                                           -> "LEARNABLE"

\* validateInterval.
Validated(previous, current) ==
  LET km == current.mileage - previous.mileage
      trusted == previous.trusted /\ current.trusted
      full == previous.fill = "FULL" /\ current.fill = "FULL"
  IN IF km <= 0 THEN "REJECTED"
     ELSE IF km < MinDistance \/ ~trusted \/ ~full THEN "STORED_ONLY"
     ELSE IF \/ km > Implausible * current.litres \/ current.litres > Implausible * km
             \/ 2 * km > 3 * Capacity
          THEN "FLAGGED"
     ELSE "LEARNABLE"

\* Mutant: learns without looking for an interval of this refuel.
PairAgain(t) ==
  /\ op[t].pc = "learn"
  /\ op' = [op EXCEPT ![t].pc = "commit", ![t].seen = learning,
       ![t].new = {[refuel |-> op[t].fill, previous |-> g,
                    km |-> op[t].row.mileage - rows[g].mileage, litres |-> op[t].row.litres,
                    status |-> Validated(rows[g], op[t].row),
                    eventAt |-> op[t].row.sessionDate] : g \in Previous(op[t].fill)}]
  /\ UNCHANGED <<world, store, stamps, orderly>>

\* A refuel that has an interval learns nothing more.
Pair(t) ==
  /\ op[t].pc = "learn"
  /\ LET f == op[t].fill
         previous == IF \E i \in intervals : i.refuel = f THEN {} ELSE Previous(f)
     IN op' = [op EXCEPT ![t].pc = "commit", ![t].seen = learning,
          ![t].new = {[refuel |-> f, previous |-> g,
                       km |-> op[t].row.mileage - rows[g].mileage,
                       litres |-> op[t].row.litres,
                       status |-> Validated(rows[g], op[t].row),
                       eventAt |-> op[t].row.sessionDate] : g \in previous}]
  /\ UNCHANGED <<world, store, stamps, orderly>>

\* The row of the learning state that is written.
Learnt(seen, new) ==
  LET before == IF seen = Absent THEN 0 ELSE seen
  IN IF \E i \in new : i.status = "LEARNABLE" THEN before + 1 ELSE before

\* Mutant: every interval counts as an observation.
CommitCounting(t) ==
  /\ op[t].pc = "commit"
  /\ rows' = [rows EXCEPT ![op[t].fill] = op[t].row]
  /\ intervals' = intervals \cup op[t].new
  /\ learning' = IF op[t].new = {} THEN learning
                 ELSE (IF op[t].seen = Absent THEN 0 ELSE op[t].seen) + 1
  /\ op' = [op EXCEPT ![t] = Idle]
  /\ UNCHANGED <<world, stamps, orderly>>

\* The learning row is inserted by whoever saw none, and otherwise updated with
\* what was computed from the copy.
Commit(t) ==
  /\ op[t].pc = "commit"
  /\ op[t].new = {} \/ op[t].seen # Absent \/ learning = Absent
  /\ rows' = [rows EXCEPT ![op[t].fill] = op[t].row]
  /\ intervals' = intervals \cup op[t].new
  /\ learning' = IF op[t].new = {} THEN learning ELSE Learnt(op[t].seen, op[t].new)
  /\ op' = [op EXCEPT ![t] = Idle]
  /\ UNCHANGED <<world, stamps, orderly>>

\* Another transaction inserted the row first, or the commit fails: everything
\* of this recording is undone.
Rollback(t) ==
  /\ op[t] # Idle
  /\ op' = [op EXCEPT ![t] = Idle]
  /\ UNCHANGED <<world, store, stamps, orderly>>

-----------------------------------------------------------------------------
(* projectFuelState.                                                       *)

\* isReliableFuelStateAnchor.
Anchors == {f \in Completed : rows[f].fill = "FULL" /\ rows[f].mileage # Unread /\ rows[f].trusted}

Halted == [available |-> FALSE, litres |-> 0, mileage |-> 0, degraded |-> FALSE]

Clamp(litres) == IF litres < 0 THEN 0 ELSE IF litres > Capacity THEN Capacity ELSE litres

\* Mutant: adds what was pumped before taking off what was driven.
AfterEventUnordered(state, r) ==
  LET added == state.litres + (IF r.fill = "PARTIAL" THEN r.litres ELSE Capacity)
      after == Clamp(added) - (r.mileage - state.mileage)
  IN IF ~state.available \/ r.mileage = Unread \/ r.mileage < state.mileage \/ r.fill = "UNKNOWN"
     THEN Halted
     ELSE [available |-> TRUE, litres |-> Clamp(after), mileage |-> r.mileage,
           degraded |-> state.degraded]

\* replayFuelState: one refuel after the anchor.
AfterEvent(state, r) ==
  LET before == state.litres - (r.mileage - state.mileage)
      after  == IF r.fill = "FULL" THEN Capacity ELSE Clamp(before) + r.litres
  IN IF ~state.available \/ r.mileage = Unread \/ r.mileage < state.mileage \/ r.fill = "UNKNOWN"
     THEN Halted
     ELSE [available |-> TRUE, litres |-> Clamp(after), mileage |-> r.mileage,
           degraded |-> state.degraded \/ before < 0 \/ after > Capacity]

\* The rows after the anchor, in the order of their capture
\* (sortRefuelsDeterministically).
Replayed(anchor) ==
  LET upTo[s \in 0..MaxStamps] ==
        IF s <= rows[anchor].capturedAt
        THEN [available |-> TRUE, litres |-> Capacity, mileage |-> rows[anchor].mileage,
              degraded |-> FALSE]
        ELSE IF \E f \in Completed : rows[f].capturedAt = s
        THEN AfterEvent(upTo[s - 1], rows[CHOOSE f \in Completed : rows[f].capturedAt = s])
        ELSE upTo[s - 1]
  IN upTo[stamps]

\* The projection, depleted to the live odometer.
Projection ==
  IF Anchors = {} THEN Halted
  ELSE LET last  == CHOOSE f \in Anchors :
                      \A g \in Anchors : rows[g].capturedAt <= rows[f].capturedAt
           state == Replayed(last)
       IN IF ~state.available \/ odo < state.mileage THEN Halted
          ELSE [state EXCEPT !.litres = Clamp(state.litres - (odo - state.mileage)),
                             !.degraded = state.degraded \/ state.litres < odo - state.mileage]

-----------------------------------------------------------------------------
Next ==
  \/ Drive \/ FillUp \/ EditPlan
  \/ \E t \in Recorder : Update(t) \/ Pair(t) \/ Commit(t) \/ Rollback(t)

Spec == Init /\ [][Next]_vars

-----------------------------------------------------------------------------
\* Types of the world, the tables and the open transactions.
TypeOK ==
  /\ odo \in 1..MaxOdo /\ tank \in 0..Capacity
  /\ pump \in Seq(Visit) /\ Len(pump) <= MaxFills
  /\ rows \in [Fill -> Row] /\ intervals \subseteq Interval
  /\ learning \in {Absent} \cup Nat
  /\ op \in [Recorder -> Op]
  /\ stamps \in 0..MaxStamps /\ orderly \in BOOLEAN

\* A refuel is learnt from at most once, however often and however concurrently
\* it is recorded.  No index says so: it is the lock of the refuel row, taken
\* before the look at the intervals and kept until the commit.
OneIntervalPerRefuel ==
  \A i, j \in intervals : i.refuel = j.refuel => i = j

\* The learning state never counts an observation that is not one of the
\* learnable intervals; it may miss some, two recordings can read one copy.
ObservationsBacked ==
  learning # Absent => learning <= Cardinality({i \in intervals : i.status = "LEARNABLE"})

\* Recorded in time and in order, a learnable interval is one from full tank to
\* full tank: its litres are what the vehicle burnt over its kilometres.
LearnableIsTankToTank ==
  orderly => \A i \in intervals : i.status = "LEARNABLE" => i.km = i.litres

\* Recorded in time and in order, the twin either does not answer or shows the
\* litres that are in the tank, and never calls its answer degraded.
TwinIsTheTank ==
  (orderly /\ \A f \in DOMAIN pump : f \in Completed) =>
    ~Projection.available \/ (Projection.litres = tank /\ ~Projection.degraded)

\* fuelLearningService.js:94, "Process fuel learning when a refuel is
\* completed": a completed refuel after another one has its interval.
CompletionLearns ==
  orderly => \A f \in Completed : Previous(f) # {} => \E i \in intervals : i.refuel = f
=============================================================================
