------------------------------ MODULE FuelingDay ------------------------------
(***************************************************************************)
(* One Fueling Day of fuel-api (operationDayService, operationSession-     *)
(* Service, operationApprovalService, operationRefuelRecordService,        *)
(* operationForecastService, operationLockHelper, operationUnlockService   *)
(* and the auto-close sweep): its status, its refuel rows and the totals   *)
(* kept on it, under requests whose handlers interleave at every await.    *)
(*                                                                         *)
(* A handler loads the session, may persist a lapsed lock, checks what it  *)
(* loaded, and only then writes.  Postgres runs READ COMMITTED: a          *)
(* transaction's row updates stay in its process (patch, added) until it   *)
(* commits and keep others from updating these rows; its reads see what    *)
(* others have committed and its own writes.  A transaction that inserts   *)
(* a row or an audit event holds a key-share lock of the session, which    *)
(* a SELECT .. FOR UPDATE of it has to wait for.                           *)
(*                                                                         *)
(* Costs, whose totals are kept like those of litres, are left out, and so *)
(* are lockedAt, totalsFrozenAt, arrivedAt, refuel.locked and the audit    *)
(* events, which these handlers write and never read.  The access checks   *)
(* are taken as passed.                                                    *)
(***************************************************************************)
EXTENDS Integers, Sequences, FiniteSetsExt

CONSTANTS
    Requests,     \* the requests in progress at a time
    Sweeps,       \* the auto-close sweeps, one for each replica of fuel-api
    Vehicles,     \* the vehicles an operator may plan
    Fleet,        \* those of them with an active device, which seeding plans
    Litres,       \* the amounts of fuel a request may name
    MaxRows,      \* bound: refuel rows of the day
    MaxRequests,  \* bound: requests begun
    MaxUnlocks,   \* bound: supervisor unlocks granted
    MaxFaults     \* bound: requests that die between two statements

ASSUME ConstantsAssumption ==
    /\ Requests \cap Sweeps = {}
    /\ Fleet \subseteq Vehicles /\ IsFiniteSet(Fleet)
    /\ Litres \subseteq Nat \ {0}
    /\ MaxRows \in Nat
    /\ MaxRequests \in Nat
    /\ MaxUnlocks \in Nat
    /\ MaxFaults \in Nat

VARIABLES
    day,        \* the operation_sessions row
    rows,       \* its operation_session_refuels rows, by id
    past,       \* whether the lock time has passed
    unlock,     \* whether an unlock is active, and how many may still be granted
    op,         \* each process's request: its step and what it holds
    left,       \* the requests and faults still to come
    disturbed   \* history: the totals may be off, see TotalsAgree

vars == <<day, rows, past, unlock, op, left, disturbed>>

Processes == Requests \cup Sweeps

Status == {"draft", "approved", "locked"}

\* The requests that change the day or its rows.
RefuelKinds == {"record", "fuel", "replan", "adjust"}
RowKinds == RefuelKinds \cup {"skip", "unskip"}
Kinds == RowKinds \cup {"seed", "regenerate", "approve", "close", "sweep"}

Steps == {"idle", "gate", "lock", "insert", "read", "mark", "write",
          "approve", "sum", "total", "store"}

Row == [vehicle : Vehicles, planned : Litres, actual : Litres \cup {0},
        skipped : BOOLEAN]

-----------------------------------------------------------------------------
(***************************************************************************)
(* What the totals and the budget are computed from.                       *)
(***************************************************************************)

\* A skipped vehicle does not count towards the estimate, but fuel it got does.
Totals(rs) ==
    [estimated |-> SumFunction([i \in DOMAIN rs |->
                                  IF rs[i].skipped THEN 0 ELSE rs[i].planned]),
     actual    |-> SumFunction([i \in DOMAIN rs |-> rs[i].actual])]

\* The approved litres count skipped rows too.
PlannedLitres(rs) == SumFunction([i \in DOMAIN rs |-> rs[i].planned])

Columns == {"estimated", "actual"}

NoTotals == [c \in Columns |-> 0]

PlannedRow(v, l) == [vehicle |-> v, planned |-> l, actual |-> 0, skipped |-> FALSE]

Idle == [kind |-> "sweep", at |-> "idle", id |-> 0,
         copy |-> [status |-> "draft", approvedAt |-> FALSE],
         patch |-> <<>>, added |-> <<>>, totals |-> NoTotals]

Init ==
    /\ day = [status |-> "draft", approvedAt |-> FALSE, approvedLitres |-> 0,
              variance |-> FALSE, totals |-> NoTotals]
    /\ rows = <<>>
    /\ past = FALSE
    /\ unlock = [active |-> FALSE, left |-> MaxUnlocks]
    /\ op = [p \in Processes |-> Idle]
    /\ left = [requests |-> MaxRequests, faults |-> MaxFaults]
    /\ disturbed = FALSE

-----------------------------------------------------------------------------
(***************************************************************************)
(* The lock rules, on a copy c of the session that a request has loaded;   *)
(* the unlock and the clock are read afresh.                               *)
(***************************************************************************)

\* Mutant: looks at the clock only, and a day closed early stays writable.
WritableByClock(c) == unlock.active \/ ~past

Writable(c) == unlock.active \/ (c.status # "locked" /\ ~past)

\* Mutant: takes every day that is open under an unlock for an approved one.
EffectiveStatusUnlocked(c) ==
    IF ~Writable(c) THEN "locked"
    ELSE IF c.status = "locked" THEN "approved"
    ELSE c.status

\* A locked day under an active unlock shows the status it had before.
EffectiveStatus(c) ==
    IF ~Writable(c) THEN "locked"
    ELSE IF c.status = "locked" THEN (IF c.approvedAt THEN "approved" ELSE "draft")
    ELSE c.status

\* Mutant: takes it that only approved days have anything to lock.
LapsedApproved(c) == c.status = "approved" /\ EffectiveStatus(c) = "locked"

\* maybePersistLock has something to persist.
Lapsed(c) == c.status # "locked" /\ EffectiveStatus(c) = "locked"

CanRecordFuel(c) == EffectiveStatus(c) = "approved"

-----------------------------------------------------------------------------
(***************************************************************************)
(* Locks and views of the database.                                        *)
(***************************************************************************)

\* The committed rows as process p sees them: with its own uncommitted writes.
Seen(p) ==
    [i \in DOMAIN rows |->
        IF i \in DOMAIN op[p].patch THEN op[p].patch[i] ELSE rows[i]] \o op[p].added

RowFree(i) == \A q \in Processes : i \notin DOMAIN op[q].patch

\* Open transactions that have inserted a row referencing the session.
HoldsKeyShare(q) ==
    /\ op[q].kind \in {"record", "fuel", "seed"}
    /\ op[q].at \in {"sum", "total", "store"}

SessionFree == \A q \in Processes : ~HoldsKeyShare(q)

\* Someone other than the processes ps has summed the rows and not yet stored the
\* sum; has, at that, already compared it with the totals of the day.
SumHeldBeside(ps) == \E q \in Processes \ ps : op[q].at \in {"total", "store"}

ComparedBeside(ps) == \E q \in Processes \ ps : op[q].at = "store"

Finish(p) == op' = [op EXCEPT ![p] = Idle]

Goto(p, s) == op' = [op EXCEPT ![p] = [@ EXCEPT !.at = s]]

-----------------------------------------------------------------------------
(***************************************************************************)
(* The part every handler begins with.                                     *)
(***************************************************************************)

\* findSessionById: the request goes on with a copy of the session.
Begin(p, k, i) ==
    /\ op[p].at = "idle"
    /\ op' = [op EXCEPT ![p] =
                [Idle EXCEPT !.kind = k, !.at = "gate", !.id = i,
                             !.copy = [status |-> day.status,
                                       approvedAt |-> day.approvedAt]]]
    /\ UNCHANGED <<day, rows, past, unlock, disturbed>>

BeginRequest(p) ==
    /\ p \in Requests
    /\ left.requests > 0
    /\ left' = [left EXCEPT !.requests = @ - 1]
    /\ \/ \E k \in {"seed", "regenerate", "approve", "close"} : Begin(p, k, 0)
       \/ \E k \in RowKinds, i \in DOMAIN rows : Begin(p, k, i)

\* The sweep loads the days that are not locked.
BeginSweep(p) ==
    /\ p \in Sweeps
    /\ day.status # "locked"
    /\ Begin(p, "sweep", 0)
    /\ UNCHANGED left

\* maybePersistLock reads unlock and clock and finds the copy lapsed.  A close
\* does not call it.
Decide(p) ==
    /\ op[p].at = "gate"
    /\ op[p].kind # "close"
    /\ Lapsed(op[p].copy)
    /\ Goto(p, "lock")
    /\ UNCHANGED <<day, rows, past, unlock, left, disturbed>>

\* Mutant: still writes the status this state had in an earlier schema.
PersistLockClosed(p) ==
    /\ op[p].at = "lock"
    /\ day' = [day EXCEPT !.status = "closed"]
    /\ op' = [op EXCEPT ![p] =
                [@ EXCEPT !.at = "gate", !.copy = [op[p].copy EXCEPT !.status = "locked"]]]
    /\ UNCHANGED <<rows, past, unlock, left, disturbed>>

\* ... and locks the row, whatever it has become since it was loaded.
PersistLock(p) ==
    /\ op[p].at = "lock"
    /\ day' = [day EXCEPT !.status = "locked"]
    /\ op' = [op EXCEPT ![p] =
                [@ EXCEPT !.at = "gate", !.copy = [op[p].copy EXCEPT !.status = "locked"]]]
    /\ UNCHANGED <<rows, past, unlock, left, disturbed>>

\* The copy needs no lock (any more), and the handler goes on to its checks.
AtChecks(p, k) ==
    /\ op[p].at = "gate"
    /\ op[p].kind = k
    /\ ~Lapsed(op[p].copy)

\* Each handler's own checks, on the copy.
Passes(p) ==
    LET c == op[p].copy IN
    \/ op[p].kind \in {"record", "skip"} /\ CanRecordFuel(c)
    \/ op[p].kind = "unskip" /\ Writable(c)
    \/ op[p].kind \in {"fuel", "replan"} /\ c.status # "locked" /\ Writable(c)
    \/ op[p].kind \in {"approve", "regenerate"} /\ Writable(c) /\ c.status = "draft"
    \/ op[p].kind = "seed" /\ Writable(c) /\ c.status = "draft" /\ rows = <<>>
    \/ op[p].kind = "adjust" /\ EffectiveStatus(c) = "locked"

\* The first step after the checks.
FirstStep(k) ==
    CASE k \in {"skip", "unskip"} -> "read"
      [] k = "approve"            -> "approve"
      [] k = "seed"               -> "insert"
      [] OTHER                    -> "write"

Admit(p) ==
    /\ AtChecks(p, op[p].kind)
    /\ Passes(p)
    /\ Goto(p, FirstStep(op[p].kind))
    /\ UNCHANGED <<day, rows, past, unlock, left, disturbed>>

\* 400, 403, or a sweep or a seeding with nothing to do.
Refuse(p) ==
    /\ AtChecks(p, op[p].kind)
    /\ op[p].kind # "close"
    /\ ~Passes(p)
    /\ Finish(p)
    /\ UNCHANGED <<day, rows, past, unlock, left, disturbed>>

-----------------------------------------------------------------------------
(***************************************************************************)
(* The day.                                                                *)
(***************************************************************************)

\* planOperationVehicles, one transaction under FOR UPDATE: it adds vehicles
\* the day does not have.  It plans today, which is not past its lock time.
Plan(v, l) ==
    /\ ~past
    /\ day.status # "locked"
    /\ SessionFree
    /\ Len(rows) < MaxRows
    /\ \A i \in DOMAIN rows : rows[i].vehicle # v
    /\ rows' = Append(rows, PlannedRow(v, l))
    /\ day' = [day EXCEPT !.totals = Totals(rows'),
                          !.variance = @ \/ day.status = "approved"]
    /\ disturbed' = (disturbed \/ SumHeldBeside({}))
    /\ UNCHANGED <<past, unlock, op, left>>

\* ensureAssignedVehiclesSeededForDraft inserts a row for every vehicle of the fleet.
Seed(p) ==
    /\ op[p].at = "insert"
    /\ Len(rows) + Cardinality(Fleet) <= MaxRows
    /\ \E l \in Litres, order \in [1 .. Cardinality(Fleet) -> Fleet] :
        /\ \A v \in Fleet : \E i \in DOMAIN order : order[i] = v
        /\ op' = [op EXCEPT ![p] =
                [@ EXCEPT !.at = "sum",
                          !.added = [i \in DOMAIN order |-> PlannedRow(order[i], l)]]]
    /\ UNCHANGED <<day, rows, past, unlock, left, disturbed>>

\* Mutant: relies on the check made before the transaction.
ApproveUnchecked(p) ==
    /\ op[p].at = "approve"
    /\ SessionFree
    /\ IF PlannedLitres(rows) > 0
       THEN day' = [day EXCEPT !.status = "approved", !.approvedAt = TRUE,
                               !.approvedLitres = PlannedLitres(rows),
                               !.totals = Totals(rows)]
       ELSE UNCHANGED day
    /\ disturbed' = (disturbed \/ (day'.totals # day.totals /\ ComparedBeside({p})))
    /\ Finish(p)
    /\ UNCHANGED <<rows, past, unlock, left>>

\* approveOperation's transaction reads the session again FOR UPDATE.
Approve(p) ==
    /\ op[p].at = "approve"
    /\ SessionFree
    /\ IF day.status = "draft" /\ PlannedLitres(rows) > 0
       THEN day' = [day EXCEPT !.status = "approved", !.approvedAt = TRUE,
                               !.approvedLitres = PlannedLitres(rows),
                               !.totals = Totals(rows)]
       ELSE UNCHANGED day
    /\ disturbed' = (disturbed \/ (day'.totals # day.totals /\ ComparedBeside({p})))
    /\ Finish(p)
    /\ UNCHANGED <<rows, past, unlock, left>>

\* closeOperationSession, on an approved copy, writes blindly.
Close(p) ==
    /\ op[p].at = "gate"
    /\ op[p].kind = "close"
    /\ day' = [day EXCEPT !.status = IF op[p].copy.status = "approved" THEN "locked" ELSE @]
    /\ Finish(p)
    /\ UNCHANGED <<rows, past, unlock, left, disturbed>>

\* unlockOperation, whatever the status.
Unlock ==
    /\ unlock.left > 0
    /\ unlock' = [active |-> TRUE, left |-> unlock.left - 1]
    /\ UNCHANGED <<day, rows, past, op, left, disturbed>>

UnlockExpires ==
    /\ unlock.active
    /\ unlock' = [unlock EXCEPT !.active = FALSE]
    /\ UNCHANGED <<day, rows, past, op, left, disturbed>>

\* Midnight and the grace period have passed.
DayLapses ==
    /\ ~past
    /\ past' = TRUE
    /\ UNCHANGED <<day, rows, unlock, op, left, disturbed>>

-----------------------------------------------------------------------------
(***************************************************************************)
(* The refuel rows.                                                        *)
(***************************************************************************)

\* The row update of a transaction: fuel recorded (completeRefuelRow, by either
\* endpoint), a row replanned, or an actual corrected (down to zero).
Rewritten(k, row, l) ==
    IF k = "replan" THEN [row EXCEPT !.planned = l] ELSE [row EXCEPT !.actual = l]

WriteRow(p) ==
    /\ op[p].at = "write"
    /\ op[p].kind \in RefuelKinds
    /\ RowFree(op[p].id)
    /\ \E l \in Litres \cup (IF op[p].kind = "adjust" THEN {0} ELSE {}) :
        op' = [op EXCEPT ![p] =
            [@ EXCEPT !.at = "sum",
                      !.patch = [i \in {op[p].id} |-> Rewritten(op[p].kind, rows[i], l)]]]
    /\ UNCHANGED <<day, rows, past, unlock, left, disturbed>>

\* regenerateOperationForecast replans every row from new predictions.
Regenerate(p) ==
    /\ op[p].at = "write"
    /\ op[p].kind = "regenerate"
    /\ \A i \in DOMAIN rows : RowFree(i)
    /\ \E plan \in [DOMAIN rows -> Litres] :
        op' = [op EXCEPT ![p] =
            [@ EXCEPT !.at = "sum",
                      !.patch = [i \in DOMAIN rows |-> [rows[i] EXCEPT !.planned = plan[i]]]]]
    /\ UNCHANGED <<day, rows, past, unlock, left, disturbed>>

\* skipRefuel and unskipRefuel, outside any transaction, look at the row first.
SkipAllowed(row) == ~row.skipped /\ row.actual = 0

UnskipAllowed(row) == row.skipped

ReadRow(p) ==
    /\ op[p].at = "read"
    /\ IF \/ op[p].kind = "skip" /\ SkipAllowed(rows[op[p].id])
          \/ op[p].kind = "unskip" /\ UnskipAllowed(rows[op[p].id])
       THEN Goto(p, "mark")
       ELSE Finish(p)
    /\ UNCHANGED <<day, rows, past, unlock, left, disturbed>>

\* Mutant: leaves the totals as they were.
MarkRowOnly(p) ==
    /\ op[p].at = "mark"
    /\ RowFree(op[p].id)
    /\ rows' = [rows EXCEPT ![op[p].id].skipped = (op[p].kind = "skip")]
    /\ disturbed' = (disturbed \/ SumHeldBeside({p}))
    /\ Finish(p)
    /\ UNCHANGED <<day, past, unlock, left>>

\* ... and then write it, once no transaction holds it.
MarkRow(p) ==
    /\ op[p].at = "mark"
    /\ RowFree(op[p].id)
    /\ rows' = [rows EXCEPT ![op[p].id].skipped = (op[p].kind = "skip")]
    /\ disturbed' = (disturbed \/ SumHeldBeside({p}))
    /\ Goto(p, "sum")
    /\ UNCHANGED <<day, past, unlock, left>>

\* refreshSessionTotals lists and adds up the rows ...
SumRows(p) ==
    /\ op[p].at = "sum"
    /\ op' = [op EXCEPT ![p] = [@ EXCEPT !.at = "total", !.totals = Totals(Seen(p))]]
    /\ UNCHANGED <<day, rows, past, unlock, left, disturbed>>

\* ... loads the session, and keeps the sums that differ from what it has: an
\* ORM instance saves the columns that have changed ...
CompareTotals(p) ==
    /\ op[p].at = "total"
    /\ LET changed == {c \in Columns : op[p].totals[c] # day.totals[c]} IN
       op' = [op EXCEPT ![p] = [@ EXCEPT !.at = "store",
                                         !.totals = [c \in changed |-> op[p].totals[c]]]]
    /\ UNCHANGED <<day, rows, past, unlock, left, disturbed>>

\* ... and stores these; a transaction then commits.
StoreTotals(p) ==
    /\ op[p].at = "store"
    /\ rows' = Seen(p)
    /\ day' = [day EXCEPT !.totals =
                  [c \in Columns |-> IF c \in DOMAIN op[p].totals
                                     THEN op[p].totals[c] ELSE @[c]]]
    /\ disturbed' = (\/ disturbed
                     \/ rows' # rows /\ SumHeldBeside({p})
                     \/ day'.totals # day.totals /\ ComparedBeside({p}))
    /\ Finish(p)
    /\ UNCHANGED <<past, unlock, left>>

\* A request dies: a transaction rolls back, a skip leaves its totals stale.
Fail(p) ==
    /\ left.faults > 0
    /\ op[p].at # "idle"
    /\ left' = [left EXCEPT !.faults = @ - 1]
    /\ disturbed' = (disturbed \/ (/\ op[p].kind \in {"skip", "unskip"}
                                   /\ op[p].at \in {"sum", "total", "store"}))
    /\ Finish(p)
    /\ UNCHANGED <<day, rows, past, unlock>>

-----------------------------------------------------------------------------
Step(p) ==
    \/ Decide(p) \/ PersistLock(p) \/ Admit(p) \/ Refuse(p)
    \/ Seed(p) \/ Approve(p) \/ Close(p)
    \/ WriteRow(p) \/ Regenerate(p) \/ ReadRow(p) \/ MarkRow(p)
    \/ SumRows(p) \/ CompareTotals(p) \/ StoreTotals(p)

Next ==
    \/ \E p \in Processes : BeginRequest(p) \/ BeginSweep(p)
    \/ \E p \in Processes : Step(p) \/ Fail(p)
    \/ \E v \in Vehicles, l \in Litres : Plan(v, l)
    \/ Unlock \/ UnlockExpires \/ DayLapses

Spec == Init /\ [][Next]_vars

\* The sweep is an interval job: it runs again and again, and an unlock ends.
FairSpec ==
    /\ Spec
    /\ \A p \in Sweeps : WF_vars(BeginSweep(p)) /\ WF_vars(Step(p))
    /\ WF_vars(UnlockExpires)
-----------------------------------------------------------------------------
(***************************************************************************)
(* Properties.                                                             *)
(***************************************************************************)

TypeOK ==
    /\ day \in [status : Status, approvedAt : BOOLEAN, approvedLitres : Nat,
                variance : BOOLEAN, totals : [estimated : Nat, actual : Nat]]
    /\ rows \in Seq(Row)
    /\ past \in BOOLEAN
    /\ unlock \in [active : BOOLEAN, left : Nat]
    /\ left \in [requests : Nat, faults : Nat]
    /\ disturbed \in BOOLEAN
    /\ DOMAIN op = Processes
    /\ \A p \in Processes :
        /\ op[p].kind \in Kinds
        /\ op[p].at \in Steps
        /\ op[p].id \in DOMAIN rows \cup {0}
        /\ op[p].copy \in [status : Status, approvedAt : BOOLEAN]
        /\ DOMAIN op[p].patch \subseteq DOMAIN rows
        /\ \A i \in DOMAIN op[p].patch : op[p].patch[i] \in Row
        /\ op[p].added \in Seq(Row)
        /\ DOMAIN op[p].totals \subseteq Columns
        /\ \A c \in DOMAIN op[p].totals : op[p].totals[c] \in Nat

\* The totals of the day are those of its rows whenever no request is between
\* its row writes and its totals, unless rows changed under a request that had
\* already summed them, totals under one that had already compared its sum with
\* them, or a skip died before it refreshed them: with every other
\* interleaving of recording, skipping, correcting, planning and approving, the
\* totals that invoices are reconciled against come out right.
TotalsAgree ==
    (~disturbed /\ \A p \in Processes : op[p].at \notin {"sum", "total", "store"})
        => day.totals = Totals(rows)

\* A day goes draft, approved, locked and never back, and its approval and the
\* litres approved never change, whatever requests still hold an older copy:
\* an approval that passed its check on a draft cannot reopen a day that was
\* approved or locked in the meantime.
DayMovesForward ==
    [][/\ day.status = "locked" => day'.status = "locked"
       /\ day'.status = "draft" => day.status = "draft"
       /\ day.approvedAt => /\ day'.approvedAt
                            /\ day'.approvedLitres = day.approvedLitres]_vars

\* A refuel is being recorded through POST /refuel only on a day that a manager
\* has approved, also when the day was locked and is open under an unlock; and
\* a correction is being written only on a day that is locked for good.
WritesFitTheDay ==
    \A p \in Processes :
        op[p].at \in {"write", "sum", "total", "store"} =>
            /\ op[p].kind = "record" => day.approvedAt
            /\ op[p].kind = "adjust" => day.status = "locked"

\* While no unlock has been granted, the rows of a locked day are changed by
\* nothing but corrections and the requests that had loaded the day before it
\* was locked.
LockedDayFrozen ==
    [][(/\ day.status = "locked"
        /\ unlock.left = MaxUnlocks
        /\ rows' # rows)
       => \E p \in Processes :
            /\ op'[p].at # op[p].at
            /\ \/ op[p].kind = "adjust"
               \/ op[p].copy.status # "locked"]_vars

\* A day past its lock time is locked in the database in the end, although
\* nobody asks for it and unlocks may hold it open for a while: the sweep does.
LapsedDaysLock == past ~> day.status = "locked"

\* The records have their fields.
Shape ==
    /\ DOMAIN day = {"status", "approvedAt", "approvedLitres", "variance", "totals"}
    /\ DOMAIN unlock = {"active", "left"}
    /\ unlock.left \in 0 .. MaxUnlocks
    /\ DOMAIN op = Processes
    /\ \A p \in Processes :
        /\ DOMAIN op[p] = {"kind", "at", "id", "copy", "patch", "added", "totals"}
        /\ DOMAIN op[p].copy = {"status", "approvedAt"}

\* A status and the approval beside it.
Consistent(d) ==
    /\ d.status \in Status
    /\ d.approvedAt \in BOOLEAN
    /\ d.status = "draft" => ~d.approvedAt
    /\ d.status = "approved" => d.approvedAt

\* What a loaded copy says of the day may be old, but is never ahead of it.
CopiesBehind ==
    \A p \in Processes :
        /\ Consistent(op[p].copy)
        /\ op[p].copy.approvedAt => day.approvedAt
        /\ op[p].copy.status = "locked" => day.status = "locked"

\* What a request past its checks can rely on, in terms of its copy.
Admitted(p) ==
    /\ op[p].kind = "record" => op[p].copy.approvedAt
    /\ op[p].kind = "adjust" => op[p].copy.status = "locked"
    /\ (op[p].copy.status = "locked" /\ op[p].kind # "adjust") => unlock.left < MaxUnlocks

Admissions ==
    \A p \in Processes : op[p].at \notin {"idle", "gate", "lock"} => Admitted(p)

\* The inductive invariant of the proofs: the properties about what a day allows
\* hold because copies lag behind the day in one direction only.
IInv ==
    /\ Shape
    /\ Consistent(day)
    /\ CopiesBehind
    /\ unlock.active => unlock.left < MaxUnlocks
    /\ Admissions

\* What OPERATION_SESSIONS_API.md says of skip: "rejected if already fueled".
SkippedUnfueled ==
    [][\A i \in DOMAIN rows :
        (~rows[i].skipped /\ rows'[i].skipped) => rows[i].actual = 0]_vars

=============================================================================
