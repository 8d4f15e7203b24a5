---------------------------- MODULE FuelingDayProofs ----------------------------
(***************************************************************************)
(* A Fueling Day only moves forward, is written only by requests that fit  *)
(* its status, and undisturbed its totals are those of its rows, for any   *)
(* number of requests, sweeps, vehicles and rows.  Sums over sets of rows  *)
(* are dealt with by the least set on which a claim about them would fail. *)
(***************************************************************************)
EXTENDS FuelingDay, FiniteSetTheorems, SequenceTheorems, WellFoundedInduction, TLAPS

Fields == {"kind", "at", "id", "copy", "patch", "added", "totals"}

\* What IInv asks of the state r of one request, given the day and the unlocks.
Sound(r, d, u) ==
    /\ DOMAIN r = Fields
    /\ DOMAIN r.copy = {"status", "approvedAt"}
    /\ Consistent(r.copy)
    /\ r.copy.approvedAt => d.approvedAt
    /\ r.copy.status = "locked" => d.status = "locked"
    /\ r.at \notin {"idle", "gate", "lock"} =>
        /\ r.kind = "record" => r.copy.approvedAt
        /\ r.kind = "adjust" => r.copy.status = "locked"
        /\ (r.copy.status = "locked" /\ r.kind # "adjust") => u.left < MaxUnlocks

\* A change of the day that keeps it consistent and takes nothing back.
Forward(d, e) ==
    /\ DOMAIN e = DOMAIN d
    /\ Consistent(e)
    /\ d.status = "locked" => e.status = "locked"
    /\ d.approvedAt => e.approvedAt

\* IInv, request by request.
LEMMA IInvByRequest ==
    IInv <=> /\ DOMAIN day = {"status", "approvedAt", "approvedLitres", "variance", "totals"}
             /\ DOMAIN unlock = {"active", "left"}
             /\ unlock.left \in 0 .. MaxUnlocks
             /\ unlock.active => unlock.left < MaxUnlocks
             /\ Consistent(day)
             /\ DOMAIN op = Processes
             /\ \A p \in Processes : Sound(op[p], day, unlock)
BY DEF IInv, Shape, CopiesBehind, Admissions, Admitted, Sound, Fields

\* A step of one request, which may take the day forward, preserves the invariant.
LEMMA OneRequestMoves ==
    ASSUME IInv, NEW p \in Processes, NEW r,
           op' = [op EXCEPT ![p] = r], Sound(r, day', unlock),
           Forward(day, day'), unlock' = unlock
    PROVE  IInv'
<1>1. ASSUME NEW q \in Processes PROVE Sound(op[q], day', unlock)
    BY IInvByRequest DEF Sound, Forward
<1>2. DOMAIN op' = Processes
    BY IInvByRequest
<1>3. ASSUME NEW q \in Processes PROVE Sound(op'[q], day', unlock')
    BY <1>1, IInvByRequest
<1>4. /\ DOMAIN day' = {"status", "approvedAt", "approvedLitres", "variance", "totals"}
      /\ DOMAIN unlock' = {"active", "left"}
      /\ unlock'.left \in 0 .. MaxUnlocks
      /\ unlock'.active => unlock'.left < MaxUnlocks
      /\ Consistent(day')
    BY IInvByRequest DEF Forward
<1>. QED
    BY <1>2, <1>3, <1>4 DEF IInv, Shape, CopiesBehind, Admissions, Admitted, Sound, Fields

LEMMA StaysForward == ASSUME IInv PROVE Forward(day, day)
BY DEF IInv, Forward

LEMMA IdleSound == ASSUME NEW d, NEW u PROVE Sound(Idle, d, u)
BY DEF Sound, Idle, Fields, Consistent, Status

LEMMA InitInv == Init => IInv
<1>. SUFFICES ASSUME Init PROVE IInv
    OBVIOUS
<1>1. \A p \in Processes : Sound(op[p], day, unlock)
    BY IdleSound DEF Init
<1>2. /\ DOMAIN day = {"status", "approvedAt", "approvedLitres", "variance", "totals"}
      /\ DOMAIN unlock = {"active", "left"}
      /\ DOMAIN op = Processes
    BY DEF Init
<1>3. unlock.left \in 0 .. MaxUnlocks /\ ~unlock.active
    BY ConstantsAssumption DEF Init
<1>4. Consistent(day)
    BY DEF Init, Consistent, Status
<1>. QED
    BY <1>1, <1>2, <1>3, <1>4, IInvByRequest

\* A request that only goes on to another place, keeping what it has loaded.
LEMMA GoesOn ==
    ASSUME IInv, NEW p \in Processes, NEW r,
           op' = [op EXCEPT ![p] = r],
           DOMAIN r = Fields, r.kind = op[p].kind, r.copy = op[p].copy,
           r.at \in {"idle", "gate", "lock"} \/ op[p].at \notin {"idle", "gate", "lock"},
           Forward(day, day'), unlock' = unlock
    PROVE  IInv'
<1>1. Sound(op[p], day, unlock)
    BY IInvByRequest
<1>2. Sound(r, day', unlock)
    BY <1>1 DEF Sound, Forward
<1>. QED
    BY <1>2, OneRequestMoves

LEMMA Finishes ==
    ASSUME IInv, NEW p \in Processes, Finish(p), Forward(day, day'), unlock' = unlock
    PROVE  IInv'
BY IdleSound, OneRequestMoves DEF Finish

\* Past its checks a request has what Admitted says.
LEMMA AdmitInv == ASSUME IInv, NEW p \in Processes, Admit(p) PROVE IInv'
<1>. DEFINE r == [op[p] EXCEPT !.at = FirstStep(op[p].kind)]
<1>1. Sound(op[p], day, unlock)
    BY IInvByRequest
<1>2. DOMAIN r = Fields /\ r.kind = op[p].kind /\ r.copy = op[p].copy
    BY <1>1 DEF Sound, Fields
<1>3. ~Lapsed(op[p].copy) /\ Passes(p)
    BY DEF Admit, AtChecks
<1>4. op[p].kind = "record" => op[p].copy.approvedAt
    BY <1>1, <1>3 DEF Passes, CanRecordFuel, EffectiveStatus, Sound, Consistent
<1>5. op[p].kind = "adjust" => op[p].copy.status = "locked"
    BY <1>1, <1>3 DEF Passes, Lapsed
<1>6. (op[p].copy.status = "locked" /\ op[p].kind # "adjust") => unlock.left < MaxUnlocks
    <2>. SUFFICES ASSUME op[p].copy.status = "locked", op[p].kind # "adjust"
                  PROVE  unlock.left < MaxUnlocks
        OBVIOUS
    <2>1. CanRecordFuel(op[p].copy) \/ Writable(op[p].copy)
        BY <1>3 DEF Passes
    <2>2. unlock.active
        BY <2>1 DEF CanRecordFuel, EffectiveStatus, Writable
    <2>. QED
        BY <2>2, IInvByRequest
<1>7. Sound(r, day, unlock)
    BY <1>1, <1>2, <1>4, <1>5, <1>6 DEF Sound
<1>8. op' = [op EXCEPT ![p] = r] /\ day' = day /\ unlock' = unlock
    BY DEF Admit, Goto
<1>. HIDE DEF r
<1>. QED
    BY <1>7, <1>8, OneRequestMoves, StaysForward

\* One step for each action.
LEMMA NextInv == IInv /\ [Next]_vars => IInv'
<1>. SUFFICES ASSUME IInv, [Next]_vars PROVE IInv'
    OBVIOUS
<1>. USE StaysForward
<1>1. ASSUME NEW p \in Processes, NEW k \in Kinds, NEW i, Begin(p, k, i) PROVE IInv'
    <2>. DEFINE r == [Idle EXCEPT !.kind = k, !.at = "gate", !.id = i,
                                 !.copy = [status |-> day.status,
                                           approvedAt |-> day.approvedAt]]
    <2>1. op' = [op EXCEPT ![p] = r] /\ day' = day /\ unlock' = unlock
        BY <1>1 DEF Begin
    <2>2. Sound(r, day, unlock)
        BY DEF IInv, Sound, Fields, Idle, Consistent
    <2>. HIDE DEF r
    <2>. QED
        BY <2>1, <2>2, OneRequestMoves
<1>2. ASSUME NEW p \in Processes, BeginRequest(p) \/ BeginSweep(p) PROVE IInv'
    BY <1>1, <1>2 DEF BeginRequest, BeginSweep, Kinds
<1>3. ASSUME NEW p \in Processes, Decide(p) PROVE IInv'
    <2>. DEFINE r == [op[p] EXCEPT !.at = "lock"]
    <2>1. op' = [op EXCEPT ![p] = r] /\ day' = day /\ unlock' = unlock
        BY <1>3 DEF Decide, Goto
    <2>2. DOMAIN r = Fields /\ r.kind = op[p].kind /\ r.copy = op[p].copy /\ r.at = "lock"
        BY DEF IInv, Shape, Fields
    <2>. HIDE DEF r
    <2>. QED
        BY <2>1, <2>2, GoesOn
<1>4. ASSUME NEW p \in Processes, PersistLock(p) PROVE IInv'
    <2>. DEFINE c == [op[p].copy EXCEPT !.status = "locked"]
                r == [op[p] EXCEPT !.at = "gate", !.copy = c]
    <2>1. op' = [op EXCEPT ![p] = r] /\ unlock' = unlock
        BY <1>4 DEF PersistLock, IInv, Shape
    <2>2. Forward(day, day') /\ day'.status = "locked"
        <3>1. /\ DOMAIN day' = DOMAIN day
              /\ day'.status = "locked" /\ day'.approvedAt = day.approvedAt
            BY <1>4 DEF PersistLock, IInv, Shape
        <3>. QED
            BY <3>1 DEF IInv, Forward, Consistent, Status
    <2>3. DOMAIN c = {"status", "approvedAt"} /\ c.status = "locked"
          /\ c.approvedAt = op[p].copy.approvedAt
        BY DEF IInv, Shape
    <2>. HIDE DEF c
    <2>4. DOMAIN r = Fields /\ r.copy = c /\ r.at = "gate"
        BY DEF IInv, Shape, Fields
    <2>. HIDE DEF r
    <2>5. Sound(op[p], day, unlock)
        BY IInvByRequest
    <2>6. Sound(r, day', unlock)
        BY <2>2, <2>3, <2>4, <2>5 DEF Sound, Forward, Consistent, Status
    <2>. QED
        BY <2>1, <2>2, <2>6, OneRequestMoves
<1>5. ASSUME NEW p \in Processes, Refuse(p) PROVE IInv'
    BY <1>5, Finishes DEF Refuse
<1>6. ASSUME NEW p \in Processes, Approve(p) PROVE IInv'
    <2>1. Forward(day, day')
        BY <1>6 DEF Approve, IInv, Shape, Forward, Consistent, Status
    <2>. QED
        BY <1>6, <2>1, Finishes DEF Approve
<1>7. ASSUME NEW p \in Processes, Close(p) PROVE IInv'
    <2>1. Forward(day, day')
        BY <1>7 DEF Close, IInv, Shape, CopiesBehind, Forward, Consistent, Status
    <2>. QED
        BY <1>7, <2>1, Finishes DEF Close
<1>8. ASSUME NEW p \in Processes, Seed(p) \/ WriteRow(p) \/ Regenerate(p) \/ MarkRow(p)
                                  \/ SumRows(p) \/ CompareTotals(p)
      PROVE  IInv'
    <2>1. DOMAIN op[p] = Fields
        BY DEF IInv, Shape, Fields
    <2>2. op[p].at \notin {"idle", "gate", "lock"} /\ day' = day /\ unlock' = unlock
        BY <1>8 DEF Seed, WriteRow, Regenerate, MarkRow, SumRows, CompareTotals
    <2>3. CASE Seed(p)
        <3>1. PICK x : op' = [op EXCEPT ![p] = [op[p] EXCEPT !.at = "sum", !.added = x]]
            BY <2>3 DEF Seed
        <3>. DEFINE r == [op[p] EXCEPT !.at = "sum", !.added = x]
        <3>2. op' = [op EXCEPT ![p] = r]
            BY <3>1
        <3>3. DOMAIN r = Fields /\ r.kind = op[p].kind /\ r.copy = op[p].copy
            BY <2>1 DEF Fields
        <3>. HIDE DEF r
        <3>. QED
            BY <2>2, <3>2, <3>3, GoesOn
    <2>4. CASE WriteRow(p) \/ Regenerate(p)
        <3>1. PICK x : op' = [op EXCEPT ![p] = [op[p] EXCEPT !.at = "sum", !.patch = x]]
            BY <2>4 DEF WriteRow, Regenerate
        <3>. DEFINE r == [op[p] EXCEPT !.at = "sum", !.patch = x]
        <3>2. op' = [op EXCEPT ![p] = r]
            BY <3>1
        <3>3. DOMAIN r = Fields /\ r.kind = op[p].kind /\ r.copy = op[p].copy
            BY <2>1 DEF Fields
        <3>. HIDE DEF r
        <3>. QED
            BY <2>2, <3>2, <3>3, GoesOn
    <2>5. CASE MarkRow(p)
        <3>1. op' = [op EXCEPT ![p] = [op[p] EXCEPT !.at = "sum"]]
            BY <2>5 DEF MarkRow, Goto
        <3>. DEFINE r == [op[p] EXCEPT !.at = "sum"]
        <3>2. op' = [op EXCEPT ![p] = r]
            BY <3>1
        <3>3. DOMAIN r = Fields /\ r.kind = op[p].kind /\ r.copy = op[p].copy
            BY <2>1 DEF Fields
        <3>. HIDE DEF r
        <3>. QED
            BY <2>2, <3>2, <3>3, GoesOn
    <2>6. CASE SumRows(p)
        <3>1. PICK x : op' = [op EXCEPT ![p] = [op[p] EXCEPT !.at = "total", !.totals = x]]
            BY <2>6 DEF SumRows
        <3>. DEFINE r == [op[p] EXCEPT !.at = "total", !.totals = x]
        <3>2. op' = [op EXCEPT ![p] = r]
            BY <3>1
        <3>3. DOMAIN r = Fields /\ r.kind = op[p].kind /\ r.copy = op[p].copy
            BY <2>1 DEF Fields
        <3>. HIDE DEF r
        <3>. QED
            BY <2>2, <3>2, <3>3, GoesOn
    <2>7. CASE CompareTotals(p)
        <3>1. PICK x : op' = [op EXCEPT ![p] = [op[p] EXCEPT !.at = "store", !.totals = x]]
            BY <2>7 DEF CompareTotals
        <3>. DEFINE r == [op[p] EXCEPT !.at = "store", !.totals = x]
        <3>2. op' = [op EXCEPT ![p] = r]
            BY <3>1
        <3>3. DOMAIN r = Fields /\ r.kind = op[p].kind /\ r.copy = op[p].copy
            BY <2>1 DEF Fields
        <3>. HIDE DEF r
        <3>. QED
            BY <2>2, <3>2, <3>3, GoesOn
    <2>. QED
        BY <1>8, <2>3, <2>4, <2>5, <2>6, <2>7
<1>9. ASSUME NEW p \in Processes, ReadRow(p) PROVE IInv'
    <2>. DEFINE r == [op[p] EXCEPT !.at = "mark"]
    <2>1. /\ Finish(p) \/ op' = [op EXCEPT ![p] = r]
          /\ op[p].at = "read" /\ day' = day /\ unlock' = unlock
        BY <1>9 DEF ReadRow, Goto
    <2>2. DOMAIN r = Fields /\ r.kind = op[p].kind /\ r.copy = op[p].copy
        BY DEF IInv, Shape, Fields
    <2>. HIDE DEF r
    <2>. QED
        BY <2>1, <2>2, GoesOn, Finishes
<1>10. ASSUME NEW p \in Processes, StoreTotals(p) PROVE IInv'
    <2>1. Forward(day, day')
        BY <1>10 DEF StoreTotals, IInv, Shape, Forward, Consistent
    <2>. QED
        BY <1>10, <2>1, Finishes DEF StoreTotals
<1>11. ASSUME NEW p \in Processes, Fail(p) PROVE IInv'
    BY <1>11, Finishes DEF Fail
<1>12. ASSUME NEW v \in Vehicles, NEW l \in Litres, Plan(v, l) PROVE IInv'
    <2>1. Forward(day, day') /\ UNCHANGED <<op, unlock>>
        BY <1>12 DEF Plan, IInv, Shape, Forward, Consistent
    <2>. QED
        BY <2>1 DEF IInv, Shape, CopiesBehind, Admissions, Admitted, Forward
<1>13. CASE Unlock \/ UnlockExpires
    <2>1. /\ DOMAIN unlock' = DOMAIN unlock
          /\ unlock'.left \in 0 .. MaxUnlocks /\ unlock'.left <= unlock.left
          /\ unlock'.active => unlock'.left < MaxUnlocks
          /\ UNCHANGED <<day, op>>
        BY <1>13, ConstantsAssumption DEF Unlock, UnlockExpires, IInv, Shape
    <2>. QED
        BY <2>1, ConstantsAssumption DEF IInv, Shape, CopiesBehind, Admissions, Admitted
<1>14. CASE DayLapses \/ UNCHANGED vars
    BY <1>14 DEF DayLapses, vars, IInv, Shape, CopiesBehind, Admissions, Admitted
<1>. QED
    BY <1>2, <1>3, <1>4, <1>5, <1>6, <1>7, <1>8, <1>9, <1>10, <1>11, <1>12, <1>13, <1>14,
       AdmitInv DEF Next, Step

\* The copies requests hold lag behind the day in one direction only, and what a
\* request has passed its checks with is still true of the day when it writes.
THEOREM Invariance == Spec => []IInv
BY InitInv, NextInv, PTL DEF Spec

\* POST /refuel records fuel only on days that have been approved, and a correction
\* is written only on a day that is locked (canRecordFuel, createOperationAdjustment).
THEOREM RecordsFit == Spec => []WritesFitTheDay
<1>1. IInv => WritesFitTheDay
    BY DEF IInv, Shape, Admissions, Admitted, CopiesBehind, WritesFitTheDay
<1>. QED
    BY Invariance, <1>1, PTL

\* No step takes the day back, and none touches an approval once given.
LEMMA StepsForward ==
    ASSUME IInv, [Next]_vars
    PROVE  /\ day.status = "locked" => day'.status = "locked"
           /\ day'.status = "draft" => day.status = "draft"
           /\ day.approvedAt => /\ day'.approvedAt
                                /\ day'.approvedLitres = day.approvedLitres
<1>1. CASE day' = day
    BY <1>1
<1>2. ASSUME NEW p \in Processes, PersistLock(p) \/ Close(p)
      PROVE  /\ day'.status \in {day.status, "locked"}
             /\ day'.approvedAt = day.approvedAt /\ day'.approvedLitres = day.approvedLitres
    BY <1>2 DEF PersistLock, Close, IInv, Shape
<1>3. ASSUME NEW p \in Processes, Approve(p)
      PROVE  \/ day' = day
             \/ day.status = "draft" /\ day'.status = "approved"
    BY <1>3 DEF Approve, IInv, Shape
<1>4. ASSUME NEW p \in Processes, StoreTotals(p)
      PROVE  /\ day'.status = day.status
             /\ day'.approvedAt = day.approvedAt /\ day'.approvedLitres = day.approvedLitres
    BY <1>4 DEF StoreTotals, IInv, Shape
<1>5. ASSUME NEW v \in Vehicles, NEW l \in Litres, Plan(v, l)
      PROVE  /\ day'.status = day.status
             /\ day'.approvedAt = day.approvedAt /\ day'.approvedLitres = day.approvedLitres
    BY <1>5 DEF Plan, IInv, Shape
<1>6. ASSUME NEW p \in Processes,
             \/ BeginRequest(p) \/ BeginSweep(p) \/ Fail(p) \/ Decide(p) \/ Admit(p)
             \/ Refuse(p) \/ Seed(p) \/ WriteRow(p) \/ Regenerate(p) \/ ReadRow(p)
             \/ MarkRow(p) \/ SumRows(p) \/ CompareTotals(p)
      PROVE  day' = day
    BY <1>6 DEF BeginRequest, BeginSweep, Begin, Fail, Decide, Admit, Refuse, Seed, WriteRow,
                Regenerate, ReadRow, MarkRow, SumRows, CompareTotals
<1>7. CASE Unlock \/ UnlockExpires \/ DayLapses \/ UNCHANGED vars
    BY <1>7, <1>1 DEF Unlock, UnlockExpires, DayLapses, vars
<1>8. day.status = "draft" => ~day.approvedAt
    BY DEF IInv, Consistent
<1>9. ASSUME NEW p \in Processes, Step(p)
      PROVE  \/ day' = day
             \/ day.status = "draft" /\ day'.status = "approved"
             \/ /\ day'.status \in {day.status, "locked"}
                /\ day'.approvedAt = day.approvedAt /\ day'.approvedLitres = day.approvedLitres
    BY <1>9, <1>2, <1>3, <1>4, <1>6 DEF Step
<1>. QED
    BY <1>1, <1>5, <1>6, <1>7, <1>8, <1>9 DEF Next

\* The status never goes back and the approved litres stay, whatever old copies the
\* requests in progress hold (approveOperation, closeOperationSession, maybePersistLock).
THEOREM Forwards == Spec => DayMovesForward
<1>1. IInv /\ [Next]_vars =>
        [/\ day.status = "locked" => day'.status = "locked"
         /\ day'.status = "draft" => day.status = "draft"
         /\ day.approvedAt => /\ day'.approvedAt
                              /\ day'.approvedLitres = day.approvedLitres]_vars
    BY StepsForward
<1>. QED
    BY Invariance, <1>1, PTL DEF Spec, DayMovesForward

\* Only a mark or a commit changes the rows of a locked day, and only of a request
\* that passed its checks on it.
LEMMA LockedRowsChange ==
    ASSUME IInv, [Next]_vars, day.status = "locked", unlock.left = MaxUnlocks, rows' # rows
    PROVE  \E p \in Processes : /\ op'[p].at # op[p].at
                                /\ op[p].kind = "adjust" \/ op[p].copy.status # "locked"
<1>1. \E p \in Processes : MarkRow(p) \/ StoreTotals(p)
    BY DEF Next, Step, BeginRequest, BeginSweep, Begin, Fail, Decide, PersistLock, Admit, Refuse,
           Seed, Approve, Close, WriteRow, Regenerate, ReadRow, SumRows, CompareTotals, Plan,
           Unlock, UnlockExpires, DayLapses, vars
<1>2. PICK p \in Processes : MarkRow(p) \/ StoreTotals(p)
    BY <1>1
<1>3. op[p].at \in {"mark", "store"} /\ op'[p].at \in {"sum", "idle"}
    <2>1. CASE MarkRow(p)
        BY <2>1 DEF MarkRow, Goto, IInv, Shape
    <2>2. CASE StoreTotals(p)
        <3>1. op' = [op EXCEPT ![p] = Idle] /\ op[p].at = "store"
            BY <2>2 DEF StoreTotals, Finish
        <3>2. op'[p].at = "idle"
            BY <3>1 DEF Idle, IInv, Shape
        <3>. QED
            BY <3>1, <3>2
    <2>. QED
        BY <1>2, <2>1, <2>2
<1>4. op[p].kind = "adjust" \/ op[p].copy.status # "locked"
    BY <1>3, ConstantsAssumption DEF IInv, Shape, Admissions, Admitted
<1>. QED
    BY <1>3, <1>4

\* As long as no unlock is granted, a locked day's rows change by corrections and
\* by requests that had loaded the day before it was locked, and by nothing else.
THEOREM Frozen == Spec => LockedDayFrozen
<1>1. IInv /\ [Next]_vars =>
        [(/\ day.status = "locked"
          /\ unlock.left = MaxUnlocks
          /\ rows' # rows)
         => \E p \in Processes :
              /\ op'[p].at # op[p].at
              /\ \/ op[p].kind = "adjust"
                 \/ op[p].copy.status # "locked"]_vars
    BY LockedRowsChange
<1>. QED
    BY Invariance, <1>1, PTL DEF Spec, LockedDayFrozen

-----------------------------------------------------------------------------
(***************************************************************************)
(* The types, and the totals.                                              *)
(***************************************************************************)

\* Every nonempty set of naturals has a least element: how induction is done
\* without an operator parameter.
LEMMA LeastNumber ==
    ASSUME NEW T \in SUBSET Nat, T # {}
    PROVE  \E m \in T : \A k \in T : m <= k
<1>1. PICK m \in T : \A k \in T : <<k, m>> \notin OpToRel(<, Nat)
    BY NatLessThanWellFounded, WFMin
<1>2. ASSUME NEW k \in T, k < m PROVE FALSE
    <2>1. k \in Nat /\ m \in Nat
        OBVIOUS
    <2>2. <<k, m>> \in OpToRel(<, Nat)
        BY <1>2, <2>1 DEF OpToRel
    <2>. QED
        BY <1>1, <2>2, Zenon
<1>3. \A k \in T : m <= k
    BY <1>2
<1>. QED
    BY <1>3

\* The sets whose sums f says, for the weights w.
Adds(f, w, sets) ==
    f = [s \in sets |-> IF s = {} THEN 0
                        ELSE w[CHOOSE x \in s : TRUE] + f[s \ {CHOOSE x \in s : TRUE}]]

LEMMA SumUnfolds ==
    ASSUME NEW w
    PROVE  SumFunction(w) = (CHOOSE f : Adds(f, w, SUBSET DOMAIN w))[DOMAIN w]
BY DEF SumFunction, SumFunctionOnSet, FoldFunctionOnSet, MapThenFoldSet, Adds

LEMMA SumExists ==
    ASSUME NEW S, IsFiniteSet(S), NEW w
    PROVE  \E f : Adds(f, w, SUBSET S)
<1>. DEFINE UpTo(n) == {s \in SUBSET S : Cardinality(s) <= n}
            None == {n \in Nat : ~\E f : Adds(f, w, UpTo(n))}
<1>1. \A s \in SUBSET S : /\ IsFiniteSet(s) /\ Cardinality(s) \in Nat
                          /\ Cardinality(s) <= Cardinality(S)
    BY FS_Subset, FS_CardinalityType
<1>2. Cardinality(S) \in Nat
    BY FS_CardinalityType
<1>3. SUBSET S = UpTo(Cardinality(S))
    BY <1>1
<1>4. Adds([s \in UpTo(0) |-> 0], w, UpTo(0))
    <2>1. \A s \in UpTo(0) : s = {}
        BY <1>1, FS_EmptySet
    <2>. QED
        BY <2>1 DEF Adds
<1>5. ASSUME NEW n \in Nat, NEW f, Adds(f, w, UpTo(n))
      PROVE  \E g : Adds(g, w, UpTo(n + 1))
    <2>. DEFINE x(s) == CHOOSE e \in s : TRUE
                g == [s \in UpTo(n + 1) |-> IF s = {} THEN 0 ELSE w[x(s)] + f[s \ {x(s)}]]
    <2>1. ASSUME NEW s \in UpTo(n + 1), s # {} PROVE s \ {x(s)} \in UpTo(n)
        <3>1. x(s) \in s
            BY <2>1
        <3>. HIDE DEF x
        <3>2. Cardinality(s \ {x(s)}) = Cardinality(s) - 1
            BY <1>1, <3>1, FS_RemoveElement
        <3>. QED
            BY <1>1, <2>1, <3>2
    <2>2. \A s \in UpTo(n) : s \in UpTo(n + 1)
        BY <1>1
    <2>3. \A s \in UpTo(n) : f[s] = IF s = {} THEN 0 ELSE w[x(s)] + f[s \ {x(s)}]
        BY <1>5 DEF Adds
    <2>. HIDE DEF x, UpTo
    <2>4. \A s \in UpTo(n) : g[s] = f[s]
        BY <2>2, <2>3
    <2>5. \A s \in UpTo(n + 1) : s # {} => g[s \ {x(s)}] = f[s \ {x(s)}]
        BY <2>1, <2>4
    <2>6. g = [s \in UpTo(n + 1) |-> IF s = {} THEN 0 ELSE w[x(s)] + g[s \ {x(s)}]]
        BY <2>5
    <2>7. Adds(g, w, UpTo(n + 1))
        BY <2>6 DEF Adds, x
    <2>. QED
        BY <2>7
<1>. HIDE DEF UpTo
<1>6. None = {}
    <2>. SUFFICES ASSUME None # {} PROVE FALSE
        OBVIOUS
    <2>1. PICK m \in None : \A k \in None : m <= k
        BY LeastNumber
    <2>2. m # 0 /\ m \in Nat
        BY <1>4
    <2>3. m - 1 \in Nat /\ m - 1 \notin None /\ (m - 1) + 1 = m
        BY <2>1, <2>2
    <2>. QED
        BY <1>5, <2>3
<1>7. Cardinality(S) \notin None
    BY <1>6
<1>8. \E f : Adds(f, w, UpTo(Cardinality(S)))
    BY <1>2, <1>7
<1>. QED
    BY <1>3, <1>8

LEMMA SumType ==
    ASSUME NEW S, IsFiniteSet(S), NEW w \in [S -> Nat]
    PROVE  SumFunction(w) \in Nat
<1>. DEFINE f == CHOOSE h : Adds(h, w, SUBSET S)
            bad == {s \in SUBSET S : f[s] \notin Nat}
            sizes == {Cardinality(s) : s \in bad}
<1>1. Adds(f, w, SUBSET S)
    BY SumExists
<1>2. SumFunction(w) = f[S]
    BY SumUnfolds
<1>. HIDE DEF f
<1>3. \A s \in SUBSET S : IsFiniteSet(s) /\ Cardinality(s) \in Nat
    BY FS_Subset, FS_CardinalityType
<1>4. ASSUME NEW s \in bad PROVE \E u \in bad : Cardinality(u) < Cardinality(s)
    <2>. DEFINE x == CHOOSE e \in s : TRUE
    <2>1. f[s] = IF s = {} THEN 0 ELSE w[x] + f[s \ {x}]
        BY <1>1 DEF Adds
    <2>2. s # {} /\ x \in s /\ w[x] \in Nat
        BY <2>1
    <2>. HIDE DEF x
    <2>3. s \ {x} \in bad
        BY <2>1, <2>2
    <2>4. Cardinality(s \ {x}) = Cardinality(s) - 1
        BY <1>3, <2>2, FS_RemoveElement
    <2>. QED
        BY <1>3, <2>3, <2>4
<1>5. bad = {}
    <2>. SUFFICES ASSUME bad # {} PROVE FALSE
        OBVIOUS
    <2>1. sizes \subseteq Nat /\ sizes # {}
        BY <1>3
    <2>2. PICK m \in sizes : \A k \in sizes : m <= k
        BY <2>1, LeastNumber
    <2>3. PICK s \in bad : m = Cardinality(s)
        OBVIOUS
    <2>4. PICK u \in bad : Cardinality(u) < Cardinality(s)
        BY <1>4
    <2>. QED
        BY <1>3, <2>2, <2>3, <2>4
<1>. QED
    BY <1>2, <1>5

LEMMA SumOfNothing == ASSUME NEW w, DOMAIN w = {} PROVE SumFunction(w) = 0
<1>. DEFINE f == CHOOSE h : Adds(h, w, SUBSET {})
<1>1. Adds(f, w, SUBSET {}) /\ SumFunction(w) = f[{}]
    BY SumExists, SumUnfolds, FS_EmptySet
<1>. HIDE DEF f
<1>. QED
    BY <1>1 DEF Adds

Amounts == [estimated : Nat, actual : Nat]

LEMMA RowAmounts == ASSUME NEW r \in Row PROVE r.planned \in Nat /\ r.actual \in Nat
<1>1. r.planned \in Litres /\ (r.actual \in Litres \/ r.actual = 0)
    BY DEF Row
<1>2. Litres \subseteq Nat
    BY ConstantsAssumption
<1>3. r.planned \in Nat /\ (r.actual \in Nat \/ r.actual = 0)
    BY <1>1, <1>2, Zenon
<1>. QED
    BY <1>3

\* Totals of rows are amounts, whatever the rows; of no rows they are none.
LEMMA TotalsType ==
    ASSUME NEW rs \in Seq(Row)
    PROVE  Totals(rs) \in Amounts /\ DOMAIN Totals(rs) = Columns /\ PlannedLitres(rs) \in Nat
<1>. DEFINE estimated == [i \in DOMAIN rs |-> IF rs[i].skipped THEN 0 ELSE rs[i].planned]
            actual == [i \in DOMAIN rs |-> rs[i].actual]
            planned == [i \in DOMAIN rs |-> rs[i].planned]
<1>1. DOMAIN rs = 1 .. Len(rs) /\ IsFiniteSet(DOMAIN rs) /\ \A i \in DOMAIN rs : rs[i] \in Row
    BY LenProperties, FS_Interval
<1>3. /\ estimated \in [DOMAIN rs -> Nat] /\ actual \in [DOMAIN rs -> Nat]
      /\ planned \in [DOMAIN rs -> Nat]
    BY <1>1, RowAmounts
<1>4. Totals(rs) = [estimated |-> SumFunction(estimated), actual |-> SumFunction(actual)]
    BY DEF Totals
<1>5. PlannedLitres(rs) = SumFunction(planned)
    BY DEF PlannedLitres
<1>. HIDE DEF estimated, actual, planned
<1>6. SumFunction(estimated) \in Nat /\ SumFunction(actual) \in Nat /\ SumFunction(planned) \in Nat
    BY <1>1, <1>3, SumType
<1>. QED
    BY <1>4, <1>5, <1>6 DEF Amounts, Columns

LEMMA TotalsOfNothing == Totals(<<>>) = NoTotals
<1>1. \A w : DOMAIN w = {} => SumFunction(w) = 0
    BY SumOfNothing
<1>2. DOMAIN <<>> = {}
    OBVIOUS
<1>3. Totals(<<>>) = [estimated |-> 0, actual |-> 0]
    BY <1>1, <1>2 DEF Totals
<1>. QED
    BY <1>3 DEF NoTotals, Columns

\* A request for a row names one; a row is marked by skip and unskip only.
Targets ==
    \A p \in Processes :
        /\ op[p].at # "idle" /\ op[p].kind \in RowKinds => op[p].id \in DOMAIN rows
        /\ op[p].at \in {"read", "mark"} => op[p].kind \in {"skip", "unskip"}
        /\ op[p].at = "total" => DOMAIN op[p].totals = Columns

\* The columns a sum has to change.
Changed(sum) == [c \in {k \in Columns : sum[k] # day.totals[k]} |-> sum[c]]

\* Undisturbed, what a request has summed is still the sum of the rows it sees,
\* what it has compared is still the difference, and the totals are those of the
\* rows, or a request that marked one is going to put that right.
SumsHold ==
    /\ \A p \in Processes : op[p].at = "total" => op[p].totals = Totals(Seen(p))
    /\ \A p \in Processes : op[p].at = "store" => op[p].totals = Changed(Totals(Seen(p)))
    /\ \/ day.totals = Totals(rows)
       \/ \E p \in Processes : /\ op[p].kind \in {"skip", "unskip"}
                               /\ op[p].at \in {"sum", "total", "store"}

\* The inductive invariant of the totals.
TotalsInv ==
    /\ Shape
    /\ TypeOK
    /\ Targets
    /\ ~disturbed => SumsHold

\* What the types ask of one request r, when the rows are those of ids.
Fits(r, ids) ==
    /\ DOMAIN r = Fields
    /\ r.kind \in Kinds /\ r.at \in Steps /\ r.id \in ids \cup {0}
    /\ r.copy \in [status : Status, approvedAt : BOOLEAN]
    /\ DOMAIN r.patch \subseteq ids /\ \A i \in DOMAIN r.patch : r.patch[i] \in Row
    /\ r.added \in Seq(Row)
    /\ DOMAIN r.totals \subseteq Columns /\ \A c \in DOMAIN r.totals : r.totals[c] \in Nat
    /\ r.at # "idle" /\ r.kind \in RowKinds => r.id \in ids
    /\ r.at \in {"read", "mark"} => r.kind \in {"skip", "unskip"}
    /\ r.at = "total" => DOMAIN r.totals = Columns

\* The types of everything but the requests.
StoreOK ==
    /\ day \in [status : Status, approvedAt : BOOLEAN, approvedLitres : Nat,
                variance : BOOLEAN, totals : Amounts]
    /\ rows \in Seq(Row)
    /\ past \in BOOLEAN
    /\ unlock \in [active : BOOLEAN, left : 0 .. MaxUnlocks]
    /\ left \in [requests : Nat, faults : Nat]
    /\ disturbed \in BOOLEAN

Typed == StoreOK /\ DOMAIN op = Processes /\ \A p \in Processes : Fits(op[p], DOMAIN rows)

LEMMA TotalsInvByRequest ==
    /\ TotalsInv <=> Typed /\ (~disturbed => SumsHold)
    /\ TotalsInv' <=> Typed' /\ (~disturbed' => SumsHold')
BY ConstantsAssumption
   DEF TotalsInv, Shape, TypeOK, Targets, Typed, StoreOK, Fits, Fields, Amounts

\* A step of one request, which may add rows.
LEMMA RequestFits ==
    ASSUME Typed, NEW p \in Processes, NEW r, op' = [op EXCEPT ![p] = r],
           Fits(r, DOMAIN rows'), StoreOK', DOMAIN rows \subseteq DOMAIN rows'
    PROVE  Typed'
<1>1. \A q \in Processes : Fits(op[q], DOMAIN rows')
    BY DEF Typed, Fits
<1>. QED
    BY <1>1 DEF Typed

LEMMA IdleFits == ASSUME NEW ids PROVE Fits(Idle, ids)
BY EmptySeq DEF Fits, Idle, Fields, Kinds, Steps, Status, NoTotals, Columns, RowKinds

\* The rows a request sees have their types, and none is missing.
LEMMA SeenType ==
    ASSUME Typed, NEW p \in Processes
    PROVE  Seen(p) \in Seq(Row) /\ DOMAIN rows \subseteq DOMAIN Seen(p)
<1>. DEFINE own == [i \in DOMAIN rows |-> IF i \in DOMAIN op[p].patch THEN op[p].patch[i]
                                          ELSE rows[i]]
<1>1. rows \in Seq(Row) /\ op[p].added \in Seq(Row) /\ Fits(op[p], DOMAIN rows)
    BY DEF Typed, StoreOK, Fits
<1>2. DOMAIN rows = 1 .. Len(rows) /\ Len(rows) \in Nat /\ \A i \in DOMAIN rows : rows[i] \in Row
    BY <1>1, LenProperties
<1>3. own \in [1 .. Len(rows) -> Row]
    BY <1>1, <1>2 DEF Fits
<1>4. own \in Seq(Row) /\ Len(own) = Len(rows)
    BY <1>2, <1>3
<1>5. Seen(p) = own \o op[p].added
    BY DEF Seen
<1>. HIDE DEF own
<1>6. Seen(p) \in Seq(Row) /\ Len(Seen(p)) = Len(rows) + Len(op[p].added)
    <2>1. ASSUME NEW s \in Seq(Row), NEW t \in Seq(Row)
          PROVE  s \o t \in Seq(Row) /\ Len(s \o t) = Len(s) + Len(t)
        BY ConcatProperties
    <2>. QED
        BY <1>1, <1>4, <1>5, <2>1, Zenon
<1>7. Len(op[p].added) \in Nat /\ DOMAIN Seen(p) = 1 .. Len(Seen(p))
    BY <1>1, <1>6, LenProperties
<1>. QED
    BY <1>2, <1>6, <1>7

\* What is claimed of the sums of the others lasts while the rows and the totals
\* stay, or no one has got that far.
LEMMA OthersKeep ==
    ASSUME Typed, SumsHold, NEW p \in Processes, NEW r, op' = [op EXCEPT ![p] = r],
           rows' = rows \/ ~SumHeldBeside({p}),
           day'.totals = day.totals \/ ~ComparedBeside({p})
    PROVE  \A q \in Processes \ {p} :
             /\ op'[q] = op[q]
             /\ op'[q].at = "total" => op'[q].totals = Totals(Seen(q))'
             /\ op'[q].at = "store" => op'[q].totals = Changed(Totals(Seen(q)))'
<1>. TAKE q \in Processes \ {p}
<1>1. op'[q] = op[q]
    BY DEF Typed
<1>2. CASE op[q].at \notin {"total", "store"}
    BY <1>1, <1>2
<1>3. CASE op[q].at \in {"total", "store"}
    <2>1. rows' = rows
        BY <1>3 DEF SumHeldBeside
    <2>2. Seen(q)' = Seen(q)
        BY <1>1, <2>1 DEF Seen
    <2>3. Totals(Seen(q))' = Totals(Seen(q))
        BY <2>2 DEF Totals
    <2>4. CASE op[q].at = "total"
        BY <1>1, <2>3, <2>4 DEF SumsHold
    <2>5. CASE op[q].at = "store"
        <3>1. day'.totals = day.totals
            BY <2>5 DEF ComparedBeside
        <3>. QED
            BY <1>1, <2>3, <2>5, <3>1 DEF SumsHold, Changed
    <2>. QED
        BY <1>3, <2>4, <2>5
<1>. QED
    BY <1>2, <1>3

\* A step that changes neither rows nor totals, of a request that has summed
\* nothing and leaves nothing to be put right.
LEMMA SumsStay ==
    ASSUME Typed, NEW p \in Processes, NEW r, op' = [op EXCEPT ![p] = r],
           ~disturbed => SumsHold, ~disturbed' => ~disturbed,
           rows' = rows, day'.totals = day.totals, r.at \notin {"total", "store"},
           \/ op[p].at \notin {"sum", "total", "store"}
           \/ op[p].kind \notin {"skip", "unskip"}
           \/ disturbed'
    PROVE  ~disturbed' => SumsHold'
<1>. SUFFICES ASSUME ~disturbed' PROVE SumsHold'
    OBVIOUS
<1>1. SumsHold
    OBVIOUS
<1>2. op'[p] = r
    BY DEF Typed
<1>3. Totals(rows)' = Totals(rows)
    BY DEF Totals
<1>. QED
    BY <1>1, <1>2, <1>3, OthersKeep DEF SumsHold

LEMMA RequestMoves ==
    ASSUME TotalsInv, NEW p \in Processes, NEW r, op' = [op EXCEPT ![p] = r],
           Fits(r, DOMAIN rows), StoreOK', ~disturbed' => ~disturbed,
           rows' = rows, day'.totals = day.totals, r.at \notin {"total", "store"},
           \/ op[p].at \notin {"sum", "total", "store"}
           \/ op[p].kind \notin {"skip", "unskip"}
           \/ disturbed'
    PROVE  TotalsInv'
<1>1. Typed /\ (~disturbed => SumsHold)
    BY TotalsInvByRequest
<1>2. Typed'
    BY <1>1, RequestFits
<1>3. ~disturbed' => SumsHold'
    BY <1>1, SumsStay
<1>. QED
    BY <1>2, <1>3, TotalsInvByRequest

LEMMA StoreStays ==
    ASSUME Typed, UNCHANGED <<day, rows, past, unlock, left, disturbed>>
    PROVE  StoreOK'
BY DEF Typed, StoreOK

\* The part every handler begins with.
LEMMA GateTotals ==
    ASSUME TotalsInv, NEW p \in Processes,
           BeginRequest(p) \/ BeginSweep(p) \/ Decide(p) \/ PersistLock(p) \/ Admit(p) \/ Refuse(p)
    PROVE  TotalsInv'
<1>. USE TotalsInvByRequest, RequestMoves
<1>1. Fits(op[p], DOMAIN rows)
    BY DEF Typed
<1>2. ASSUME NEW k \in Kinds, NEW i \in DOMAIN rows \cup {0}, k \in RowKinds => i \in DOMAIN rows,
             Begin(p, k, i), left' \in [requests : Nat, faults : Nat]
      PROVE  TotalsInv'
    <2>. DEFINE r == [Idle EXCEPT !.kind = k, !.at = "gate", !.id = i,
                                 !.copy = [status |-> day.status,
                                           approvedAt |-> day.approvedAt]]
    <2>1. op' = [op EXCEPT ![p] = r] /\ UNCHANGED <<day, rows, past, unlock, disturbed>>
          /\ op[p].at = "idle"
        BY <1>2 DEF Begin
    <2>2. r.copy \in [status : Status, approvedAt : BOOLEAN]
        BY DEF Typed, StoreOK, Idle
    <2>3. Fits(r, DOMAIN rows) /\ r.at = "gate"
        BY <1>2, <2>2, EmptySeq DEF Fits, Idle, Fields, Steps, NoTotals, Columns
    <2>4. StoreOK'
        BY <1>2, <2>1 DEF Typed, StoreOK
    <2>. HIDE DEF r
    <2>. QED
        BY <2>1, <2>3, <2>4
<1>3. CASE BeginRequest(p)
    <2>1. left' \in [requests : Nat, faults : Nat]
        BY <1>3 DEF BeginRequest, Typed, StoreOK
    <2>2. PICK k \in Kinds, i \in DOMAIN rows \cup {0} :
            Begin(p, k, i) /\ (k \in RowKinds => i \in DOMAIN rows)
        BY <1>3 DEF BeginRequest, Kinds, RowKinds, RefuelKinds
    <2>. QED
        BY <1>2, <2>1, <2>2
<1>4. CASE BeginSweep(p)
    BY <1>2, <1>4 DEF BeginSweep, Kinds, RowKinds, RefuelKinds, Typed, StoreOK
<1>5. CASE Decide(p)
    <2>. DEFINE r == [op[p] EXCEPT !.at = "lock"]
    <2>1. op' = [op EXCEPT ![p] = r] /\ UNCHANGED <<day, rows, past, unlock, left, disturbed>>
          /\ op[p].at = "gate"
        BY <1>5 DEF Decide, Goto
    <2>2. Fits(r, DOMAIN rows) /\ r.at = "lock"
        BY <1>1, <2>1 DEF Fits, Fields, Steps
    <2>. HIDE DEF r
    <2>. QED
        BY <2>1, <2>2, StoreStays
<1>6. CASE PersistLock(p)
    <2>. DEFINE c == [op[p].copy EXCEPT !.status = "locked"]
                r == [op[p] EXCEPT !.at = "gate", !.copy = c]
    <2>1. op' = [op EXCEPT ![p] = r] /\ UNCHANGED <<rows, past, unlock, left, disturbed>>
          /\ op[p].at = "lock"
        BY <1>1, <1>6 DEF PersistLock, Fits, Fields
    <2>2. StoreOK' /\ day'.totals = day.totals
        BY <1>6 DEF PersistLock, Typed, StoreOK, Status
    <2>3. c \in [status : Status, approvedAt : BOOLEAN]
        BY <1>1 DEF Fits, Status
    <2>. HIDE DEF c
    <2>4. Fits(r, DOMAIN rows) /\ r.at = "gate"
        BY <1>1, <2>1, <2>3 DEF Fits, Fields, Steps
    <2>. HIDE DEF r
    <2>. QED
        BY <2>1, <2>2, <2>4
<1>7. CASE Admit(p)
    <2>. DEFINE r == [op[p] EXCEPT !.at = FirstStep(op[p].kind)]
    <2>1. op' = [op EXCEPT ![p] = r] /\ UNCHANGED <<day, rows, past, unlock, left, disturbed>>
          /\ op[p].at = "gate"
        BY <1>7 DEF Admit, AtChecks, Goto
    <2>2. /\ FirstStep(op[p].kind) \in Steps \ {"idle", "mark", "total", "store"}
          /\ FirstStep(op[p].kind) = "read" => op[p].kind \in {"skip", "unskip"}
        BY DEF FirstStep, Steps
    <2>3. Fits(r, DOMAIN rows) /\ r.at \notin {"total", "store"}
        BY <1>1, <2>1, <2>2 DEF Fits, Fields
    <2>. HIDE DEF r
    <2>. QED
        BY <2>1, <2>3, StoreStays
<1>8. CASE Refuse(p)
    <2>1. op' = [op EXCEPT ![p] = Idle] /\ UNCHANGED <<day, rows, past, unlock, left, disturbed>>
          /\ op[p].at = "gate"
        BY <1>8 DEF Refuse, AtChecks, Finish
    <2>2. Idle.at = "idle"
        BY DEF Idle
    <2>. QED
        BY <2>1, <2>2, IdleFits, StoreStays
<1>. QED
    BY <1>3, <1>4, <1>5, <1>6, <1>7, <1>8

\* What a transaction writes stays with it until it commits.
LEMMA WriteTotals ==
    ASSUME TotalsInv, NEW p \in Processes,
           Seed(p) \/ WriteRow(p) \/ Regenerate(p) \/ ReadRow(p) \/ Close(p) \/ Fail(p)
    PROVE  TotalsInv'
<1>. USE TotalsInvByRequest, RequestMoves
<1>1. /\ Fits(op[p], DOMAIN rows) /\ rows \in Seq(Row) /\ Litres \subseteq Nat
      /\ \A i \in DOMAIN rows : rows[i] \in Row
    BY LenProperties, ConstantsAssumption DEF Typed, StoreOK
<1>2. Idle.at = "idle"
    BY DEF Idle
<1>3. CASE Seed(p)
    <2>1. PICK l \in Litres, order \in [1 .. Cardinality(Fleet) -> Fleet] :
            op' = [op EXCEPT ![p] =
                [op[p] EXCEPT !.at = "sum",
                              !.added = [i \in DOMAIN order |-> PlannedRow(order[i], l)]]]
        BY <1>3 DEF Seed
    <2>. DEFINE added == [i \in DOMAIN order |-> PlannedRow(order[i], l)]
                r == [op[p] EXCEPT !.at = "sum", !.added = added]
    <2>2. op' = [op EXCEPT ![p] = r] /\ UNCHANGED <<day, rows, past, unlock, left, disturbed>>
          /\ op[p].at = "insert"
        BY <1>3, <2>1 DEF Seed
    <2>3. added \in Seq(Row)
        <3>1. Cardinality(Fleet) \in Nat /\ Fleet \subseteq Vehicles
            BY ConstantsAssumption, FS_CardinalityType
        <3>2. \A v \in Fleet : PlannedRow(v, l) \in Row
            BY <3>1 DEF PlannedRow, Row
        <3>3. added \in [1 .. Cardinality(Fleet) -> Row]
            BY <3>2
        <3>. HIDE DEF added
        <3>. QED
            BY <3>1, <3>3
    <2>. HIDE DEF added
    <2>4. Fits(r, DOMAIN rows) /\ r.at = "sum"
        BY <1>1, <2>2, <2>3 DEF Fits, Fields, Steps
    <2>. HIDE DEF r
    <2>. QED
        BY <2>2, <2>4, StoreStays
<1>4. CASE WriteRow(p)
    <2>1. PICK l \in Litres \cup {0} :
            /\ l \in Litres \/ op[p].kind = "adjust"
            /\ op' = [op EXCEPT ![p] = [op[p] EXCEPT !.at = "sum",
                        !.patch = [i \in {op[p].id} |-> Rewritten(op[p].kind, rows[i], l)]]]
        BY <1>4 DEF WriteRow
    <2>. DEFINE patch == [i \in {op[p].id} |-> Rewritten(op[p].kind, rows[i], l)]
                r == [op[p] EXCEPT !.at = "sum", !.patch = patch]
    <2>2. op' = [op EXCEPT ![p] = r] /\ UNCHANGED <<day, rows, past, unlock, left, disturbed>>
          /\ op[p].at = "write" /\ op[p].kind \in RefuelKinds
        BY <1>4, <2>1 DEF WriteRow
    <2>3. op[p].id \in DOMAIN rows
        BY <1>1, <2>2 DEF Fits, RowKinds
    <2>4. DOMAIN patch \subseteq DOMAIN rows /\ \A i \in DOMAIN patch : patch[i] \in Row
        BY <1>1, <2>1, <2>3 DEF Rewritten, Row
    <2>. HIDE DEF patch
    <2>5. Fits(r, DOMAIN rows) /\ r.at = "sum"
        BY <1>1, <2>2, <2>4 DEF Fits, Fields, Steps
    <2>. HIDE DEF r
    <2>. QED
        BY <2>2, <2>5, StoreStays
<1>5. CASE Regenerate(p)
    <2>1. PICK plan \in [DOMAIN rows -> Litres] :
            op' = [op EXCEPT ![p] = [op[p] EXCEPT !.at = "sum",
                     !.patch = [i \in DOMAIN rows |-> [rows[i] EXCEPT !.planned = plan[i]]]]]
        BY <1>5 DEF Regenerate
    <2>. DEFINE patch == [i \in DOMAIN rows |-> [rows[i] EXCEPT !.planned = plan[i]]]
                r == [op[p] EXCEPT !.at = "sum", !.patch = patch]
    <2>2. op' = [op EXCEPT ![p] = r] /\ UNCHANGED <<day, rows, past, unlock, left, disturbed>>
          /\ op[p].at = "write"
        BY <1>5, <2>1 DEF Regenerate
    <2>3. DOMAIN patch \subseteq DOMAIN rows /\ \A i \in DOMAIN patch : patch[i] \in Row
        BY <1>1 DEF Row
    <2>. HIDE DEF patch
    <2>4. Fits(r, DOMAIN rows) /\ r.at = "sum"
        BY <1>1, <2>2, <2>3 DEF Fits, Fields, Steps
    <2>. HIDE DEF r
    <2>. QED
        BY <2>2, <2>4, StoreStays
<1>6. CASE ReadRow(p)
    <2>. DEFINE r == [op[p] EXCEPT !.at = "mark"]
    <2>1. /\ op' = [op EXCEPT ![p] = Idle] \/ op' = [op EXCEPT ![p] = r]
          /\ UNCHANGED <<day, rows, past, unlock, left, disturbed>> /\ op[p].at = "read"
        BY <1>6 DEF ReadRow, Goto, Finish
    <2>2. Fits(r, DOMAIN rows) /\ r.at = "mark"
        BY <1>1, <2>1 DEF Fits, Fields, Steps
    <2>. HIDE DEF r
    <2>. QED
        BY <1>2, <2>1, <2>2, IdleFits, StoreStays
<1>7. CASE Close(p)
    <2>1. op' = [op EXCEPT ![p] = Idle] /\ UNCHANGED <<rows, past, unlock, left, disturbed>>
          /\ op[p].at = "gate"
        BY <1>7 DEF Close, Finish
    <2>2. StoreOK' /\ day'.totals = day.totals
        BY <1>7 DEF Close, Typed, StoreOK, Status
    <2>. QED
        BY <1>2, <2>1, <2>2, IdleFits
<1>8. CASE Fail(p)
    <2>1. /\ op' = [op EXCEPT ![p] = Idle] /\ UNCHANGED <<day, rows, past, unlock>>
          /\ ~disturbed' => ~disturbed /\ (\/ op[p].kind \notin {"skip", "unskip"}
                                           \/ op[p].at \notin {"sum", "total", "store"})
          /\ disturbed' \in BOOLEAN
        BY <1>8 DEF Fail, Finish
    <2>2. left' \in [requests : Nat, faults : Nat]
        BY <1>8 DEF Fail, Typed, StoreOK
    <2>3. StoreOK'
        BY <2>1, <2>2 DEF Typed, StoreOK
    <2>. QED
        BY <1>2, <2>1, <2>3, IdleFits
<1>. QED
    BY <1>3, <1>4, <1>5, <1>6, <1>7, <1>8

\* How a step of the request p that sums, compares, stores or marks keeps the
\* sums, when it does not disturb the others.
LEMMA SumsMove ==
    ASSUME Typed, SumsHold, NEW p \in Processes, NEW r, op' = [op EXCEPT ![p] = r],
           rows' = rows \/ ~SumHeldBeside({p}),
           day'.totals = day.totals \/ ~ComparedBeside({p}),
           r.at = "total" => r.totals = Totals(Seen(p))',
           r.at = "store" => r.totals = Changed(Totals(Seen(p)))',
           \/ day'.totals = Totals(rows)'
           \/ r.kind \in {"skip", "unskip"} /\ r.at \in {"sum", "total", "store"}
           \/ /\ rows' = rows /\ day'.totals = day.totals
              /\ r.kind = op[p].kind /\ r.at \in {"sum", "total", "store"}
    PROVE  SumsHold'
<1>1. op'[p] = r
    BY DEF Typed
<1>2. \A q \in Processes \ {p} :
        /\ op'[q] = op[q]
        /\ op'[q].at = "total" => op'[q].totals = Totals(Seen(q))'
        /\ op'[q].at = "store" => op'[q].totals = Changed(Totals(Seen(q)))'
    BY OthersKeep
<1>3. (\A q \in Processes : op[q].at = "total" => op[q].totals = Totals(Seen(q)))'
    BY <1>1, <1>2
<1>4. (\A q \in Processes : op[q].at = "store" => op[q].totals = Changed(Totals(Seen(q))))'
    BY <1>1, <1>2
<1>5. (\/ day.totals = Totals(rows)
       \/ \E q \in Processes : /\ op[q].kind \in {"skip", "unskip"}
                               /\ op[q].at \in {"sum", "total", "store"})'
    <2>1. CASE day'.totals = Totals(rows)'
        BY <2>1
    <2>2. CASE r.kind \in {"skip", "unskip"} /\ r.at \in {"sum", "total", "store"}
        BY <1>1, <2>2
    <2>3. CASE /\ rows' = rows /\ day'.totals = day.totals
               /\ r.kind = op[p].kind /\ r.at \in {"sum", "total", "store"}
        <3>1. Totals(rows)' = Totals(rows)
            BY <2>3 DEF Totals
        <3>. QED
            BY <1>1, <1>2, <2>3, <3>1 DEF SumsHold
    <2>. QED
        BY <2>1, <2>2, <2>3
<1>. QED
    BY <1>3, <1>4, <1>5 DEF SumsHold

LEMMA MarkTotals == ASSUME TotalsInv, NEW p \in Processes, MarkRow(p) PROVE TotalsInv'
<1>. DEFINE r == [op[p] EXCEPT !.at = "sum"]
            id == op[p].id
            marked == [rows[id] EXCEPT !.skipped = (op[p].kind = "skip")]
<1>1. Typed /\ Fits(op[p], DOMAIN rows) /\ (~disturbed => SumsHold)
    BY TotalsInvByRequest DEF Typed
<1>2. /\ op[p].at = "mark" /\ op' = [op EXCEPT ![p] = r] /\ UNCHANGED <<day, past, unlock, left>>
      /\ rows' = [rows EXCEPT ![id] = marked]
    BY DEF MarkRow, Goto
<1>3. disturbed' \in BOOLEAN /\ (~disturbed' => ~disturbed /\ ~SumHeldBeside({p}))
    BY DEF MarkRow
<1>4. op[p].kind \in {"skip", "unskip"} /\ id \in DOMAIN rows
    BY <1>1, <1>2 DEF Fits, RowKinds
<1>5. rows' \in Seq(Row) /\ DOMAIN rows' = DOMAIN rows
    <2>1. rows \in Seq(Row) /\ DOMAIN rows = 1 .. Len(rows) /\ rows[id] \in Row
        BY <1>1, <1>4, LenProperties DEF Typed, StoreOK
    <2>2. marked \in Row
        BY <2>1 DEF Row
    <2>. HIDE DEF marked
    <2>. QED
        BY <1>2, <1>4, <2>1, <2>2, ExceptSeq
<1>6. /\ Fits(r, DOMAIN rows') /\ r.at = "sum" /\ r.kind = op[p].kind
    BY <1>1, <1>2, <1>5 DEF Fits, Fields, Steps
<1>7. StoreOK'
    BY <1>1, <1>2, <1>3, <1>5 DEF Typed, StoreOK
<1>. HIDE DEF r, id, marked
<1>8. Typed'
    BY <1>1, <1>2, <1>5, <1>6, <1>7, RequestFits
<1>9. ~disturbed' => SumsHold'
    BY <1>1, <1>2, <1>3, <1>4, <1>6, SumsMove
<1>. QED
    BY <1>8, <1>9, TotalsInvByRequest

LEMMA SumTotals ==
    ASSUME TotalsInv, NEW p \in Processes, SumRows(p) \/ CompareTotals(p)
    PROVE  TotalsInv'
<1>1. Typed /\ Fits(op[p], DOMAIN rows) /\ (~disturbed => SumsHold)
    BY TotalsInvByRequest DEF Typed
<1>2. UNCHANGED <<day, rows, past, unlock, left, disturbed>>
    BY DEF SumRows, CompareTotals
<1>3. StoreOK'
    BY <1>1, <1>2, StoreStays
<1>4. CASE SumRows(p)
    <2>. DEFINE sum == Totals(Seen(p))
                r == [op[p] EXCEPT !.at = "total", !.totals = sum]
    <2>1. op[p].at = "sum" /\ op' = [op EXCEPT ![p] = r]
        BY <1>4 DEF SumRows
    <2>2. sum \in Amounts /\ DOMAIN sum = Columns
        BY <1>1, SeenType, TotalsType
    <2>3. \A c \in Columns : sum[c] \in Nat
        BY <2>2 DEF Amounts, Columns
    <2>. HIDE DEF sum
    <2>4. Fits(r, DOMAIN rows') /\ r.at = "total" /\ r.kind = op[p].kind /\ r.totals = sum
          /\ r.patch = op[p].patch /\ r.added = op[p].added
        BY <1>1, <1>2, <2>1, <2>2, <2>3 DEF Fits, Fields, Steps
    <2>. HIDE DEF r
    <2>5. Typed'
        BY <1>1, <1>2, <1>3, <2>1, <2>4, RequestFits
    <2>6. Totals(Seen(p))' = sum
        <3>1. op'[p] = r
            BY <1>1, <2>1 DEF Typed
        <3>2. Seen(p)' = Seen(p)
            BY <1>2, <2>4, <3>1 DEF Seen
        <3>. QED
            BY <3>2 DEF Totals, sum
    <2>7. ~disturbed' => SumsHold'
        BY <1>1, <1>2, <2>1, <2>4, <2>6, SumsMove
    <2>. QED
        BY <2>5, <2>7, TotalsInvByRequest
<1>5. CASE CompareTotals(p)
    <2>. DEFINE totals == op[p].totals
                changed == [c \in {k \in Columns : totals[k] # day.totals[k]} |-> totals[c]]
                r == [op[p] EXCEPT !.at = "store", !.totals = changed]
    <2>1. op[p].at = "total" /\ op' = [op EXCEPT ![p] = r]
        BY <1>5 DEF CompareTotals
    <2>2. DOMAIN changed \subseteq Columns /\ \A c \in DOMAIN changed : changed[c] \in Nat
        BY <1>1, <2>1 DEF Fits
    <2>3. ~disturbed => totals = Totals(Seen(p)) /\ changed = Changed(totals)
        BY <1>1, <2>1 DEF SumsHold, Changed
    <2>. HIDE DEF changed, totals
    <2>4. Fits(r, DOMAIN rows') /\ r.at = "store" /\ r.kind = op[p].kind /\ r.totals = changed
          /\ r.patch = op[p].patch /\ r.added = op[p].added
        BY <1>1, <1>2, <2>1, <2>2 DEF Fits, Fields, Steps
    <2>. HIDE DEF r
    <2>5. Typed'
        BY <1>1, <1>2, <1>3, <2>1, <2>4, RequestFits
    <2>6. Changed(Totals(Seen(p)))' = Changed(Totals(Seen(p)))
        <3>1. op'[p] = r
            BY <1>1, <2>1 DEF Typed
        <3>2. Seen(p)' = Seen(p)
            BY <1>2, <2>4, <3>1 DEF Seen
        <3>. QED
            BY <1>2, <3>2 DEF Totals, Changed
    <2>7. ~disturbed' => SumsHold'
        BY <1>1, <1>2, <2>1, <2>3, <2>4, <2>6, SumsMove
    <2>. QED
        BY <2>5, <2>7, TotalsInvByRequest
<1>. QED
    BY <1>4, <1>5

\* Whoever stores the columns that differed from its sum has stored its sum.
LEMMA StoreTotalsInv == ASSUME TotalsInv, NEW p \in Processes, StoreTotals(p) PROVE TotalsInv'
<1>. DEFINE kept == [c \in Columns |-> IF c \in DOMAIN op[p].totals
                                       THEN op[p].totals[c] ELSE day.totals[c]]
<1>1. Typed /\ Fits(op[p], DOMAIN rows) /\ (~disturbed => SumsHold)
    BY TotalsInvByRequest DEF Typed
<1>2. /\ op[p].at = "store" /\ op' = [op EXCEPT ![p] = Idle] /\ UNCHANGED <<past, unlock, left>>
      /\ rows' = Seen(p) /\ day' = [day EXCEPT !.totals = kept]
    BY DEF StoreTotals, Finish
<1>3. /\ disturbed' \in BOOLEAN
      /\ ~disturbed' => /\ ~disturbed
                        /\ rows' = rows \/ ~SumHeldBeside({p})
                        /\ day'.totals = day.totals \/ ~ComparedBeside({p})
    BY DEF StoreTotals
<1>4. kept \in Amounts
    <2>1. \A c \in Columns : day.totals[c] \in Nat
        BY <1>1 DEF Typed, StoreOK, Amounts, Columns
    <2>2. \A c \in Columns : kept[c] \in Nat
        BY <1>1, <2>1 DEF Fits
    <2>. HIDE DEF kept
    <2>3. kept = [estimated |-> kept["estimated"], actual |-> kept["actual"]]
        BY DEF Columns, kept
    <2>. QED
        BY <2>2, <2>3 DEF Amounts, Columns
<1>5. ~disturbed => kept = Totals(Seen(p))
    <2>. DEFINE sum == Totals(Seen(p))
    <2>1. DOMAIN sum = Columns /\ sum = [c \in Columns |-> sum[c]]
        BY <1>1, SeenType, TotalsType DEF Amounts, Columns
    <2>2. ~disturbed => op[p].totals = Changed(sum)
        BY <1>1, <1>2 DEF SumsHold
    <2>. HIDE DEF sum
    <2>3. ~disturbed => kept = [c \in Columns |-> sum[c]]
        BY <2>2 DEF Changed
    <2>. QED
        BY <2>1, <2>3 DEF sum
<1>. HIDE DEF kept
<1>6. StoreOK' /\ day'.totals = kept /\ DOMAIN rows \subseteq DOMAIN rows'
    BY <1>1, <1>2, <1>3, <1>4, SeenType DEF Typed, StoreOK
<1>7. Typed'
    BY <1>1, <1>2, <1>6, IdleFits, RequestFits
<1>8. ~disturbed' => SumsHold'
    <2>1. Idle.at = "idle" /\ Totals(rows)' = Totals(Seen(p))
        BY <1>2 DEF Idle, Totals
    <2>. QED
        BY <1>1, <1>2, <1>3, <1>5, <1>6, <2>1, SumsMove
<1>. QED
    BY <1>7, <1>8, TotalsInvByRequest

LEMMA ApproveTotals == ASSUME TotalsInv, NEW p \in Processes, Approve(p) PROVE TotalsInv'
<1>1. Typed /\ (~disturbed => SumsHold)
    BY TotalsInvByRequest
<1>2. /\ op[p].at = "approve" /\ op' = [op EXCEPT ![p] = Idle]
      /\ UNCHANGED <<rows, past, unlock, left>>
    BY DEF Approve, Finish
<1>3. /\ disturbed' \in BOOLEAN
      /\ ~disturbed' => ~disturbed /\ (day'.totals = day.totals \/ ~ComparedBeside({p}))
    BY DEF Approve
<1>4. \/ day' = day
      \/ day' = [day EXCEPT !.status = "approved", !.approvedAt = TRUE,
                            !.approvedLitres = PlannedLitres(rows), !.totals = Totals(rows)]
    BY DEF Approve
<1>5. Idle.at = "idle" /\ Totals(rows)' = Totals(rows)
    BY <1>2 DEF Idle, Totals
<1>6. /\ day' \in [status : Status, approvedAt : BOOLEAN, approvedLitres : Nat,
                   variance : BOOLEAN, totals : Amounts]
      /\ day' = day \/ day'.totals = Totals(rows)'
    <2>1. CASE day' = day
        BY <1>1, <2>1 DEF Typed, StoreOK
    <2>2. CASE day' # day
        <3>1. Totals(rows) \in Amounts /\ PlannedLitres(rows) \in Nat
            BY <1>1, TotalsType DEF Typed, StoreOK
        <3>. QED
            BY <1>1, <1>4, <1>5, <2>2, <3>1 DEF Typed, StoreOK, Status
    <2>. QED
        BY <2>1, <2>2
<1>7. StoreOK'
    BY <1>1, <1>2, <1>3, <1>6 DEF Typed, StoreOK
<1>8. Typed'
    BY <1>1, <1>2, <1>7, IdleFits, RequestFits
<1>9. ~disturbed' => SumsHold'
    <2>1. CASE day' = day
        BY <1>1, <1>2, <1>3, <1>5, <2>1, SumsStay
    <2>2. CASE day'.totals = Totals(rows)'
        BY <1>1, <1>2, <1>3, <1>5, <2>2, SumsMove
    <2>. QED
        BY <1>6, <2>1, <2>2
<1>. QED
    BY <1>8, <1>9, TotalsInvByRequest

LEMMA PlanTotals ==
    ASSUME TotalsInv, NEW v \in Vehicles, NEW l \in Litres, Plan(v, l)
    PROVE  TotalsInv'
<1>1. Typed /\ (~disturbed => SumsHold)
    BY TotalsInvByRequest
<1>2. /\ rows' = Append(rows, PlannedRow(v, l)) /\ UNCHANGED <<past, unlock, op, left>>
      /\ day' = [day EXCEPT !.totals = Totals(rows'),
                            !.variance = @ \/ day.status = "approved"]
    BY DEF Plan
<1>3. disturbed' \in BOOLEAN /\ (~disturbed' => ~disturbed /\ ~SumHeldBeside({}))
    BY DEF Plan
<1>4. PlannedRow(v, l) \in Row
    BY DEF PlannedRow, Row
<1>5. rows' \in Seq(Row) /\ DOMAIN rows \subseteq DOMAIN rows'
    <2>1. rows \in Seq(Row) /\ DOMAIN rows = 1 .. Len(rows) /\ Len(rows) \in Nat
        BY <1>1, LenProperties DEF Typed, StoreOK
    <2>2. rows' \in Seq(Row) /\ Len(rows') = Len(rows) + 1
        BY <1>2, <1>4, <2>1, AppendProperties
    <2>3. DOMAIN rows' = 1 .. Len(rows')
        BY <2>2, LenProperties
    <2>. QED
        BY <2>1, <2>2, <2>3
<1>6. Totals(rows') \in Amounts
    BY <1>5, TotalsType
<1>7. day'.totals = Totals(rows)'
    <2>1. Totals(rows)' = Totals(rows')
        BY DEF Totals
    <2>. QED
        BY <1>1, <1>2, <2>1 DEF Typed, StoreOK
<1>8. StoreOK'
    <2>1. day' \in [status : Status, approvedAt : BOOLEAN, approvedLitres : Nat,
                    variance : BOOLEAN, totals : Amounts]
        BY <1>1, <1>2, <1>6 DEF Typed, StoreOK
    <2>. QED
        BY <1>1, <1>2, <1>3, <1>5, <2>1 DEF Typed, StoreOK
<1>9. Typed'
    BY <1>1, <1>2, <1>5, <1>8 DEF Typed, Fits
<1>10. ~disturbed' => SumsHold'
    <2>. SUFFICES ASSUME ~disturbed' PROVE SumsHold'
        OBVIOUS
    <2>1. \A q \in Processes : op'[q].at \notin {"total", "store"}
        BY <1>2, <1>3 DEF SumHeldBeside
    <2>. QED
        BY <1>7, <2>1 DEF SumsHold
<1>. QED
    BY <1>9, <1>10, TotalsInvByRequest

LEMMA InitTotals == Init => TotalsInv
<1>. SUFFICES ASSUME Init PROVE TotalsInv
    OBVIOUS
<1>1. Idle.at = "idle" /\ \A p \in Processes : op[p] = Idle
    BY DEF Init, Idle
<1>2. NoTotals \in Amounts
    <2>1. NoTotals = [estimated |-> 0, actual |-> 0]
        BY DEF NoTotals, Columns
    <2>. QED
        BY <2>1 DEF Amounts
<1>3. StoreOK
    <2>1. day \in [status : Status, approvedAt : BOOLEAN, approvedLitres : Nat,
                   variance : BOOLEAN, totals : Amounts]
        BY <1>2 DEF Init, Status
    <2>2. MaxUnlocks \in Nat /\ MaxRequests \in Nat /\ MaxFaults \in Nat
        BY ConstantsAssumption
    <2>3. unlock \in [active : BOOLEAN, left : 0 .. MaxUnlocks]
        BY <2>2 DEF Init
    <2>4. left \in [requests : Nat, faults : Nat]
        BY <2>2 DEF Init
    <2>5. past \in BOOLEAN /\ disturbed \in BOOLEAN /\ rows \in Seq(Row)
        BY EmptySeq DEF Init
    <2>. QED
        BY <2>1, <2>3, <2>4, <2>5 DEF StoreOK
<1>4. Typed
    BY <1>1, <1>3, IdleFits DEF Init, Typed
<1>5. SumsHold
    BY <1>1, TotalsOfNothing DEF Init, SumsHold
<1>. QED
    BY <1>4, <1>5, TotalsInvByRequest

LEMMA NextTotals == TotalsInv /\ [Next]_vars => TotalsInv'
<1>. SUFFICES ASSUME TotalsInv, [Next]_vars PROVE TotalsInv'
    OBVIOUS
<1>1. ASSUME Unlock \/ UnlockExpires \/ DayLapses \/ UNCHANGED vars PROVE TotalsInv'
    <2>1. UNCHANGED <<day, rows, op, left, disturbed>> /\ Typed /\ (~disturbed => SumsHold)
        BY <1>1, TotalsInvByRequest DEF Unlock, UnlockExpires, DayLapses, vars
    <2>2. past' \in BOOLEAN /\ unlock' \in [active : BOOLEAN, left : 0 .. MaxUnlocks]
        <3>1. unlock \in [active : BOOLEAN, left : 0 .. MaxUnlocks] /\ past \in BOOLEAN
            BY <2>1 DEF Typed, StoreOK
        <3>2. MaxUnlocks \in Nat
            BY ConstantsAssumption
        <3>3. CASE Unlock
            BY <3>1, <3>2, <3>3 DEF Unlock
        <3>4. CASE UnlockExpires
            BY <3>1, <3>2, <3>4 DEF UnlockExpires
        <3>5. CASE DayLapses \/ UNCHANGED vars
            BY <3>1, <3>5 DEF DayLapses, vars
        <3>. QED
            BY <1>1, <3>3, <3>4, <3>5
    <2>3. Typed'
        BY <2>1, <2>2 DEF Typed, StoreOK
    <2>4. ~disturbed' => SumsHold'
        <3>1. \A q \in Processes : Seen(q)' = Seen(q)
            BY <2>1 DEF Seen
        <3>2. \A q \in Processes : /\ Totals(Seen(q))' = Totals(Seen(q))
                                   /\ Changed(Totals(Seen(q)))' = Changed(Totals(Seen(q)))
            BY <2>1, <3>1 DEF Totals, Changed
        <3>3. Totals(rows)' = Totals(rows)
            BY <2>1 DEF Totals
        <3>. QED
            BY <2>1, <3>2, <3>3 DEF SumsHold
    <2>. QED
        BY <2>3, <2>4, TotalsInvByRequest
<1>. QED
    BY <1>1, GateTotals, WriteTotals, MarkTotals, SumTotals, StoreTotalsInv, ApproveTotals,
       PlanTotals DEF Next, Step

\* The rows have their types, and undisturbed the totals and the sums that
\* requests hold are those of the rows they see.
THEOREM SumsInvariance == Spec => []TotalsInv
BY InitTotals, NextTotals, PTL DEF Spec

\* The day, its rows and what the requests hold have their types.
THEOREM TypeCorrect == Spec => []TypeOK
<1>1. TotalsInv => TypeOK
    BY DEF TotalsInv
<1>. QED
    BY SumsInvariance, <1>1, PTL

\* When no request is on its way to them, the totals of the day are those of its
\* rows, but for the interleavings that disturb them (refreshSessionTotals).
THEOREM TotalsRight == Spec => []TotalsAgree
<1>1. TotalsInv => TotalsAgree
    BY DEF TotalsInv, SumsHold, TotalsAgree
<1>. QED
    BY SumsInvariance, <1>1, PTL
=============================================================================
