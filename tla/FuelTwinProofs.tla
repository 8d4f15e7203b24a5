--------------------------- MODULE FuelTwinProofs ---------------------------
(***************************************************************************)
(* Proofs about FuelTwin.  The lock of the refuel row makes what a         *)
(* recording has found out about its refuel last until its commit; stamps  *)
(* are unique, so a refuel has one previous one; what went into the tank   *)
(* between two fills to the brim is what was burnt between them; and the   *)
(* replay of the rows follows the tank from one visit to the next, by      *)
(* induction over the stamps.                                              *)
(***************************************************************************)
EXTENDS FuelTwin, FiniteSetTheorems, SequenceTheorems, WellFoundedInduction, TLAPS

Learnable == {i \in intervals : i.status = "LEARNABLE"}

\* An open transaction holds the lock of its refuel, and a stamp of its own.
Recordings ==
  \A t \in Recorder :
    /\ op[t].pc = "idle" => op[t] = Idle
    /\ op[t].pc # "idle" =>
         /\ op[t].fill \in DOMAIN pump /\ op[t].row.litres > 0
         /\ op[t].row.sessionDate \in 1..stamps
         /\ \A u \in Recorder \ {t} : op[u].fill # op[t].fill
    /\ op[t].pc = "learn" => op[t].new = {}

\* No two completed rows have one sessionDate.
DatesDiffer ==
  /\ \A f \in Completed : rows[f].sessionDate \in 1..stamps
  /\ \A f, g \in Completed : rows[f].sessionDate = rows[g].sessionDate => f = g
  /\ \A t \in Recorder : op[t].pc # "idle" =>
       /\ \A f \in Completed : rows[f].sessionDate # op[t].row.sessionDate
       /\ \A u \in Recorder \ {t} :
            op[u].pc # "idle" => op[u].row.sessionDate # op[t].row.sessionDate

\* What a recording is about to learn is the first interval of its refuel.
FirstOfRefuel ==
  \A t \in Recorder :
    /\ \A i \in op[t].new : i.refuel = op[t].fill
    /\ \A i, j \in op[t].new : i = j
    /\ op[t].new # {} => \A i \in intervals : i.refuel # op[t].fill

\* No copy of the learning state counts more than the learnable intervals.
CopiesBacked ==
  /\ IsFiniteSet(intervals)
  /\ learning # Absent => learning <= Cardinality(Learnable)
  /\ \A t \in Recorder : op[t].seen # Absent => op[t].seen <= Cardinality(Learnable)

\* level: the litres in the tank after each visit to the pump.
Levels(level) ==
  /\ \A k \in DOMAIN pump : pump[k].full => level[k] = Capacity
  /\ \A k \in DOMAIN pump : k + 1 \in DOMAIN pump =>
       LET burnt == pump[k + 1].odo - pump[k].odo
       IN burnt \in 0..level[k] /\ level[k + 1] = level[k] - burnt + pump[k + 1].litres
  /\ Len(pump) > 0 =>
       LET burnt == odo - pump[Len(pump)].odo
       IN burnt \in 0..level[Len(pump)] /\ tank = level[Len(pump)] - burnt

\* Between two visits, and since the last, the tank has lost what was driven.
TankLaw == \E level \in [DOMAIN pump -> 0..Capacity] : Levels(level)

\* What a recording says of fill f, made at the pump and not planned again.
Truthful(r, f) ==
  /\ f \in DOMAIN pump /\ r.capturedAt = r.sessionDate
  /\ r.litres = pump[f].litres /\ r.mileage \in {pump[f].odo, Unread}
  /\ r.mileage = Unread => ~r.trusted
  /\ r.fill = "FULL" => pump[f].full

TankToTank(i) == i.status = "LEARNABLE" => i.km = i.litres

\* Recorded in order, the completed refuels are the first of them, in the order
\* of their dates, and one recording at most is open, for the last or the next.
InOrder ==
  /\ \A f \in Completed : Truthful(rows[f], f)
  /\ \A f \in Completed, g \in Fill :
       g < f => g \in Completed /\ rows[g].sessionDate < rows[f].sessionDate
  /\ \A t \in Recorder : op[t].pc # "idle" =>
       /\ Truthful(op[t].row, op[t].fill)
       /\ \A g \in Fill : (g < op[t].fill) = (g \in Completed \ {op[t].fill})
       /\ \A g \in Completed : rows[g].sessionDate < op[t].row.sessionDate
       /\ \A u \in Recorder \ {t} : op[u].pc = "idle"
       /\ \A i \in op[t].new : TankToTank(i)
  /\ \A i \in intervals : TankToTank(i)

\* The inductive invariant.
IInv ==
  /\ TypeOK
  /\ Recordings
  /\ DatesDiffer
  /\ OneIntervalPerRefuel /\ FirstOfRefuel
  /\ CopiesBacked
  /\ TankLaw
  /\ orderly => InOrder

-----------------------------------------------------------------------------
LEMMA Bounds ==
  /\ Capacity \in Nat \ {0} /\ MaxOdo \in Nat \ {0} /\ MaxFills \in Nat \ {0}
  /\ MaxStamps \in Nat \ {0}
BY ConstantsAssumption

LEMMA PumpDomain ==
  ASSUME TypeOK
  PROVE  /\ Len(pump) \in Nat /\ DOMAIN pump = 1..Len(pump) /\ DOMAIN pump \subseteq Fill
         /\ \A f \in DOMAIN pump : pump[f] \in Visit
BY Bounds, LenProperties DEF TypeOK, Fill

\* The visits to the pump stay what they are; new ones come after them.
LEMMA DriveInv == ASSUME IInv, Drive PROVE IInv'
<1> USE Bounds
<1>1. TypeOK'
      BY DEF IInv, TypeOK, Drive, store
<1>2. /\ rows' = rows /\ op' = op /\ stamps' = stamps /\ intervals' = intervals
      /\ learning' = learning /\ pump' = pump /\ Completed' = Completed
      BY DEF Drive, store, Completed
<1>3. Recordings' /\ DatesDiffer' /\ OneIntervalPerRefuel' /\ FirstOfRefuel' /\ CopiesBacked'
      BY <1>2 DEF IInv, Recordings, DatesDiffer, OneIntervalPerRefuel, FirstOfRefuel, CopiesBacked,
                  Learnable
<1>4. TankLaw'
  <2>1. PICK level \in [DOMAIN pump -> 0..Capacity] : Levels(level)
        BY DEF IInv, TankLaw
  <2>2. Len(pump) > 0 => /\ level[Len(pump)] \in Nat /\ pump[Len(pump)].odo \in Nat
        BY PumpDomain DEF IInv, Visit
  <2>3. /\ odo' = odo + 1 /\ tank' = tank - 1 /\ tank > 0 /\ odo \in Nat /\ tank \in Nat
        BY DEF Drive, IInv, TypeOK
  <2>4. Len(pump) > 0 =>
          LET burnt == odo' - pump[Len(pump)].odo
          IN burnt \in 0..level[Len(pump)] /\ tank' = level[Len(pump)] - burnt
        BY <2>1, <2>2, <2>3 DEF Levels
  <2>5. Levels(level)'
        BY <1>2, <2>1, <2>4 DEF Levels
  <2> QED BY <1>2, <2>1, <2>5 DEF TankLaw
<1>5. orderly' => InOrder'
      BY <1>2 DEF Drive, IInv, InOrder, Truthful, TankToTank
<1> QED BY <1>1, <1>3, <1>4, <1>5 DEF IInv

LEMMA FillUpInv == ASSUME IInv, FillUp PROVE IInv'
<1> USE Bounds
<1>1. PICK litres \in 1..(Capacity - tank) :
        /\ tank' = tank + litres
        /\ pump' = Append(pump, [odo |-> odo, litres |-> litres, full |-> tank + litres = Capacity])
      BY DEF FillUp
<1>2. /\ rows' = rows /\ op' = op /\ stamps' = stamps /\ intervals' = intervals
      /\ learning' = learning /\ odo' = odo /\ orderly' = orderly /\ Completed' = Completed
      BY DEF FillUp, store, Completed
<1> DEFINE visit == [odo |-> odo, litres |-> litres, full |-> tank + litres = Capacity]
<1>3. visit \in Visit
      BY DEF IInv, TypeOK, Visit
<1>4. /\ pump' \in Seq(Visit) /\ Len(pump') = Len(pump) + 1 /\ Len(pump) \in Nat
      /\ pump'[Len(pump) + 1] = visit /\ \A k \in 1..Len(pump) : pump'[k] = pump[k]
      BY <1>1, <1>3, AppendProperties DEF IInv, TypeOK
<1>5. DOMAIN pump' = 1..(Len(pump) + 1) /\ DOMAIN pump = 1..Len(pump)
      BY <1>4, LenProperties DEF IInv, TypeOK
<1>6. TypeOK'
      BY <1>1, <1>2, <1>4 DEF IInv, TypeOK, FillUp
<1>7. Recordings' /\ DatesDiffer' /\ OneIntervalPerRefuel' /\ FirstOfRefuel' /\ CopiesBacked'
      BY <1>2, <1>4, <1>5 DEF IInv, Recordings, DatesDiffer, OneIntervalPerRefuel, FirstOfRefuel,
                              CopiesBacked, Learnable
<1>8. TankLaw'
  <2> DEFINE n == Len(pump)
  <2>1. /\ odo \in Nat /\ tank \in Nat /\ litres \in Nat /\ Capacity \in Nat
        /\ Len(pump') = n + 1 /\ n \in Nat
        BY <1>4 DEF IInv, TypeOK
  <2>8. \A k \in 1..n : pump[k].odo \in Nat
        BY PumpDomain DEF IInv, Visit
  <2>9. /\ pump'[n + 1].odo = odo /\ pump'[n + 1].litres = litres
        /\ pump'[n + 1].full => tank + litres = Capacity
    <3>1. visit.odo = odo /\ visit.litres = litres
          OBVIOUS
    <3>2. visit.full => tank + litres = Capacity
          BY Zenon
    <3> QED BY <1>4, <3>1, <3>2
  <2>2. PICK level \in [DOMAIN pump -> 0..Capacity] : Levels(level)
        BY DEF IInv, TankLaw
  <2> DEFINE after == [k \in DOMAIN pump' |-> IF k = n + 1 THEN tank + litres ELSE level[k]]
  <2>3. /\ \A k \in 1..n : after[k] = level[k] /\ level[k] \in Nat
        /\ after[n + 1] = tank + litres
        /\ after \in [DOMAIN pump' -> 0..Capacity]
    <3>1. DOMAIN pump' = 1..(n + 1) /\ \A k \in 1..n : k \in DOMAIN pump /\ level[k] \in 0..Capacity
          BY <1>5
    <3>2. tank + litres \in 0..Capacity
          BY <2>1
    <3> HIDE DEF n
    <3>3. \A k \in 1..(n + 1) : k # n + 1 => k \in 1..n
          BY <2>1
    <3>4. n + 1 \in 1..(n + 1) /\ \A k \in 1..n : k \in 1..(n + 1) /\ k # n + 1
          BY <2>1
    <3>5. after \in [DOMAIN pump' -> 0..Capacity]
          BY <3>1, <3>2, <3>3
    <3>6. \A k \in 1..n : after[k] = level[k] /\ level[k] \in Nat
          BY <2>1, <3>1, <3>4
    <3> QED BY <3>1, <3>4, <3>5, <3>6
  <2> HIDE DEF after
  <2>4. ASSUME NEW k \in 1..(n + 1), pump'[k].full PROVE after[k] = Capacity
    <3>1. CASE k = n + 1
          BY <2>3, <2>4, <2>9, <3>1
    <3>2. CASE k # n + 1
      <4>1. k \in 1..n /\ k \in DOMAIN pump
            BY <1>5, <2>1, <3>2
      <4>2. pump[k].full
            BY <1>4, <2>4, <4>1
      <4> QED BY <2>2, <2>3, <4>1, <4>2 DEF Levels
    <3> QED BY <3>1, <3>2
  <2>5. \A k \in 1..(n - 1) : /\ k \in 1..n /\ k + 1 \in 1..n
                              /\ pump'[k + 1] = pump[k + 1] /\ pump'[k] = pump[k]
        BY <1>4
  <2>6. \A k \in 1..(n - 1) :
          LET burnt == pump'[k + 1].odo - pump'[k].odo
          IN burnt \in 0..after[k] /\ after[k + 1] = after[k] - burnt + pump'[k + 1].litres
    <3> SUFFICES ASSUME NEW k \in 1..(n - 1)
                 PROVE  LET burnt == pump'[k + 1].odo - pump'[k].odo
                        IN burnt \in 0..after[k]
                             /\ after[k + 1] = after[k] - burnt + pump'[k + 1].litres
        OBVIOUS
    <3>1. LET burnt == pump[k + 1].odo - pump[k].odo
          IN burnt \in 0..level[k] /\ level[k + 1] = level[k] - burnt + pump[k + 1].litres
          BY <1>5, <2>2, <2>5 DEF Levels
    <3>2. after[k] = level[k] /\ after[k + 1] = level[k + 1]
          BY <2>3, <2>5
    <3> QED BY <2>5, <3>1, <3>2
  <2>7. n > 0 =>
          LET burnt == pump'[n + 1].odo - pump'[n].odo
          IN burnt \in 0..after[n] /\ after[n + 1] = after[n] - burnt + pump'[n + 1].litres
        BY <1>4, <1>5, <2>1, <2>2, <2>3, <2>8, <2>9 DEF Levels
  <2>10. \A k \in 1..n : k = n \/ k \in 1..(n - 1)
        BY <2>1
  <2>11. LET burnt == odo' - pump'[n + 1].odo
         IN burnt \in 0..after[n + 1] /\ tank' = after[n + 1] - burnt
        BY <1>1, <1>2, <2>1, <2>3, <2>9
  <2>12. \A k \in DOMAIN pump' : k + 1 \in DOMAIN pump' => k \in 1..n
        BY <1>5, <2>1
  <2>13. \A k \in DOMAIN pump' : k + 1 \in DOMAIN pump' =>
          LET burnt == pump'[k + 1].odo - pump'[k].odo
          IN burnt \in 0..after[k] /\ after[k + 1] = after[k] - burnt + pump'[k + 1].litres
        BY <2>6, <2>7, <2>10, <2>12
  <2> QED BY <1>5, <2>1, <2>3, <2>4, <2>11, <2>13 DEF TankLaw, Levels
<1>9. orderly' => InOrder'
  <2>1. \A r, f : Truthful(r, f) => Truthful(r, f)'
        BY <1>4, <1>5 DEF Truthful
  <2> QED BY <1>2, <2>1 DEF IInv, InOrder, TankToTank
<1> QED BY <1>6, <1>7, <1>8, <1>9 DEF IInv

LEMMA EditPlanInv == ASSUME IInv, EditPlan PROVE IInv'
<1> USE Bounds
<1>1. PICK f \in Completed : /\ \A t \in Recorder : op[t].fill # f
                             /\ rows' = [rows EXCEPT ![f].sessionDate = stamps + 1]
      BY DEF EditPlan
<1>2. /\ pump' = pump /\ tank' = tank /\ odo' = odo /\ op' = op /\ intervals' = intervals
      /\ learning' = learning /\ stamps' = stamps + 1 /\ stamps < MaxStamps
      BY DEF EditPlan, world
<1>3. orderly' = FALSE
      BY DEF EditPlan
<1>4. f \in Fill /\ rows \in [Fill -> Row] /\ stamps \in 0..MaxStamps
      BY DEF IInv, TypeOK, Completed
<1>5. rows' \in [Fill -> Row]
      BY <1>1, <1>2, <1>4 DEF Row
<1>6. TypeOK'
  <2>1. orderly' \in BOOLEAN
        BY <1>3
  <2> QED BY <1>2, <1>5, <2>1 DEF IInv, TypeOK
<1>7. /\ Completed' = Completed /\ rows'[f].sessionDate = stamps + 1
      /\ \A g \in Completed \ {f} : rows'[g].sessionDate = rows[g].sessionDate
      BY <1>1, <1>4 DEF Completed, Row
<1>8. DatesDiffer'
  <2>1. \A g \in Completed : rows[g].sessionDate # stamps + 1
        BY <1>4 DEF IInv, DatesDiffer
  <2>2. \A t \in Recorder : op[t].pc # "idle" => op[t].row.sessionDate # stamps + 1
        BY <1>4 DEF IInv, Recordings
  <2>3. \A g \in Completed : rows'[g].sessionDate \in 1..(stamps + 1)
        BY <1>4, <1>7 DEF IInv, DatesDiffer
  <2> QED BY <1>2, <1>4, <1>7, <2>1, <2>2, <2>3 DEF IInv, DatesDiffer
<1>9. Recordings' /\ OneIntervalPerRefuel' /\ FirstOfRefuel' /\ CopiesBacked'
      BY <1>2, <1>4 DEF IInv, Recordings, OneIntervalPerRefuel, FirstOfRefuel, CopiesBacked, Learnable
<1>10. TankLaw'
      BY <1>2 DEF IInv, TankLaw, Levels
<1> QED BY <1>3, <1>6, <1>8, <1>9, <1>10 DEF IInv

-----------------------------------------------------------------------------
\* What changes when a recording moves: its transaction, and nothing of the others'.
LEMMA RollbackInv ==
  ASSUME IInv, NEW t \in Recorder, Rollback(t)
  PROVE  IInv'
<1>1. /\ op' = [op EXCEPT ![t] = Idle]
      /\ rows' = rows /\ pump' = pump /\ tank' = tank /\ odo' = odo /\ intervals' = intervals
      /\ learning' = learning /\ stamps' = stamps /\ orderly' = orderly
      /\ Completed' = Completed
      BY DEF Rollback, world, store, Completed
<1>2. Idle \in Op
      BY Bounds DEF Idle, Op, NoRow, Row, Unread
<1>3. /\ op' \in [Recorder -> Op] /\ op'[t] = Idle
      /\ \A u \in Recorder \ {t} : op'[u] = op[u]
      BY <1>1, <1>2 DEF IInv, TypeOK
<1>4. TypeOK'
      BY <1>1, <1>3 DEF IInv, TypeOK
<1>5. Idle.pc = "idle" /\ Idle.new = {} /\ Idle.fill = 0 /\ Idle.seen = Absent
      BY DEF Idle
<1>6. 0 \notin DOMAIN pump
      BY PumpDomain DEF IInv
<1>7. Recordings'
      BY <1>1, <1>3, <1>5, <1>6 DEF IInv, Recordings
<1>8. DatesDiffer'
      BY <1>1, <1>3, <1>5 DEF IInv, DatesDiffer
<1>9. OneIntervalPerRefuel' /\ FirstOfRefuel' /\ TankLaw'
      BY <1>1, <1>3, <1>5 DEF IInv, OneIntervalPerRefuel, FirstOfRefuel, TankLaw, Levels
<1>11. CopiesBacked'
  <2>1. Learnable' = Learnable
        BY <1>1 DEF Learnable
  <2> QED BY <1>1, <1>3, <1>5, <2>1 DEF IInv, CopiesBacked
<1>10. orderly' => InOrder'
      BY <1>1, <1>3, <1>5 DEF IInv, InOrder, Truthful, TankToTank
<1> QED BY <1>4, <1>7, <1>8, <1>9, <1>10, <1>11 DEF IInv

LEMMA CaptureIs ==
  ASSUME IInv, NEW f \in DOMAIN pump, NEW capture \in Captures(f)
  PROVE  /\ capture[1] \in {pump[f].odo, odo, Unread} /\ capture[2] \in BOOLEAN
         /\ capture[1] = Unread => ~capture[2]
<1>1. capture \in {<<pump[f].odo, TRUE>>, <<pump[f].odo, FALSE>>, <<odo, TRUE>>, <<Unread, FALSE>>}
  <2> DEFINE c == [typed       |-> <<pump[f].odo, TRUE>>,
                   typed_blind |-> <<pump[f].odo, FALSE>>,
                   live        |-> <<odo, TRUE>>,
                   none        |-> <<Unread, FALSE>>]
  <2>1. PICK source \in Source : capture = c[source]
        BY DEF Captures
  <2>2. source \in {"typed", "typed_blind", "live", "none"}
        BY ConstantsAssumption
  <2>3. /\ c["typed"] = <<pump[f].odo, TRUE>> /\ c["typed_blind"] = <<pump[f].odo, FALSE>>
        /\ c["live"] = <<odo, TRUE>> /\ c["none"] = <<Unread, FALSE>>
        OBVIOUS
  <2> QED BY <2>1, <2>2, <2>3
<1>2. pump[f].odo # Unread /\ odo # Unread
      BY PumpDomain DEF IInv, TypeOK, Visit, Unread
<1>3. CASE capture = <<pump[f].odo, TRUE>>
      BY <1>2, <1>3
<1>4. CASE capture = <<pump[f].odo, FALSE>>
      BY <1>2, <1>4
<1>5. CASE capture = <<odo, TRUE>>
      BY <1>2, <1>5
<1>6. CASE capture = <<Unread, FALSE>>
      BY <1>6
<1> QED BY <1>1, <1>3, <1>4, <1>5, <1>6

LEMMA UpdateInv ==
  ASSUME IInv, NEW t \in Recorder, Update(t)
  PROVE  IInv'
<1> USE Bounds
<1>0. PICK f \in DOMAIN pump :
        /\ \A u \in Recorder : op[u].fill # f
        /\ \E fill \in Classifications(f), capture \in Captures(f) :
             /\ op' = [op EXCEPT ![t] =
                     [Idle EXCEPT !.pc = "learn", !.fill = f,
                        !.row = [litres |-> pump[f].litres, mileage |-> capture[1],
                                 trusted |-> capture[2], fill |-> fill,
                                 capturedAt |-> stamps + 1, sessionDate |-> stamps + 1]]]
             /\ orderly' = (orderly /\ InTurn(f, capture[1]))
      BY DEF Update
<1>1. PICK fill \in Classifications(f), capture \in Captures(f) :
        /\ op' = [op EXCEPT ![t] =
                [Idle EXCEPT !.pc = "learn", !.fill = f,
                   !.row = [litres |-> pump[f].litres, mileage |-> capture[1],
                            trusted |-> capture[2], fill |-> fill,
                            capturedAt |-> stamps + 1, sessionDate |-> stamps + 1]]]
        /\ orderly' = (orderly /\ InTurn(f, capture[1]))
      BY <1>0
<1> DEFINE r == [litres |-> pump[f].litres, mileage |-> capture[1],
                 trusted |-> capture[2], fill |-> fill,
                 capturedAt |-> stamps + 1, sessionDate |-> stamps + 1]
           o == [Idle EXCEPT !.pc = "learn", !.fill = f, !.row = r]
<1>14. op' = [op EXCEPT ![t] = o]
      BY <1>1
<1>2. /\ rows' = rows /\ pump' = pump /\ tank' = tank /\ odo' = odo /\ intervals' = intervals
      /\ learning' = learning /\ stamps' = stamps + 1 /\ stamps < MaxStamps
      /\ Completed' = Completed /\ op[t] = Idle
      BY DEF Update, world, store, Completed
<1>3. f \in Fill /\ pump[f] \in Visit /\ fill \in {"FULL", "PARTIAL", "UNKNOWN"}
      BY PumpDomain DEF IInv, Classifications
<1>4. /\ capture[1] \in {pump[f].odo, odo, Unread} /\ capture[2] \in BOOLEAN
      /\ capture[1] = Unread => ~capture[2]
      BY CaptureIs
<1>5. r \in Row /\ r.litres > 0
      BY <1>2, <1>3, <1>4 DEF Row, Visit, IInv, TypeOK, Unread
<1>6. o \in Op /\ o.pc = "learn" /\ o.fill = f /\ o.row = r /\ o.new = {} /\ o.seen = Absent
  <2> HIDE DEF r
  <2>1. Idle \in Op /\ Idle.new = {} /\ Idle.seen = Absent
        BY DEF Idle, Op, NoRow, Row, Unread
  <2>2. f \in 0..MaxFills
        BY <1>3 DEF Fill
  <2>3. /\ "learn" \in {"idle", "learn", "commit"}
        /\ DOMAIN Idle = {"pc", "fill", "row", "new", "seen"}
        BY DEF Idle
  <2> QED BY <1>5, <2>1, <2>2, <2>3 DEF Op
<1> HIDE DEF r, o
<1>7. op' \in [Recorder -> Op] /\ op'[t] = o /\ \A u \in Recorder \ {t} : op'[u] = op[u]
      BY <1>14, <1>6 DEF IInv, TypeOK
<1>8. TypeOK'
  <2>1. orderly' \in BOOLEAN
        BY <1>1, Zenon DEF IInv, TypeOK
  <2> QED BY <1>2, <1>7, <2>1 DEF IInv, TypeOK
<1>9. Recordings'
  <2>1. o.row.sessionDate \in 1..(stamps + 1) /\ \A n \in 1..stamps : n \in 1..(stamps + 1)
        BY <1>6 DEF IInv, TypeOK, r
  <2>2. op'[t].pc # "idle" /\ op'[t].fill = f /\ op'[t].row.litres > 0 /\ op'[t].new = {}
        BY <1>5, <1>6, <1>7
  <2>3. \A u \in Recorder \ {t} : op'[u].fill # f
        BY <1>0, <1>7
  <2> QED BY <1>2, <1>6, <1>7, <2>1, <2>2, <2>3 DEF IInv, Recordings
<1>10. DatesDiffer'
  <2>1. \A g \in Completed : rows[g].sessionDate \in 1..stamps
        BY DEF IInv, DatesDiffer
  <2>2. \A u \in Recorder : op[u].pc # "idle" => op[u].row.sessionDate \in 1..stamps
        BY DEF IInv, Recordings
  <2>3. o.row.sessionDate = stamps + 1 /\ stamps \in Nat
        BY <1>6 DEF IInv, TypeOK, r
  <2> QED BY <1>2, <1>6, <1>7, <2>1, <2>2, <2>3 DEF IInv, DatesDiffer, Idle
<1>11. OneIntervalPerRefuel' /\ FirstOfRefuel'
      BY <1>2, <1>6, <1>7 DEF IInv, OneIntervalPerRefuel, FirstOfRefuel
<1>15. TankLaw'
      BY <1>2 DEF IInv, TankLaw, Levels
<1>13. CopiesBacked'
  <2>1. Learnable' = Learnable
        BY <1>2 DEF Learnable
  <2> QED BY <1>2, <1>6, <1>7, <2>1 DEF IInv, CopiesBacked
<1>12. ASSUME orderly' PROVE InOrder'
  <2>1. orderly /\ InTurn(f, capture[1])
        BY <1>1, <1>12, Zenon
  <2>2. Truthful(r, f)
        BY <1>4, <2>1 DEF Truthful, InTurn, Classifications, r
  <2>3. \A g \in Completed : rows[g].sessionDate < stamps + 1
        BY DEF IInv, DatesDiffer, TypeOK
  <2>4. \A u \in Recorder : op[u] = Idle
        BY <2>1 DEF InTurn
  <2>5. \A g \in Fill : (g < f) = (g \in Completed \ {f})
        BY <2>1 DEF InTurn
  <2>6. \A u \in Recorder \ {t} : op'[u].pc = "idle"
        BY <1>7, <2>4 DEF Idle
  <2>7. \A q, g : Truthful(q, g)' <=> Truthful(q, g)
        BY <1>2 DEF Truthful
  <2>8. r.sessionDate = stamps + 1
        BY DEF r
  <2>9. \A u \in Recorder : op'[u].pc # "idle" => u = t /\ op'[u] = o
        BY <1>7, <2>6
  <2> QED BY <1>2, <1>6, <2>1, <2>2, <2>3, <2>5, <2>7, <2>8, <2>9 DEF IInv, InOrder, TankToTank
<1> QED BY <1>8, <1>9, <1>10, <1>11, <1>12, <1>13, <1>15 DEF IInv

\* A refuel has one previous one at most, and in order it is the one before.
LEMMA PreviousIs ==
  ASSUME IInv, NEW f \in Fill, NEW g \in Previous(f)
  PROVE  /\ g \in Completed /\ f \in Completed /\ g # f
         /\ \A h \in Previous(f) : h = g
         /\ orderly /\ (\A h \in Fill : (h < f) = (h \in Completed \ {f})) => g = f - 1
<1>1. /\ g \in Completed /\ f \in Completed /\ g # f /\ rows[g].sessionDate < rows[f].sessionDate
      /\ \A h \in Completed \ {f} : rows[h].sessionDate < rows[f].sessionDate
           => rows[h].sessionDate <= rows[g].sessionDate
      BY DEF Previous
<1>2. \A h \in Completed : rows[h].sessionDate \in Int
      BY DEF IInv, DatesDiffer
<1>3. ASSUME NEW h \in Previous(f) PROVE h = g
      BY <1>1, <1>2 DEF Previous, IInv, DatesDiffer
<1>4. ASSUME orderly, \A h \in Fill : (h < f) = (h \in Completed \ {f}) PROVE g = f - 1
  <2>1. g \in Fill /\ f \in Nat /\ g \in Nat /\ g < f
        BY <1>1, <1>4 DEF Completed, Fill
  <2>2. CASE g < f - 1
    <3>1. f - 1 \in Fill /\ f - 1 < f
          BY <2>1, <2>2, Bounds DEF Fill
    <3>2. f - 1 \in Completed \ {f}
          BY <1>4, <3>1
    <3>3. rows[f - 1].sessionDate < rows[f].sessionDate
          BY <1>1, <1>4, <3>1 DEF IInv, InOrder
    <3>4. rows[g].sessionDate < rows[f - 1].sessionDate
          BY <1>4, <2>1, <2>2, <3>2 DEF IInv, InOrder
    <3> QED BY <1>1, <1>2, <3>2, <3>3, <3>4
  <2> QED BY <2>1, <2>2
<1> QED BY <1>1, <1>3, <1>4

\* What validateInterval answers of two recordings of consecutive fills.
LEMMA LearnableIsFull ==
  ASSUME IInv, NEW f \in DOMAIN pump, f - 1 \in DOMAIN pump, NEW p \in Row, NEW q \in Row,
         Truthful(p, f - 1), Truthful(q, f), Validated(p, q) = "LEARNABLE"
  PROVE  q.mileage - p.mileage = q.litres
<1>1. p.trusted /\ q.trusted /\ p.fill = "FULL" /\ q.fill = "FULL"
  <2>1. ~(p.trusted /\ q.trusted) => Validated(p, q) # "LEARNABLE"
        BY DEF Validated
  <2>2. ~(p.fill = "FULL" /\ q.fill = "FULL") => Validated(p, q) # "LEARNABLE"
        BY DEF Validated
  <2> QED BY <2>1, <2>2
<1>2. /\ p.mileage = pump[f - 1].odo /\ q.mileage = pump[f].odo /\ q.litres = pump[f].litres
      /\ pump[f - 1].full /\ pump[f].full
      BY <1>1 DEF Truthful
<1>3. f - 1 \in 1..(Len(pump) - 1) /\ (f - 1) + 1 = f
      BY PumpDomain DEF IInv
<1>4. pump[f].litres = pump[f].odo - pump[f - 1].odo
  <2>1. PICK level \in [DOMAIN pump -> 0..Capacity] : Levels(level)
        BY DEF IInv, TankLaw
  <2>2. level[f] = Capacity /\ level[f - 1] = Capacity
        BY <1>2, <2>1 DEF Levels
  <2>3. level[f] = level[f - 1] - (pump[f].odo - pump[f - 1].odo) + pump[f].litres
        BY <1>3, <2>1 DEF Levels
  <2>4. pump[f] \in Visit /\ pump[f - 1] \in Visit /\ Capacity \in Nat
        BY PumpDomain, Bounds DEF IInv
  <2> QED BY <2>2, <2>3, <2>4 DEF Visit
<1> QED BY <1>2, <1>4

LEMMA PairInv ==
  ASSUME IInv, NEW t \in Recorder, Pair(t)
  PROVE  IInv'
<1> USE Bounds
<1> DEFINE f == op[t].fill
           r == op[t].row
           interval(g) == [refuel |-> f, previous |-> g, km |-> r.mileage - rows[g].mileage,
                           litres |-> r.litres, status |-> Validated(rows[g], r),
                           eventAt |-> r.sessionDate]
           previous == IF \E i \in intervals : i.refuel = f THEN {} ELSE Previous(f)
           new == {interval(g) : g \in previous}
<1>1. /\ op[t].pc = "learn"
      /\ op' = [op EXCEPT ![t].pc = "commit", ![t].seen = learning, ![t].new = new]
      BY DEF Pair
<1>2. /\ rows' = rows /\ pump' = pump /\ tank' = tank /\ odo' = odo /\ intervals' = intervals
      /\ learning' = learning /\ stamps' = stamps /\ orderly' = orderly /\ Completed' = Completed
      /\ Learnable' = Learnable
      BY DEF Pair, world, store, Completed, Learnable
<1>3. /\ op[t] \in Op /\ r \in Row /\ f \in DOMAIN pump /\ f \in Fill /\ r.litres > 0
      /\ r.sessionDate \in 1..MaxStamps /\ \A g \in Completed : rows[g] \in Row /\ g \in Fill
      BY <1>1, PumpDomain DEF IInv, TypeOK, Recordings, Op, Completed
<1>4. \A g \in previous : g \in Previous(f)
      OBVIOUS
<1>5. ASSUME NEW g \in previous PROVE interval(g) \in Interval
  <2>1. g \in Fill /\ rows[g] \in Row
        BY <1>3, <1>4, PreviousIs
  <2>2. r.mileage - rows[g].mileage \in (-MaxOdo)..MaxOdo
        BY <1>3, <2>1 DEF Row
  <2>3. Validated(rows[g], r) \in Status
        BY DEF Validated, Status
  <2>4. r.litres \in 1..Capacity
        BY <1>3 DEF Row
  <2> HIDE DEF r, f
  <2> QED BY <1>3, <2>1, <2>2, <2>3, <2>4 DEF Interval
<1>6. /\ new \subseteq Interval
      /\ \A i \in new : i.refuel = f
      /\ \A i, j \in new : i = j
      /\ new # {} => \A i \in intervals : i.refuel # f
  <2>1. \A g, h \in previous : g = h
        BY <1>3, <1>4, PreviousIs
  <2>2. \A g \in previous : interval(g).refuel = f
        OBVIOUS
  <2>3. \A i \in new : \E g \in previous : i = interval(g)
        OBVIOUS
  <2>4. new # {} => \A i \in intervals : i.refuel # f
        OBVIOUS
  <2> HIDE DEF interval, previous, f
  <2> QED BY <1>5, <2>1, <2>2, <2>3, <2>4
<1>7. orderly => \A i \in new : TankToTank(i)
  <2> SUFFICES ASSUME orderly, NEW g \in previous, Validated(rows[g], r) = "LEARNABLE"
               PROVE  r.mileage - rows[g].mileage = r.litres
      BY DEF TankToTank
  <2>1. InOrder
        BY DEF IInv
  <2>2. g = f - 1 /\ g \in Completed
        BY <1>1, <1>3, <1>4, <2>1, PreviousIs DEF InOrder
  <2>3. Truthful(rows[g], g) /\ Truthful(r, f)
        BY <1>1, <2>1, <2>2 DEF InOrder
  <2>4. g \in DOMAIN pump /\ rows[g] \in Row
        BY <1>3, <2>2, <2>3 DEF Truthful
  <2> QED BY <1>3, <2>2, <2>3, <2>4, LearnableIsFull
<1> HIDE DEF new, previous, interval
<1>8. /\ op' \in [Recorder -> Op] /\ op'[t].pc = "commit" /\ op'[t].new = new
      /\ op'[t].seen = learning /\ op'[t].row = r /\ op'[t].fill = f
      /\ \A u \in Recorder \ {t} : op'[u] = op[u]
  <2>1. learning \in {Absent} \cup Nat
        BY DEF IInv, TypeOK
  <2> HIDE DEF r, f
  <2>2. /\ op \in [Recorder -> Op] /\ op[t].row = r /\ op[t].fill = f
        BY DEF IInv, TypeOK, r, f
  <2> QED BY <1>1, <1>6, <2>1, <2>2 DEF Op
<1> HIDE DEF r, f
<1>9. op[t].fill = f /\ op[t].row = r
      BY DEF r, f
<1>10. TypeOK'
      BY <1>2, <1>8 DEF IInv, TypeOK
<1>11. Recordings' /\ DatesDiffer'
      BY <1>1, <1>2, <1>8, <1>9 DEF IInv, Recordings, DatesDiffer
<1>12. OneIntervalPerRefuel' /\ FirstOfRefuel'
      BY <1>2, <1>6, <1>8 DEF IInv, OneIntervalPerRefuel, FirstOfRefuel
<1>13. CopiesBacked' /\ TankLaw'
      BY <1>2, <1>8 DEF IInv, CopiesBacked, TankLaw, Levels
<1>14. orderly' => InOrder'
  <2>1. \A q, g : Truthful(q, g)' <=> Truthful(q, g)
        BY <1>2 DEF Truthful
  <2>2. \A i : TankToTank(i)' <=> TankToTank(i)
        BY DEF TankToTank
  <2> QED BY <1>1, <1>2, <1>7, <1>8, <1>9, <2>1, <2>2 DEF IInv, InOrder
<1> QED BY <1>10, <1>11, <1>12, <1>13, <1>14 DEF IInv

\* One more interval is one more learnable interval at most, and exactly one when
\* it is learnable and new.
LEMMA LearnableGrows ==
  ASSUME IInv, NEW t \in Recorder, intervals' = intervals \cup op[t].new
  PROVE  /\ IsFiniteSet(intervals')
         /\ Cardinality(Learnable) \in Nat /\ Cardinality(Learnable') \in Nat
         /\ Cardinality(Learnable) <= Cardinality(Learnable')
         /\ (\E i \in op[t].new : i.status = "LEARNABLE")
              => Cardinality(Learnable') = Cardinality(Learnable) + 1
<1>1. \A i, j \in op[t].new : i = j
      BY DEF IInv, FirstOfRefuel
<1>2. IsFiniteSet(op[t].new)
  <2>1. CASE op[t].new = {}
        BY <2>1, FS_EmptySet
  <2>2. CASE op[t].new # {}
    <3>1. PICK i \in op[t].new : TRUE
          BY <2>2
    <3>2. op[t].new = {i}
          BY <1>1, <3>1
    <3> QED BY <3>2, FS_Singleton
  <2> QED BY <2>1, <2>2
<1>3. IsFiniteSet(intervals')
      BY <1>2, FS_Union DEF IInv, CopiesBacked
<1>4. IsFiniteSet(Learnable) /\ IsFiniteSet(Learnable') /\ Learnable \subseteq Learnable'
  <2>1. IsFiniteSet(intervals)
        BY DEF IInv, CopiesBacked
  <2> QED BY <1>3, <2>1, FS_Subset DEF Learnable
<1>5. ASSUME NEW i \in op[t].new, i.status = "LEARNABLE"
      PROVE  Cardinality(Learnable') = Cardinality(Learnable) + 1
  <2>1. i \notin Learnable
        BY DEF IInv, FirstOfRefuel, Learnable
  <2>2. Learnable' = Learnable \cup {i}
        BY <1>1, <1>5 DEF Learnable
  <2> QED BY <1>4, <2>1, <2>2, FS_AddElement
<1> QED BY <1>3, <1>4, <1>5, FS_Subset, FS_CardinalityType

LEMMA CommitInv ==
  ASSUME IInv, NEW t \in Recorder, Commit(t)
  PROVE  IInv'
<1> USE Bounds
<1> DEFINE f == op[t].fill
           r == op[t].row
           new == op[t].new
<1>1. /\ op[t].pc = "commit"
      /\ rows' = [rows EXCEPT ![f] = r] /\ intervals' = intervals \cup new
      /\ learning' = IF new = {} THEN learning ELSE Learnt(op[t].seen, new)
      /\ op' = [op EXCEPT ![t] = Idle]
      BY DEF Commit
<1>2. /\ pump' = pump /\ tank' = tank /\ odo' = odo /\ stamps' = stamps /\ orderly' = orderly
      BY DEF Commit, world
<1>3. /\ op[t] \in Op /\ r \in Row /\ f \in DOMAIN pump /\ f \in Fill /\ r.litres > 0
      /\ r.sessionDate \in 1..stamps /\ new \subseteq Interval
      BY <1>1, PumpDomain DEF IInv, TypeOK, Recordings, Op
<1>4. Idle \in Op /\ Idle.pc = "idle" /\ Idle.new = {} /\ Idle.fill = 0 /\ Idle.seen = Absent
      BY DEF Idle, Op, NoRow, Row, Unread
<1>5. op' \in [Recorder -> Op] /\ op'[t] = Idle /\ \A u \in Recorder \ {t} : op'[u] = op[u]
      BY <1>1, <1>4 DEF IInv, TypeOK
<1>6. /\ rows' \in [Fill -> Row] /\ rows'[f] = r /\ \A g \in Fill \ {f} : rows'[g] = rows[g]
      /\ Completed' = Completed \cup {f}
  <2>1. rows' \in [Fill -> Row] /\ rows'[f] = r /\ \A g \in Fill \ {f} : rows'[g] = rows[g]
        BY <1>1, <1>3 DEF IInv, TypeOK
  <2> HIDE DEF f, r
  <2> QED BY <1>3, <2>1 DEF Completed
<1>7. learning' \in {Absent} \cup Nat /\ (learning' # Absent => learning' <= Cardinality(Learnable'))
  <2>1. CASE new = {}
    <3>1. learning' = learning /\ Learnable' = Learnable
          BY <1>1, <2>1 DEF Learnable
    <3> QED BY <3>1 DEF IInv, TypeOK, CopiesBacked
  <2>2. CASE new # {}
    <3>1. op[t].seen \in {Absent} \cup Nat /\ (op[t].seen # Absent => op[t].seen <= Cardinality(Learnable))
          BY <1>3 DEF IInv, CopiesBacked, Op
    <3>2. PICK before \in Nat :
            /\ before <= Cardinality(Learnable)
            /\ learning' = IF \E i \in new : i.status = "LEARNABLE" THEN before + 1 ELSE before
      <4>1. Cardinality(Learnable) \in Nat
            BY <1>1, LearnableGrows
      <4>2. learning' = Learnt(op[t].seen, new)
            BY <1>1, <2>2
      <4>3. CASE op[t].seen = Absent
            BY <4>1, <4>2, <4>3 DEF Learnt
      <4>4. CASE op[t].seen # Absent
            BY <3>1, <4>1, <4>2, <4>4 DEF Learnt
      <4> QED BY <4>3, <4>4
    <3> QED BY <1>1, <3>2, LearnableGrows DEF Absent
  <2> QED BY <2>1, <2>2
<1> HIDE DEF f, r, new
<1>8. op[t].fill = f /\ op[t].row = r /\ op[t].new = new
      BY DEF f, r, new
<1>9. TypeOK'
      BY <1>1, <1>2, <1>3, <1>5, <1>6, <1>7 DEF IInv, TypeOK
<1>10. Recordings'
      BY <1>2, <1>4, <1>5, PumpDomain DEF IInv, Recordings
<1>11. DatesDiffer'
  <2>1. \A g \in Completed : g \in Fill /\ rows[g].sessionDate # r.sessionDate
        BY <1>1, <1>8 DEF IInv, DatesDiffer, Completed
  <2>2. \A u \in Recorder \ {t} : op[u].pc # "idle" => op[u].row.sessionDate # r.sessionDate
        BY <1>1, <1>8 DEF IInv, DatesDiffer
  <2> QED BY <1>2, <1>3, <1>4, <1>5, <1>6, <2>1, <2>2 DEF IInv, DatesDiffer
<1>12. OneIntervalPerRefuel'
      BY <1>1, <1>8 DEF IInv, OneIntervalPerRefuel, FirstOfRefuel
<1>13. FirstOfRefuel'
  <2>1. \A u \in Recorder \ {t} : op[u].fill # f
        BY <1>1, <1>8 DEF IInv, Recordings
  <2>2. \A i \in new : i.refuel = f
        BY <1>8 DEF IInv, FirstOfRefuel
  <2> QED BY <1>1, <1>4, <1>5, <2>1, <2>2 DEF IInv, FirstOfRefuel
<1>14. CopiesBacked'
  <2>1. /\ IsFiniteSet(intervals') /\ Cardinality(Learnable) \in Nat
        /\ Cardinality(Learnable') \in Nat /\ Cardinality(Learnable) <= Cardinality(Learnable')
        BY <1>1, <1>8, LearnableGrows
  <2>2. \A u \in Recorder : op[u].seen \in {Absent} \cup Nat
        BY DEF IInv, TypeOK, Op
  <2> QED BY <1>4, <1>5, <1>7, <2>1, <2>2 DEF IInv, CopiesBacked
<1>15. TankLaw'
      BY <1>2 DEF IInv, TankLaw, Levels
<1>16. ASSUME orderly' PROVE InOrder'
  <2>1. InOrder
        BY <1>2, <1>16 DEF IInv
  <2>3. \A u \in Recorder : op'[u].pc = "idle"
        BY <1>1, <1>4, <1>5, <2>1 DEF InOrder
  <2>4. Truthful(r, f) /\ (\A i \in new : TankToTank(i))
        BY <1>1, <1>8, <2>1 DEF InOrder
  <2>5. \A g \in Fill : (g < f) = (g \in Completed \ {f})
        BY <1>1, <1>8, <2>1 DEF InOrder
  <2>6. \A g \in Completed : rows[g].sessionDate < r.sessionDate
        BY <1>1, <1>8, <2>1 DEF InOrder
  <2>7. \A g \in Completed' : Truthful(rows[g], g)'
    <3>1. \A g \in Completed' : Truthful(rows'[g], g)
          BY <1>6, <2>1, <2>4 DEF InOrder, Completed
    <3> QED BY <1>2, <3>1 DEF Truthful
  <2>8. ASSUME NEW h \in Completed', NEW g \in Fill, g < h
        PROVE  g \in Completed' /\ rows'[g].sessionDate < rows'[h].sessionDate
    <3>1. g \in Completed /\ g # f
      <4>1. CASE h = f
            BY <2>5, <2>8, <4>1 DEF Fill
      <4>2. CASE h # f
        <5>1. h \in Completed \ {f} /\ h \in Fill
              BY <1>6, <4>2 DEF Completed
        <5>2. h < f /\ g < f
              BY <1>3, <2>5, <2>8, <5>1 DEF Fill
        <5> QED BY <1>3, <2>5, <5>2 DEF Fill
      <4> QED BY <4>1, <4>2
    <3> QED BY <1>6, <2>1, <2>6, <2>8, <3>1 DEF InOrder, Completed
  <2>9. \A i \in intervals' : TankToTank(i)
        BY <1>1, <2>1, <2>4 DEF InOrder
  <2> QED BY <2>3, <2>7, <2>8, <2>9 DEF InOrder, TankToTank
<1> QED BY <1>9, <1>10, <1>11, <1>12, <1>13, <1>14, <1>15, <1>16 DEF IInv

-----------------------------------------------------------------------------
LEMMA InitInv == Init => IInv
<1> SUFFICES ASSUME Init PROVE IInv
    OBVIOUS
<1> USE Bounds
<1>1. NoRow \in Row /\ NoRow.litres = 0
      BY DEF NoRow, Row, Unread
<1>2. Idle \in Op /\ Idle.pc = "idle" /\ Idle.new = {} /\ Idle.fill = 0 /\ Idle.seen = Absent
      BY <1>1 DEF Idle, Op
<1>3. pump = <<>> /\ pump \in Seq(Visit) /\ Len(pump) = 0
      BY EmptySeq DEF Init
<1>4. Completed = {} /\ Learnable = {}
      BY <1>1 DEF Init, Completed, Learnable
<1>5. TypeOK
      BY <1>1, <1>2, <1>3 DEF Init, TypeOK
<1>6. CopiesBacked
      BY <1>2, FS_EmptySet DEF Init, CopiesBacked
<1>7. TankLaw
  <2> DEFINE level == [k \in DOMAIN pump |-> 0]
  <2>1. level \in [DOMAIN pump -> 0..Capacity]
        OBVIOUS
  <2>2. DOMAIN pump = {}
        BY <1>3
  <2>3. Levels(level)
        BY <1>3, <2>2 DEF Levels
  <2> QED BY <2>1, <2>3 DEF TankLaw
<1> QED BY <1>2, <1>3, <1>4, <1>5, <1>6, <1>7 DEF Init, IInv, Recordings, DatesDiffer, FirstOfRefuel,
           OneIntervalPerRefuel, InOrder

LEMMA NextInv == IInv /\ [Next]_vars => IInv'
<1>1. ASSUME IInv, UNCHANGED vars PROVE IInv'
  <2>1. TankLaw'
        BY <1>1 DEF vars, world, IInv, TankLaw, Levels
  <2> QED BY <1>1, <2>1 DEF vars, world, store, IInv, TypeOK, Recordings, DatesDiffer, Completed,
             FirstOfRefuel, OneIntervalPerRefuel, CopiesBacked, Learnable, InOrder, Truthful, TankToTank
<1> QED BY <1>1, DriveInv, FillUpInv, EditPlanInv, UpdateInv, PairInv, CommitInv, RollbackInv DEF Next

-----------------------------------------------------------------------------
(* The replay.                                                             *)

LEMMA LeastNumber ==
  ASSUME NEW T \in SUBSET Nat, T # {}
  PROVE  \E m \in T : \A k \in T : m <= k
<1>1. PICK m \in T : \A k \in T : <<k, m>> \notin OpToRel(<, Nat)
      BY NatLessThanWellFounded, WFMin
<1>2. ASSUME NEW k \in T, k < m PROVE FALSE
  <2>1. <<k, m>> \in OpToRel(<, Nat)
        BY <1>2 DEF OpToRel
  <2> QED BY <1>1, <2>1, Zenon
<1> QED BY <1>2

Start(anchor) ==
  [available |-> TRUE, litres |-> Capacity, mileage |-> rows[anchor].mileage, degraded |-> FALSE]

\* up is the replay after an anchor, as far as stamp n.
Replays(up, anchor, n) ==
  up = [s \in 0..n |->
          IF s <= rows[anchor].capturedAt THEN Start(anchor)
          ELSE IF \E f \in Completed : rows[f].capturedAt = s
          THEN AfterEvent(up[s - 1], rows[CHOOSE f \in Completed : rows[f].capturedAt = s])
          ELSE up[s - 1]]

LEMMA ReplayExists ==
  ASSUME NEW anchor, rows[anchor].capturedAt \in Nat, NEW n \in Nat
  PROVE  \E up : Replays(up, anchor, n)
<1> DEFINE None == {k \in Nat : ~\E up : Replays(up, anchor, k)}
<1>1. Replays([s \in 0..0 |-> Start(anchor)], anchor, 0)
      BY DEF Replays
<1>2. ASSUME NEW k \in Nat, NEW up, Replays(up, anchor, k)
      PROVE  \E next : Replays(next, anchor, k + 1)
  <2> DEFINE at(s) == CHOOSE f \in Completed : rows[f].capturedAt = s
             step(f, s) == IF s <= rows[anchor].capturedAt THEN Start(anchor)
                           ELSE IF \E g \in Completed : rows[g].capturedAt = s
                           THEN AfterEvent(f[s - 1], rows[at(s)])
                           ELSE f[s - 1]
             next == [s \in 0..(k + 1) |-> IF s <= k THEN up[s] ELSE step(up, s)]
  <2>1. \A s \in 0..k : up[s] = step(up, s)
        BY <1>2 DEF Replays
  <2>2. \A s \in 0..(k + 1) : next[s] = step(up, s)
    <3> HIDE DEF step
    <3> QED BY <2>1
  <2>3. \A s \in 0..k : next[s] = up[s]
        OBVIOUS
  <2>4. \A s \in 0..(k + 1) : s <= rows[anchor].capturedAt \/ s - 1 \in 0..k
        OBVIOUS
  <2> HIDE DEF next, at
  <2>5. \A s \in 0..(k + 1) : step(up, s) = step(next, s)
        BY <2>3, <2>4
  <2>6. next = [s \in 0..(k + 1) |-> next[s]]
        BY DEF next
  <2>7. next = [s \in 0..(k + 1) |-> step(next, s)]
    <3> HIDE DEF step
    <3> QED BY <2>2, <2>5, <2>6
  <2>8. Replays(next, anchor, k + 1)
        BY <2>7 DEF Replays, at
  <2> QED BY <2>8
<1>3. None = {}
  <2> SUFFICES ASSUME None # {} PROVE FALSE
      OBVIOUS
  <2>1. PICK m \in None : \A k \in None : m <= k
        BY LeastNumber
  <2>2. m # 0 /\ m \in Nat
        BY <1>1
  <2>3. m - 1 \in Nat /\ m - 1 \notin None /\ (m - 1) + 1 = m
        BY <2>1, <2>2
  <2> QED BY <1>2, <2>3
<1> QED BY <1>3

LEMMA ReplayedIs ==
  ASSUME NEW anchor, rows[anchor].capturedAt \in Nat
  PROVE  \E up : Replays(up, anchor, MaxStamps) /\ Replayed(anchor) = up[stamps]
<1> DEFINE up == CHOOSE up : Replays(up, anchor, MaxStamps)
<1>1. Replays(up, anchor, MaxStamps)
      BY ReplayExists, Bounds
<1>2. Replayed(anchor) = up[stamps]
      BY DEF Replayed, Replays, Start
<1> QED BY <1>1, <1>2

\* A state of the replay says what is in the tank after fill f, or halts.
Follows(state, f, level) ==
  state.available => state = [available |-> TRUE, litres |-> level[f], mileage |-> pump[f].odo,
                              degraded |-> FALSE]

\* f is the last fill recorded by stamp s.
LastBy(f, s) ==
  /\ f \in Completed /\ rows[f].capturedAt <= s
  /\ \A g \in Completed : rows[g].capturedAt <= s => g <= f

\* Recorded in order, the completed fills come one after the other.
LEMMA Ordered ==
  ASSUME IInv, orderly
  PROVE  /\ \A f \in Completed : /\ f \in DOMAIN pump /\ f \in Nat /\ rows[f] \in Row
                                 /\ Truthful(rows[f], f) /\ rows[f].capturedAt \in 1..stamps
         /\ \A f, g \in Completed : g < f => rows[g].capturedAt < rows[f].capturedAt
         /\ \A f \in Completed, g \in Fill : g < f => g \in Completed
<1>1. InOrder
      BY DEF IInv
<1>2. \A f \in Completed : f \in Fill /\ f \in Nat /\ rows[f] \in Row
      BY DEF Completed, Fill, IInv, TypeOK
<1>3. \A f \in Completed : /\ f \in DOMAIN pump /\ Truthful(rows[f], f)
                           /\ rows[f].capturedAt = rows[f].sessionDate
      BY <1>1 DEF InOrder, Truthful
<1>4. \A f \in Completed : rows[f].capturedAt \in 1..stamps
      BY <1>3 DEF IInv, DatesDiffer
<1>5. \A f, g \in Completed : g < f => rows[g].capturedAt < rows[f].capturedAt
      BY <1>1, <1>2, <1>3 DEF InOrder
<1> QED BY <1>1, <1>2, <1>3, <1>4, <1>5 DEF InOrder

\* One refuel of the replay is one visit to the pump.
LEMMA EventFollows ==
  ASSUME IInv, orderly, NEW level \in [DOMAIN pump -> 0..Capacity], Levels(level),
         NEW f \in Completed, NEW g \in Completed, g = f + 1,
         NEW state, Follows(state, f, level)
  PROVE  Follows(AfterEvent(state, rows[g]), g, level)
<1> DEFINE r == rows[g]
           before == state.litres - (r.mileage - state.mileage)
           after  == IF r.fill = "FULL" THEN Capacity ELSE Clamp(before) + r.litres
           halts  == ~state.available \/ r.mileage = Unread \/ r.mileage < state.mileage
                     \/ r.fill = "UNKNOWN"
           next   == [available |-> TRUE, litres |-> Clamp(after), mileage |-> r.mileage,
                      degraded |-> state.degraded \/ before < 0 \/ after > Capacity]
<1>1. AfterEvent(state, r) = IF halts THEN Halted ELSE next
      BY DEF AfterEvent
<1>2. CASE halts
      BY <1>1, <1>2 DEF Follows, Halted
<1>3. CASE ~halts
  <2>1. /\ f \in DOMAIN pump /\ g \in DOMAIN pump /\ r \in Row /\ Truthful(r, g)
        BY Ordered
  <2>2. /\ state.litres = level[f] /\ state.mileage = pump[f].odo /\ ~state.degraded
        BY <1>3 DEF Follows
  <2>3. r.mileage = pump[g].odo /\ r.litres = pump[g].litres /\ r.fill \in {"FULL", "PARTIAL"}
        BY <1>3, <2>1 DEF Truthful, Row
  <2>4. /\ before \in 0..level[f] /\ level[g] = before + pump[g].litres
    <3>1. LET burnt == pump[f + 1].odo - pump[f].odo
          IN burnt \in 0..level[f] /\ level[f + 1] = level[f] - burnt + pump[f + 1].litres
          BY <2>1 DEF Levels
    <3>2. level[f] \in Nat /\ pump[f].odo \in Nat /\ pump[g].odo \in Nat
          BY <2>1, Bounds, PumpDomain DEF IInv, Visit
    <3> QED BY <2>2, <2>3, <3>1, <3>2
  <2>5. level[f] \in 0..Capacity /\ level[g] \in 0..Capacity /\ Capacity \in Nat
        BY <2>1, Bounds
  <2>6. after = level[g]
    <3>1. CASE r.fill = "FULL"
      <4>1. pump[g].full
            BY <2>1, <3>1 DEF Truthful
      <4> QED BY <2>1, <3>1, <4>1 DEF Levels
    <3>2. CASE r.fill = "PARTIAL"
      <4>1. Clamp(before) = before
            BY <2>4, <2>5 DEF Clamp
      <4> QED BY <2>3, <2>4, <3>2, <4>1
    <3> QED BY <2>3, <3>1, <3>2
  <2> HIDE DEF before, after
  <2>7. Clamp(after) = level[g] /\ ~(before < 0) /\ ~(after > Capacity)
        BY <2>4, <2>5, <2>6 DEF Clamp
  <2>8. (state.degraded \/ before < 0 \/ after > Capacity) = FALSE
        BY <2>2, <2>7, Zenon
  <2>9. next = [available |-> TRUE, litres |-> level[g], mileage |-> pump[g].odo, degraded |-> FALSE]
        BY <2>3, <2>7, <2>8, Zenon
  <2> HIDE DEF next, halts
  <2> QED BY <1>1, <1>3, <2>8, <2>9 DEF Follows
<1> QED BY <1>2, <1>3

\* From one stamp to the next the replay keeps up with the fills.
LEMMA ReplayStep ==
  ASSUME IInv, orderly, NEW level \in [DOMAIN pump -> 0..Capacity], Levels(level),
         NEW anchor \in Completed, NEW up, Replays(up, anchor, MaxStamps),
         NEW s \in Nat, s + 1 <= stamps, rows[anchor].capturedAt <= s,
         NEW f, LastBy(f, s), Follows(up[s], f, level)
  PROVE  \E g : LastBy(g, s + 1) /\ Follows(up[s + 1], g, level)
<1>1. /\ rows[anchor].capturedAt \in Nat /\ stamps \in 0..MaxStamps /\ s + 1 \in 0..MaxStamps
      /\ ~(s + 1 <= rows[anchor].capturedAt) /\ (s + 1) - 1 = s
      BY Bounds, Ordered DEF IInv, TypeOK
<1>2. \A g \in Completed : g \in Nat /\ rows[g].capturedAt \in Nat
      BY Ordered
<1> DEFINE g == CHOOSE g \in Completed : rows[g].capturedAt = s + 1
<1>3. up[s + 1] = IF \E h \in Completed : rows[h].capturedAt = s + 1
                  THEN AfterEvent(up[s], rows[g]) ELSE up[s]
      BY <1>1 DEF Replays
<1>4. CASE \E h \in Completed : rows[h].capturedAt = s + 1
  <2>1. g \in Completed /\ rows[g].capturedAt = s + 1
        BY <1>4
  <2> HIDE DEF g
  <2>2. f < g
    <3>1. f \in Completed /\ rows[f].capturedAt < s + 1
          BY <1>2 DEF LastBy
    <3>2. g # f
          BY <1>2, <2>1, <3>1
    <3>3. ~(g < f)
          BY <1>2, <2>1, <3>1, Ordered
    <3> QED BY <1>2, <2>1, <3>1, <3>2, <3>3
  <2>3. g = f + 1
    <3> SUFFICES ASSUME f + 1 < g PROVE FALSE
        BY <1>2, <2>1, <2>2 DEF LastBy
    <3>1. f + 1 \in Fill
          BY <1>2, <2>1, Bounds DEF LastBy, Completed, Fill
    <3>2. f + 1 \in Completed
          BY <2>1, <3>1, Ordered
    <3>3. rows[f + 1].capturedAt < s + 1
          BY <2>1, <3>2, Ordered
    <3>4. f + 1 <= f
          BY <1>2, <3>2, <3>3 DEF LastBy
    <3> QED BY <1>2, <3>4 DEF LastBy
  <2>4. LastBy(g, s + 1)
    <3>1. \A h \in Completed : g < h => ~(rows[h].capturedAt <= s + 1)
          BY <1>2, <2>1, Ordered
    <3> QED BY <1>2, <2>1, <3>1 DEF LastBy
  <2>5. Follows(up[s + 1], g, level)
    <3>1. f \in Completed
          BY DEF LastBy
    <3> QED BY <1>3, <1>4, <2>1, <2>3, <3>1, EventFollows
  <2> QED BY <2>4, <2>5
<1>5. CASE ~\E h \in Completed : rows[h].capturedAt = s + 1
  <2>1. \A h \in Completed : rows[h].capturedAt <= s + 1 => rows[h].capturedAt <= s
        BY <1>2, <1>5
  <2>2. LastBy(f, s + 1)
        BY <1>2, <2>1 DEF LastBy
  <2> QED BY <1>3, <1>5, <2>2
<1> QED BY <1>4, <1>5

\* The replay after an anchor ends with what was in the tank after the last fill.
LEMMA ReplayFollows ==
  ASSUME IInv, orderly, NEW level \in [DOMAIN pump -> 0..Capacity], Levels(level),
         NEW anchor \in Anchors
  PROVE  \E f : LastBy(f, stamps) /\ Follows(Replayed(anchor), f, level)
<1>1. /\ anchor \in Completed /\ rows[anchor].capturedAt \in 1..stamps /\ stamps \in 0..MaxStamps
      /\ rows[anchor].capturedAt \in Nat /\ stamps \in Nat
      BY Bounds, Ordered DEF Anchors, IInv, TypeOK
<1>2. PICK up : Replays(up, anchor, MaxStamps) /\ Replayed(anchor) = up[stamps]
      BY <1>1, ReplayedIs
<1> DEFINE a == rows[anchor].capturedAt
           Bad == {n \in Nat : /\ a + n <= stamps
                               /\ ~\E f : LastBy(f, a + n) /\ Follows(up[a + n], f, level)}
<1>3. LastBy(anchor, a) /\ Follows(up[a], anchor, level)
  <2>1. \A g \in Completed : anchor < g => ~(rows[g].capturedAt <= a)
        BY <1>1, Ordered
  <2>2. LastBy(anchor, a)
        BY <1>1, <2>1, Ordered DEF LastBy
  <2>3. up[a] = Start(anchor)
    <3>1. a \in 0..MaxStamps /\ a <= a
          BY <1>1, Bounds
    <3> QED BY <1>2, <3>1 DEF Replays
  <2>4. /\ anchor \in DOMAIN pump /\ pump[anchor].full /\ rows[anchor].mileage = pump[anchor].odo
        BY <1>1, Ordered DEF Anchors, Truthful
  <2>5. level[anchor] = Capacity
        BY <2>4 DEF Levels
  <2> QED BY <2>2, <2>3, <2>4, <2>5 DEF Follows, Start
<1>4. Bad = {}
  <2> SUFFICES ASSUME Bad # {} PROVE FALSE
      OBVIOUS
  <2>1. PICK m \in Bad : \A k \in Bad : m <= k
        BY LeastNumber
  <2>2. m \in Nat /\ a + m <= stamps /\ a \in Nat
        BY <1>1
  <2>3. m # 0
        BY <1>3, <2>2
  <2>4. m - 1 \in Nat /\ m - 1 \notin Bad /\ (a + (m - 1)) + 1 = a + m /\ a <= a + (m - 1)
        BY <2>1, <2>2, <2>3
  <2>5. PICK f : LastBy(f, a + (m - 1)) /\ Follows(up[a + (m - 1)], f, level)
        BY <1>1, <2>2, <2>4
  <2>6. \E g : LastBy(g, a + m) /\ Follows(up[a + m], g, level)
        BY <1>1, <1>2, <2>2, <2>4, <2>5, ReplayStep
  <2> QED BY <2>1, <2>6
<1>5. stamps - a \in Nat /\ stamps - a \notin Bad /\ a + (stamps - a) = stamps
      BY <1>1, <1>4
<1> QED BY <1>1, <1>2, <1>5

\* There is a last anchor.
LEMMA LastAnchor ==
  ASSUME IInv, orderly, Anchors # {}
  PROVE  \E f \in Anchors : \A g \in Anchors : rows[g].capturedAt <= rows[f].capturedAt
<1> DEFINE T == {stamps - rows[f].capturedAt : f \in Anchors}
<1>1. stamps \in Nat /\ \A f \in Anchors : rows[f].capturedAt \in 1..stamps
      BY Bounds, Ordered DEF Anchors, IInv, TypeOK
<1>2. T \in SUBSET Nat /\ T # {}
      BY <1>1
<1>3. PICK m \in T : \A k \in T : m <= k
      BY <1>2, LeastNumber
<1>4. PICK f \in Anchors : m = stamps - rows[f].capturedAt
      OBVIOUS
<1>5. ASSUME NEW g \in Anchors PROVE rows[g].capturedAt <= rows[f].capturedAt
  <2>1. m <= stamps - rows[g].capturedAt
        BY <1>3
  <2> QED BY <1>1, <1>4, <2>1
<1> QED BY <1>5

\* When every visit is recorded, what the replay ends with is what the road left.
LEMMA TwinFollows == IInv => TwinIsTheTank
<1> SUFFICES ASSUME IInv, orderly, \A f \in DOMAIN pump : f \in Completed,
                    Projection.available
             PROVE  Projection.litres = tank /\ ~Projection.degraded
    BY DEF TwinIsTheTank
<1> DEFINE last  == CHOOSE f \in Anchors : \A g \in Anchors : rows[g].capturedAt <= rows[f].capturedAt
           state == Replayed(last)
           shown == [state EXCEPT !.litres = Clamp(state.litres - (odo - state.mileage)),
                                  !.degraded = state.degraded \/ state.litres < odo - state.mileage]
<1>1. Anchors # {}
      BY DEF Projection, Halted
<1>2. last \in Anchors
      BY <1>1, LastAnchor
<1>3. PICK level \in [DOMAIN pump -> 0..Capacity] : Levels(level)
      BY DEF IInv, TankLaw
<1>4. PICK f : LastBy(f, stamps) /\ Follows(state, f, level)
      BY <1>2, <1>3, ReplayFollows
<1>5. Projection = shown /\ state.available
      BY <1>1 DEF Projection, Halted
<1> HIDE DEF last, state
<1>6. state.litres = level[f] /\ state.mileage = pump[f].odo /\ ~state.degraded
      BY <1>4, <1>5 DEF Follows
<1>7. f = Len(pump) /\ Len(pump) \in DOMAIN pump
  <2>1. f \in DOMAIN pump /\ DOMAIN pump = 1..Len(pump) /\ Len(pump) \in Nat
        BY <1>4, Ordered, PumpDomain DEF LastBy, IInv
  <2>2. Len(pump) \in Completed
        BY <2>1
  <2>3. rows[Len(pump)].capturedAt <= stamps
        BY <2>2, Ordered DEF IInv, TypeOK
  <2>4. Len(pump) <= f
        BY <1>4, <2>2, <2>3 DEF LastBy
  <2> QED BY <2>1, <2>4
<1>8. odo - state.mileage \in 0..state.litres /\ tank = state.litres - (odo - state.mileage)
  <2>1. Len(pump) > 0
        BY <1>7, PumpDomain DEF IInv
  <2> QED BY <1>3, <1>6, <1>7, <2>1 DEF Levels
<1>9. state.litres \in Nat /\ odo - state.mileage \in Int /\ tank \in 0..Capacity /\ Capacity \in Nat
      BY <1>3, <1>6, <1>7, <1>8, Bounds DEF IInv, TypeOK
<1>10. Clamp(state.litres - (odo - state.mileage)) = tank /\ ~(state.litres < odo - state.mileage)
      BY <1>8, <1>9 DEF Clamp
<1>11. DOMAIN state = {"available", "litres", "mileage", "degraded"}
      BY <1>4, <1>5 DEF Follows
<1>12. Projection.litres = tank
      BY <1>5, <1>10, <1>11
<1>13. Projection.degraded = (state.degraded \/ state.litres < odo - state.mileage)
      BY <1>5, <1>11
<1>14. ~Projection.degraded
      BY <1>6, <1>10, <1>13, Zenon
<1> QED BY <1>12, <1>14

\* Recordings hold their locks and stamps, copies lag behind, the tank keeps its
\* law, and in order the rows tell what happened at the pump.
THEOREM Invariance == Spec => []IInv
BY InitInv, NextInv, PTL DEF Spec

\* The world, the tables and the open transactions have their types.
THEOREM TypeCorrect == Spec => []TypeOK
<1>1. IInv => TypeOK
      BY DEF IInv
<1> QED BY <1>1, Invariance, PTL

\* The lock of the refuel row makes it be learnt from at most once.
THEOREM LearntOnce == Spec => []OneIntervalPerRefuel
<1>1. IInv => OneIntervalPerRefuel
      BY DEF IInv
<1> QED BY <1>1, Invariance, PTL

\* Every observation counted is a learnable interval.
THEOREM Backed == Spec => []ObservationsBacked
<1>1. IInv => ObservationsBacked
      BY DEF IInv, CopiesBacked, Learnable, ObservationsBacked
<1> QED BY <1>1, Invariance, PTL

\* Recorded in order, what is learnt is the vehicle's consumption from full tank
\* to full tank.
THEOREM LearnsConsumption == Spec => []LearnableIsTankToTank
<1>1. IInv => LearnableIsTankToTank
      BY DEF IInv, InOrder, TankToTank, LearnableIsTankToTank
<1> QED BY <1>1, Invariance, PTL

\* Recorded in time and in order, the twin shows the litres in the tank or nothing.
THEOREM TwinTellsTheTank == Spec => []TwinIsTheTank
BY TwinFollows, Invariance, PTL

=============================================================================
