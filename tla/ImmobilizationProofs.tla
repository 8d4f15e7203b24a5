------------------------ MODULE ImmobilizationProofs ------------------------
(***************************************************************************)
(* Theorems of Immobilization, for any number of replicas, vehicles and    *)
(* intents, any durations, and with or without the advisory lock: types;   *)
(* the inductive invariant IInv and the safety properties that follow; and *)
(* that the engine implements IntentLifecycle.  Where one evaluator runs   *)
(* at a time: WindowInv, and that a stop waits for its safe window.        *)
(***************************************************************************)
EXTENDS Immobilization, TLAPS

\* What the steps of one tick leave alone, named once.
LEMMA TimerTypes ==
  ASSUME NEW limit \in Nat, NEW t \in Elapsed(limit), NEW met \in BOOLEAN
  PROVE  Aged(t, limit) \in Elapsed(limit) /\ TimerAfter(met, t) \in Elapsed(limit)
BY DEF Aged, TimerAfter, Elapsed, Off

LEMMA OffType == ASSUME NEW limit \in Nat PROVE Off \in Elapsed(limit)
BY DEF Elapsed, Off

LEMMA EmptyTypes == NoGate \in Gate /\ NoExec \in Exec /\ NoCopy \in Copy
<1>1. NoGate \in Gate
  BY ConstantsAssumption, OffType DEF NoGate, Gate
<1>2. NoExec \in Exec
  BY ConstantsAssumption DEF NoExec, Exec, Result
<1>3. NoCopy \in Copy
  BY ConstantsAssumption, OffType DEF NoCopy, Copy
<1>. QED
  BY <1>1, <1>2, <1>3

LEMMA InitTypeOK == Init => TypeOK
<1>. SUFFICES ASSUME Init PROVE TypeOK
  OBVIOUS
<1>1. status \in [Intent -> Status] /\ request \in [Intent -> Request \cup {NoRequest}]
  BY DEF Init, Status
<1>2. gate \in [Intent -> Gate] /\ exec \in [Intent -> Exec]
  BY EmptyTypes DEF Init
<1>3. sinceUnsafe \in [Intent -> Elapsed(SafeDuration)]
  BY OffType, ConstantsAssumption DEF Init
<1>4. /\ plan \in [Replica -> [Intent -> {"none", "complete", "fail"}]]
      /\ snap \in [Replica -> [Intent -> Copy]]
  BY EmptyTypes DEF Init, NoPlan
<1>. QED
  BY <1>1, <1>2, <1>3, <1>4 DEF Init, TypeOK, Step, Result

\* Moving on to the next intent keeps the variables of a tick well typed.
LEMMA FinishedType ==
  ASSUME TypeOK, NEW r \in Replica, NEW i \in Intent, Finished(r, i)
  PROVE  /\ todo' \in [Replica -> SUBSET Intent]
         /\ snap' \in [Replica -> [Intent -> Copy]]
         /\ verdict' \in [Replica -> BOOLEAN]
         /\ result' \in [Replica -> Result]
         /\ pc' \in [Replica -> Step]
         /\ plan' \in [Replica -> [Intent -> {"none", "complete", "fail"}]]
BY EmptyTypes DEF TypeOK, Finished, Step, Result

LEMMA LeaveType ==
  ASSUME TypeOK, NEW i \in Intent, NEW to \in Status, Leave(i, to)
  PROVE  /\ status' \in [Intent -> Status]
         /\ gate' \in [Intent -> Gate]
         /\ sinceUnsafe' \in [Intent -> Elapsed(SafeDuration)]
BY EmptyTypes, OffType, ConstantsAssumption DEF TypeOK, Leave

LEMMA InsertType ==
  ASSUME TypeOK, NEW i \in Intent, NEW v \in Vehicle, NEW action \in Action,
         NEW others \in SUBSET Intent, NEW seen \in Telemetry,
         Insert(i, v, action, others, seen)
  PROVE  TypeOK'
<1>2. status' \in [Intent -> Status]
  BY DEF Insert, TypeOK, Status, Active, Cancellable, Terminal
<1>3. request' \in [Intent -> Request \cup {NoRequest}]
  BY DEF Insert, TypeOK, Request
<1>4. gate' \in [Intent -> Gate]
  <2>1. [ttl |-> Ttl, safe |-> TimerAfter(seen = "safe", Off),
         online |-> TimerAfter(Connected(seen), Off)] \in Gate
    <3>1. /\ TimerAfter(seen = "safe", Off) \in Elapsed(SafeDuration)
          /\ TimerAfter(Connected(seen), Off) \in Elapsed(ConnDuration)
      BY ConstantsAssumption DEF TimerAfter, Elapsed, Off
    <3>. QED
      BY <3>1, ConstantsAssumption DEF Gate
  <2>. QED
    BY <2>1, EmptyTypes DEF Insert, TypeOK
<1>5. sinceUnsafe' \in [Intent -> Elapsed(SafeDuration)]
  BY OffType, ConstantsAssumption DEF Insert, TypeOK, Elapsed, Off
<1>. QED
  BY <1>2, <1>3, <1>4, <1>5 DEF Insert, TypeOK, traccarVars, tickVars

\* Closing an executing row.
LEMMA CloseType ==
  ASSUME TypeOK, NEW i \in Intent, NEW to \in Status, NEW error \in Result,
         Close(i, to, error)
  PROVE  status' \in [Intent -> Status] /\ exec' \in [Intent -> Exec]
<1>1. exec[i] \in Exec
  BY DEF TypeOK
<1>2. [age |-> 0, recorded |-> exec[i].recorded, error |-> error] \in Exec
  BY <1>1, ConstantsAssumption DEF Exec
<1>. QED
  BY <1>2 DEF Close, TypeOK

\* Every action of one replica on one intent.
LEMMA EvaluateType ==
  ASSUME TypeOK, NEW r \in Replica, NEW i \in Intent, Evaluate(r, i)
  PROVE  TypeOK'
<1>. USE DEF rowVars, traccarVars, tickVars
<1>1. CASE ReconcileRow(r, i)
  <2>1. status' \in [Intent -> Status] /\ exec' \in [Intent -> Exec]
    <3>1. CASE UNCHANGED <<status, exec>>
      BY <3>1 DEF TypeOK
    <3>2. CASE Close(i, "completed", "none") \/ Close(i, "failed", "claim_timeout")
      BY <3>2, CloseType DEF Status, Terminal, Result, Error
    <3>. QED
      BY <1>1, <3>1, <3>2 DEF ReconcileRow
  <2>2. plan' \in [Replica -> [Intent -> {"none", "complete", "fail"}]]
    BY <1>1 DEF ReconcileRow, TypeOK
  <2>. QED
    BY <1>1, <2>1, <2>2 DEF ReconcileRow, TypeOK
<1>2. CASE Expire(r, i)
  BY <1>2, LeaveType DEF Expire, Goto, TypeOK, Status, Terminal, Step, Result
<1>3. CASE PassOver(r, i)
  BY <1>3, FinishedType DEF PassOver, TypeOK
<1>4. CASE ReadGates(r, i)
  <2>. DEFINE safe(seen)   == TimerAfter(seen = "safe", snap[r][i].safe)
              online(seen) == TimerAfter(Connected(seen), snap[r][i].online)
  <2>1. PICK seen \in Telemetry :
          /\ snap' = [snap EXCEPT ![r][i] = [status |-> snap[r][i].status,
                                             safe |-> safe(seen), online |-> online(seen)]]
          /\ verdict' = [verdict EXCEPT ![r] =
                           Authorized(request[i].action, seen, safe(seen), online(seen))]
    BY <1>4 DEF ReadGates
  <2>2. snap[r][i] \in Copy
    BY DEF TypeOK
  <2>3. safe(seen) \in Elapsed(SafeDuration) /\ online(seen) \in Elapsed(ConnDuration)
    BY <2>2, TimerTypes, ConstantsAssumption DEF Connected, Copy
  <2>. HIDE DEF safe, online
  <2>4. snap' \in [Replica -> [Intent -> Copy]]
    BY <2>1, <2>2, <2>3 DEF TypeOK, Copy
  <2>5. verdict' \in [Replica -> BOOLEAN]
    BY <2>1 DEF TypeOK, Authorized
  <2>. QED
    BY <1>4, <2>4, <2>5 DEF ReadGates, Goto, TypeOK, Step
<1>5. CASE SaveGates(r, i)
  <2>1. snap[r][i] \in Copy /\ gate[i] \in Gate
    BY DEF TypeOK
  <2>2. /\ sinceUnsafe' \in [Intent -> Elapsed(SafeDuration)]
        /\ gate' \in [Intent -> Gate]
    <3>1. [ttl |-> gate[i].ttl, safe |-> snap[r][i].safe, online |-> snap[r][i].online] \in Gate
      BY <2>1 DEF Gate, Copy
    <3>2. sinceUnsafe' \in [Intent -> Elapsed(SafeDuration)]
      <4>1. 0 \in Elapsed(SafeDuration)
        BY ConstantsAssumption DEF Elapsed, Off
      <4>2. \E s \in {0, sinceUnsafe[i]} :
              sinceUnsafe' = sinceUnsafe \/ sinceUnsafe' = [sinceUnsafe EXCEPT ![i] = s]
        BY <1>5 DEF SaveGates
      <4>3. sinceUnsafe[i] \in Elapsed(SafeDuration)
        BY DEF TypeOK
      <4>. QED
        BY <4>1, <4>2, <4>3 DEF TypeOK
    <3>3. gate' \in [Intent -> Gate]
      <4>1. \/ gate' = gate
            \/ gate' = [gate EXCEPT ![i] = [ttl |-> gate[i].ttl, safe |-> snap[r][i].safe,
                                            online |-> snap[r][i].online]]
        BY <1>5 DEF SaveGates
      <4>. QED
        BY <3>1, <4>1 DEF TypeOK
    <3>. QED
      BY <3>2, <3>3
  <2>3. status' \in [Intent -> Status]
    <3>1. status' = status \/ status' = [status EXCEPT ![i] = "monitoring"]
      BY <1>5 DEF SaveGates
    <3>2. "monitoring" \in Status
      BY DEF Status, Active, Cancellable
    <3>. QED
      BY <3>1, <3>2 DEF TypeOK
  <2>4. CASE Finished(r, i)
    BY <1>5, <2>2, <2>3, <2>4, FinishedType DEF SaveGates, TypeOK
  <2>5. CASE Goto(r, "claim") /\ UNCHANGED <<snap, verdict, result>>
    BY <1>5, <2>2, <2>3, <2>5 DEF SaveGates, TypeOK, Goto, Step
  <2>. QED
    BY <1>5, <2>4, <2>5 DEF SaveGates
<1>6. CASE Claim(r, i)
  <2>1. CASE Claimable(i)
    <3>1. exec' \in [Intent -> Exec]
      <4>1. exec' = [exec EXCEPT ![i].age = 0]
        BY <1>6, <2>1 DEF Claim
      <4>2. exec[i] \in Exec
        BY DEF TypeOK
      <4>3. [exec[i] EXCEPT !.age = 0] \in Exec
        BY <4>2, ConstantsAssumption DEF Exec
      <4>. QED
        BY <4>1, <4>3 DEF TypeOK
    <3>2. Leave(i, "executing") /\ Goto(r, "assign") /\ UNCHANGED <<snap, verdict, result>>
      BY <1>6, <2>1 DEF Claim
    <3>. QED
      BY <1>6, <3>1, <3>2, LeaveType DEF Claim, Goto, TypeOK, Status, Active, Step
  <2>2. CASE ~Claimable(i)
    BY <1>6, <2>2, FinishedType DEF Claim, TypeOK
  <2>. QED
    BY <2>1, <2>2
<1>7. CASE CheckAssignment(r, i)
  BY <1>7 DEF CheckAssignment, Goto, TypeOK, Step, Result, Error
<1>8. CASE Post(r, i)
  BY <1>8 DEF Post, Goto, TypeOK, Step
<1>9. CASE Got2xx(r, i) \/ TimedOut(r, i) \/ Threw(r, i)
  BY <1>9 DEF Got2xx, TimedOut, Threw, Await, Goto, TypeOK, Step, Result, Error
<1>10. CASE Record(r, i)
  <2>1. exec' \in [Intent -> Exec]
    BY <1>10, exec[i] \in Exec DEF Record, TypeOK, Exec
  <2>. QED
    BY <1>10, <2>1 DEF Record, Goto, TypeOK, Step
<1>11. CASE Complete(r, i) \/ Fail(r, i)
  <2>1. PICK to \in {"completed", "failed"}, error \in Result :
          Finalize(r, i, to, error, to)
    <3>1. CASE Complete(r, i)
      BY <3>1 DEF Complete, Result
    <3>2. CASE Fail(r, i)
      BY <3>2 DEF Fail, TypeOK
    <3>. QED
      BY <1>11, <3>1, <3>2
  <2>2. CASE status[i] = "executing"
    <3>1. Close(i, to, error) /\ Goto(r, "notify") /\ result' = [result EXCEPT ![r] = to]
      BY <2>1, <2>2 DEF Finalize
    <3>2. status' \in [Intent -> Status] /\ exec' \in [Intent -> Exec]
      BY <3>1, CloseType DEF Status, Terminal
    <3>. QED
      BY <2>1, <2>2, <3>1, <3>2 DEF Finalize, Goto, TypeOK, Step, Result
  <2>3. CASE status[i] # "executing"
    BY <2>1, <2>3, FinishedType DEF Finalize, TypeOK
  <2>. QED
    BY <2>2, <2>3
<1>12. CASE Notify(r, i)
  BY <1>12, FinishedType DEF Notify, TypeOK
<1>. QED
  BY <1>1, <1>2, <1>3, <1>4, <1>5, <1>6, <1>7, <1>8, <1>9, <1>10, <1>11, <1>12 DEF Evaluate

\* The steps of a replica's tick that concern no single intent, and faults.
LEMMA TickType ==
  ASSUME TypeOK, NEW r \in Replica,
         Boot(r) \/ StartTick(r) \/ FinishStartup(r) \/ LoadActive(r) \/ Fault(r)
  PROVE  TypeOK'
<1>. USE DEF rowVars, traccarVars, tickVars
<1>1. CASE Boot(r) \/ StartTick(r)
  <2>1. PICK step \in Step : SelectStuck(r, step)
    BY <1>1 DEF Boot, StartTick, Step
  <2>. QED
    BY <2>1 DEF SelectStuck, Resolve, TypeOK
<1>2. CASE FinishStartup(r)
  BY <1>2 DEF FinishStartup, TypeOK, Step
<1>3. CASE LoadActive(r)
  <2>. DEFINE rows == {i \in Intent : status[i] \in Active}
              copy(i) == IF i \in rows THEN [status |-> status[i], safe |-> gate[i].safe,
                                             online |-> gate[i].online]
                         ELSE NoCopy
  <2>1. /\ todo' = [todo EXCEPT ![r] = rows]
        /\ snap' = [snap EXCEPT ![r] = [i \in Intent |-> copy(i)]]
        /\ pc' = [pc EXCEPT ![r] = IF rows = {} THEN "idle" ELSE "next"]
    BY <1>3 DEF LoadActive
  <2>2. ASSUME NEW i \in Intent PROVE copy(i) \in Copy
    <3>1. gate[i] \in Gate
      BY DEF TypeOK
    <3>. QED
      BY <3>1, EmptyTypes DEF Copy, Gate
  <2>3. rows \in SUBSET Intent
    OBVIOUS
  <2>. HIDE DEF rows, copy
  <2>4. [i \in Intent |-> copy(i)] \in [Intent -> Copy]
    BY <2>2
  <2>. QED
    BY <1>3, <2>1, <2>3, <2>4 DEF LoadActive, TypeOK, Step
<1>4. CASE ReconcileThrows(r)
  BY <1>4 DEF ReconcileThrows, Faulty, NoPlan, TypeOK, Step
<1>5. CASE Crash(r)
  BY <1>5, EmptyTypes DEF Crash, Faulty, NoPlan, TypeOK, Step, Result
<1>6. ASSUME NEW i \in Intent, EvaluationThrows(r, i) PROVE TypeOK'
  BY <1>6, FinishedType DEF EvaluationThrows, Faulty, TypeOK
<1>7. ASSUME NEW i \in Intent, DeliveryThrows(r, i) PROVE TypeOK'
  BY <1>7 DEF DeliveryThrows, Faulty, Goto, TypeOK, Step, Result, Error
<1>. QED
  BY <1>1, <1>2, <1>3, <1>4, <1>5, <1>6, <1>7 DEF Fault

\* Time only moves timers within their bounds.
LEMMA TimeType == TypeOK /\ TimePasses => TypeOK'
<1>. SUFFICES ASSUME TypeOK, TimePasses PROVE TypeOK'
  OBVIOUS
<1>. USE ConstantsAssumption DEF rowVars, traccarVars, tickVars
<1>1. gate' \in [Intent -> Gate]
  <2>1. ASSUME NEW i \in Intent
        PROVE  /\ gate[i] \in Gate
               /\ [ttl |-> IF gate[i].ttl = 0 THEN 0 ELSE gate[i].ttl - 1,
                   safe |-> Aged(gate[i].safe, SafeDuration),
                   online |-> Aged(gate[i].online, ConnDuration)] \in Gate
    <3>1. gate[i] \in Gate
      BY DEF TypeOK
    <3>2. /\ Aged(gate[i].safe, SafeDuration) \in Elapsed(SafeDuration)
          /\ Aged(gate[i].online, ConnDuration) \in Elapsed(ConnDuration)
      BY <3>1 DEF Gate, Aged, Elapsed, Off
    <3>. QED
      BY <3>1, <3>2 DEF Gate
  <2>. QED
    BY <2>1 DEF TimePasses
<1>2. exec' \in [Intent -> Exec]
  <2>1. ASSUME NEW i \in Intent
        PROVE  /\ exec[i] \in Exec
               /\ [exec[i] EXCEPT !.age = IF @ > ClaimTimeout THEN @ ELSE @ + 1] \in Exec
    <3>1. exec[i] \in Exec
      BY DEF TypeOK
    <3>. QED
      BY <3>1 DEF Exec
  <2>. QED
    BY <2>1 DEF TimePasses
<1>3. sinceUnsafe' \in [Intent -> Elapsed(SafeDuration)]
  <2>1. ASSUME NEW i \in Intent
        PROVE  Aged(sinceUnsafe[i], SafeDuration) \in Elapsed(SafeDuration)
    <3>1. sinceUnsafe[i] \in Elapsed(SafeDuration)
      BY DEF TypeOK
    <3>. QED
      BY <3>1 DEF Aged, Elapsed, Off
  <2>. QED
    BY <2>1 DEF TimePasses
<1>4. snap' \in [Replica -> [Intent -> Copy]]
  <2>1. ASSUME NEW r \in Replica, NEW i \in Intent
        PROVE  [status |-> snap[r][i].status,
                safe |-> Aged(snap[r][i].safe, SafeDuration),
                online |-> Aged(snap[r][i].online, ConnDuration)] \in Copy
    <3>1. snap[r][i] \in Copy
      BY DEF TypeOK
    <3>2. /\ Aged(snap[r][i].safe, SafeDuration) \in Elapsed(SafeDuration)
          /\ Aged(snap[r][i].online, ConnDuration) \in Elapsed(ConnDuration)
      BY <3>1 DEF Copy, Aged, Elapsed, Off
    <3>. QED
      BY <3>1, <3>2 DEF Copy
  <2>. QED
    BY <2>1 DEF TimePasses
<1>. QED
  BY <1>1, <1>2, <1>3, <1>4 DEF TimePasses, TypeOK

LEMMA CreateType == TypeOK /\ Create => TypeOK'
<1>. SUFFICES ASSUME TypeOK, NEW v \in Vehicle, NEW i \in Intent,
                     CreateImmobilize(i, v) \/ CreateMobilize(i, v)
              PROVE  TypeOK'
  BY DEF Create
<1>1. CASE CreateImmobilize(i, v)
  <2>1. PICK seen \in Telemetry : Insert(i, v, "immobilize", {}, seen)
    BY <1>1 DEF CreateImmobilize
  <2>. QED
    BY <2>1, InsertType DEF Action
<1>2. CASE CreateMobilize(i, v)
  <2>1. PICK seen \in Telemetry : Insert(i, v, "mobilize", IntentsOf(v, Cancellable), seen)
    BY <1>2 DEF CreateMobilize
  <2>2. IntentsOf(v, Cancellable) \in SUBSET Intent
    BY DEF IntentsOf
  <2>. QED
    BY <2>1, <2>2, InsertType DEF Action
<1>. QED
  BY <1>1, <1>2

LEMMA NextType == TypeOK /\ [Next]_vars => TypeOK'
<1>. SUFFICES ASSUME TypeOK, [Next]_vars PROVE TypeOK'
  OBVIOUS
<1>. USE DEF rowVars, traccarVars, tickVars
<1>1. ASSUME NEW i \in Intent, Cancel(i) PROVE TypeOK'
  BY <1>1, LeaveType DEF Cancel, TypeOK, Status, Terminal
<1>2. ASSUME NEW i \in Intent, TraccarAnswers(i) PROVE TypeOK'
  BY <1>2 DEF TraccarAnswers, TypeOK
<1>3. ASSUME NEW r \in Replica, Run(r) \/ Fault(r) PROVE TypeOK'
  BY <1>3, EvaluateType, TickType DEF Run
<1>4. CASE UNCHANGED vars
  BY <1>4 DEF vars, TypeOK
<1>. QED
  BY <1>1, <1>2, <1>3, <1>4, CreateType, TimeType DEF Next

\* Every reachable state is well typed: in particular no timer outruns the
\* threshold at which the code stops looking.
THEOREM TypeCorrect == Spec => []TypeOK
  BY InitTypeOK, NextType, PTL DEF Spec

-----------------------------------------------------------------------------
(* IInv is inductive, and the safety properties follow.                    *)

\* A step that touches no row, no message and no notice.
RowsSame == UNCHANGED <<status, request, exec, notified, wire, posts>>

\* A step that leaves replica s where it is.
Still(s) ==
  /\ pc'[s] = pc[s] /\ todo'[s] = todo[s] /\ plan'[s] = plan[s] /\ result'[s] = result[s]
  /\ \A i \in Intent : snap'[s][i].status = snap[s][i].status

RowSame(i) ==
  /\ status'[i] = status[i] /\ exec'[i] = exec[i] /\ wire'[i] = wire[i] /\ posts'[i] = posts[i]

LEMMA CurrentUnique ==
  ASSUME NEW r \in Replica, NEW i \in Intent, NEW j \in Intent, Current(r, i), Current(r, j)
  PROVE  i = j
BY ConstantsAssumption DEF Current, Intent

LEMMA CurrentStays ==
  ASSUME NEW r \in Replica, NEW i \in Intent, todo'[r] = todo[r]
  PROVE  Current(r, i)' <=> Current(r, i)
BY DEF Current

LEMMA RowsSameRows ==
  ASSUME IInv, RowsSame
  PROVE  (\A i \in Intent : RowConsistent(i)') /\ OneActivePerVehicle'
BY DEF IInv, RowsSame, RowConsistent, OneActivePerVehicle

LEMMA StillTick ==
  ASSUME NEW s \in Replica, NEW i \in Intent, TickConsistent(s, i), Still(s), RowSame(i)
  PROVE  TickConsistent(s, i)'
BY CurrentStays DEF Still, RowSame, TickConsistent

\* Nobody else moves and r holds no more than before.
LEMMA HoldersStay ==
  ASSUME IInv, NEW r \in Replica, \A s \in Replica \ {r} : Still(s),
         \A i \in Intent : InDelivery(r, i)' => InDelivery(r, i)
  PROVE  OneHolder'
<1>1. ASSUME NEW s \in Replica, NEW i \in Intent, InDelivery(s, i)'
      PROVE  InDelivery(s, i)
  BY <1>1, CurrentStays DEF Still, InDelivery
<1>. QED
  BY <1>1 DEF IInv, OneHolder

\* In a step of replica r no other replica moves.
LEMMA OthersStill ==
  ASSUME TypeOK, NEW r \in Replica, Run(r) \/ Fault(r), NEW s \in Replica \ {r}
  PROVE  Still(s)
<1>. USE DEF TypeOK, Still, rowVars, traccarVars, tickVars, Finished, Goto
<1>1. ASSUME NEW i \in Intent, Evaluate(r, i) PROVE Still(s)
  <2>1. CASE ReconcileRow(r, i) \/ Expire(r, i) \/ PassOver(r, i)
    BY <2>1 DEF ReconcileRow, Expire, PassOver
  <2>2. CASE ReadGates(r, i)
    BY <2>2 DEF ReadGates
  <2>3. CASE SaveGates(r, i)
    BY <2>3 DEF SaveGates
  <2>4. CASE Claim(r, i)
    BY <2>4 DEF Claim
  <2>5. CASE CheckAssignment(r, i) \/ Post(r, i)
    BY <2>5 DEF CheckAssignment, Post
  <2>6. CASE Got2xx(r, i) \/ TimedOut(r, i) \/ Threw(r, i)
    BY <2>6 DEF Got2xx, TimedOut, Threw, Await
  <2>7. CASE Record(r, i) \/ Notify(r, i)
    BY <2>7 DEF Record, Notify
  <2>8. CASE Complete(r, i) \/ Fail(r, i)
    BY <2>8 DEF Complete, Fail, Finalize
  <2>. QED
    BY <1>1, <2>1, <2>2, <2>3, <2>4, <2>5, <2>6, <2>7, <2>8 DEF Evaluate
<1>2. CASE Boot(r) \/ StartTick(r) \/ FinishStartup(r)
  BY <1>2 DEF Boot, StartTick, SelectStuck, FinishStartup
<1>3. CASE LoadActive(r)
  BY <1>3 DEF LoadActive
<1>4. CASE ReconcileThrows(r) \/ Crash(r)
  BY <1>4 DEF ReconcileThrows, Crash
<1>5. ASSUME NEW i \in Intent, EvaluationThrows(r, i) \/ DeliveryThrows(r, i) PROVE Still(s)
  BY <1>5 DEF EvaluationThrows, DeliveryThrows
<1>. QED
  BY <1>1, <1>2, <1>3, <1>4, <1>5 DEF Run, Fault

\* A replica that dropped its current intent relies on nothing but its plan.
LEMMA FinishedTick ==
  ASSUME IInv, NEW r \in Replica, NEW i \in Intent, Finished(r, i), NEW j \in Intent,
         wire'[j] = wire[j]
  PROVE  TickConsistent(r, j)' /\ ~InDelivery(r, j)'
<1>1. pc'[r] \in {"idle", "next"} /\ plan' = plan
  BY DEF Finished, IInv, TypeOK
<1>. QED
  BY <1>1 DEF IInv, TickConsistent, InDelivery, Delivering

\* Dropping the current intent with nothing else changed is harmless.
LEMMA FinishedInv ==
  ASSUME IInv, TypeOK', RowsSame, NEW r \in Replica, NEW i \in Intent, Finished(r, i),
         Run(r) \/ Fault(r)
  PROVE  IInv'
<1>1. (\A j \in Intent : RowConsistent(j)') /\ OneActivePerVehicle'
  BY RowsSameRows
<1>2. ASSUME NEW s \in Replica, NEW j \in Intent PROVE TickConsistent(s, j)'
  <2>1. CASE s = r
    BY <2>1, FinishedTick DEF RowsSame
  <2>2. CASE s # r
    <3>1. Still(s)
      BY <2>2, OthersStill DEF IInv
    <3>. QED
      BY <3>1, StillTick DEF IInv, RowsSame, RowSame
  <2>. QED
    BY <2>1, <2>2
<1>3. \A j \in Intent : ~InDelivery(r, j)'
  BY FinishedTick DEF RowsSame
<1>4. OneHolder'
  <2>1. \A s \in Replica \ {r} : Still(s)
    BY OthersStill DEF IInv
  <2>. QED
    BY <1>3, <2>1, HoldersStay
<1>. QED
  BY <1>1, <1>2, <1>4 DEF IInv

\* The steps of one replica on one intent.  In each, "others" is what the other
\* replicas rely on, "own" what the moving one does.
LEMMA ReconcileRowInv ==
  ASSUME IInv, NEW r \in Replica, NEW i \in Intent, ReconcileRow(r, i)
  PROVE  IInv'
<1>. USE DEF rowVars, traccarVars
<1>1. TypeOK'
  BY EvaluateType DEF IInv, Evaluate
<1>2. \A j \in Intent : RowConsistent(j)'
  BY DEF IInv, TypeOK, ReconcileRow, Close, RowConsistent, TickConsistent, Terminal
<1>3. OneActivePerVehicle'
  BY DEF IInv, TypeOK, ReconcileRow, Close, OneActivePerVehicle, Active, Cancellable
<1>4. ASSUME NEW s \in Replica, NEW j \in Intent PROVE TickConsistent(s, j)'
  <2>1. Current(s, j)' <=> Current(s, j)
    BY CurrentStays DEF ReconcileRow
  <2>. QED
    BY <2>1 DEF IInv, TypeOK, ReconcileRow, Close, TickConsistent, Terminal
<1>5. OneHolder'
  <2>1. ASSUME NEW s \in Replica, NEW j \in Intent PROVE InDelivery(s, j)' <=> InDelivery(s, j)
    BY CurrentStays DEF ReconcileRow, InDelivery
  <2>. QED
    BY <2>1 DEF IInv, OneHolder
<1>. QED
  BY <1>1, <1>2, <1>3, <1>4, <1>5 DEF IInv

LEMMA ExpireInv ==
  ASSUME IInv, NEW r \in Replica, NEW i \in Intent, Expire(r, i)
  PROVE  IInv'
<1>. USE DEF rowVars, traccarVars
<1>1. TypeOK'
  BY EvaluateType DEF IInv, Evaluate
<1>2. \A j \in Intent : RowConsistent(j)'
  BY DEF IInv, TypeOK, Expire, Leave, RowConsistent, Cancellable, Terminal
<1>3. OneActivePerVehicle'
  BY DEF IInv, TypeOK, Expire, Leave, OneActivePerVehicle, Active, Cancellable
<1>4. ASSUME NEW s \in Replica, NEW j \in Intent PROVE TickConsistent(s, j)'
  <2>1. Current(s, j)' <=> Current(s, j)
    BY CurrentStays DEF Expire, Goto
  <2>2. CASE s = r
    BY <2>1, <2>2, CurrentUnique
       DEF IInv, TypeOK, Expire, Leave, Goto, TickConsistent, Delivering, Terminal
  <2>3. CASE s # r
    BY <2>1, <2>3
       DEF IInv, TypeOK, Expire, Leave, Goto, TickConsistent, Cancellable, Terminal
  <2>. QED
    BY <2>2, <2>3
<1>5. OneHolder'
  <2>1. ~ \E j \in Intent : InDelivery(r, j)'
    BY DEF Expire, Goto, IInv, TypeOK, InDelivery, Delivering
  <2>. QED
    BY <2>1, HoldersStay, OthersStill DEF IInv, Run, Evaluate
<1>. QED
  BY <1>1, <1>2, <1>3, <1>4, <1>5 DEF IInv

LEMMA SaveGatesInv ==
  ASSUME IInv, NEW r \in Replica, NEW i \in Intent, SaveGates(r, i)
  PROVE  IInv'
<1>. USE DEF rowVars, traccarVars
<1>1. TypeOK'
  BY EvaluateType DEF IInv, Evaluate
\* The compare-and-set misses unless the row is still pending or monitoring.
<1>2. /\ \/ UNCHANGED status
         \/ status[i] \in Cancellable /\ status' = [status EXCEPT ![i] = "monitoring"]
      /\ UNCHANGED <<request, exec, notified, wire, posts>>
  <2>1. snap[r][i] \in Copy /\ snap[r][i].status # "executing" /\ status[i] \in Status
    BY DEF SaveGates, IInv, TickConsistent, TypeOK
  <2>. QED
    BY <2>1 DEF SaveGates, Copy, Status, Active, Terminal
<1>3. \A j \in Intent : RowConsistent(j)'
  BY <1>2 DEF IInv, TypeOK, RowConsistent, Cancellable, Terminal
<1>4. OneActivePerVehicle'
  BY <1>2 DEF IInv, TypeOK, OneActivePerVehicle, Active, Cancellable
<1>5. CASE Goto(r, "claim") /\ UNCHANGED <<snap, verdict, result>>
  <2>1. ASSUME NEW s \in Replica, NEW j \in Intent PROVE TickConsistent(s, j)'
    BY <1>2, <1>5, CurrentStays
       DEF IInv, TypeOK, Goto, TickConsistent, Delivering, Cancellable, Terminal
  <2>2. ASSUME NEW j \in Intent PROVE ~InDelivery(r, j)'
    BY <1>5 DEF Goto, IInv, TypeOK, InDelivery, Delivering
  <2>3. OneHolder'
    BY <2>2, HoldersStay, OthersStill DEF IInv, Run, Evaluate
  <2>. QED
    BY <1>1, <1>3, <1>4, <2>1, <2>3 DEF IInv
<1>6. CASE Finished(r, i)
  <2>1. ASSUME NEW s \in Replica, NEW j \in Intent PROVE TickConsistent(s, j)'
    <3>1. CASE s = r
      BY <1>2, <1>6, <3>1, FinishedTick
    <3>2. CASE s # r
      <4>1. Still(s)
        BY <3>2, OthersStill DEF IInv, Run, Evaluate
      <4>2. CASE j # i \/ UNCHANGED status
        BY <1>2, <4>1, <4>2, StillTick DEF IInv, TypeOK, RowSame
      <4>3. CASE j = i /\ status[i] \in Cancellable
        <5>1. Current(s, j)' <=> Current(s, j)
          BY <4>1, CurrentStays DEF Still
        <5>2. TickConsistent(s, j)
          BY DEF IInv
        <5>. QED
          BY <1>2, <4>1, <4>3, <5>1, <5>2
             DEF Still, TickConsistent, Delivering, Cancellable, Terminal
      <4>. QED
        BY <1>2, <4>2, <4>3
    <3>. QED
      BY <3>1, <3>2
  <2>2. OneHolder'
    BY <1>2, <1>6, FinishedTick, HoldersStay, OthersStill DEF IInv, Run, Evaluate
  <2>. QED
    BY <1>1, <1>3, <1>4, <2>1, <2>2 DEF IInv
<1>. QED
  BY <1>5, <1>6 DEF SaveGates

LEMMA ClaimInv ==
  ASSUME IInv, NEW r \in Replica, NEW i \in Intent, Claim(r, i)
  PROVE  IInv'
<1>. USE DEF rowVars, traccarVars
<1>1. TypeOK'
  BY EvaluateType DEF IInv, Evaluate
<1>2. CASE Claimable(i)
  <2>1. /\ status[i] \in Cancellable /\ status' = [status EXCEPT ![i] = "executing"]
        /\ exec' = [exec EXCEPT ![i].age = 0]
        /\ Goto(r, "assign")
        /\ UNCHANGED <<request, notified, wire, posts, snap, verdict, result>>
    BY <1>2 DEF Claim, Claimable, Leave
  <2>2. \A j \in Intent : exec'[j].recorded = exec[j].recorded /\ exec'[j].error = exec[j].error
    BY <2>1 DEF IInv, TypeOK, Exec
  <2>3. posts[i] = 0
    BY <2>1 DEF IInv, RowConsistent, Cancellable
  <2>4. \A j \in Intent : RowConsistent(j)'
    BY <2>1, <2>2 DEF IInv, TypeOK, RowConsistent, Cancellable, Terminal
  <2>5. OneActivePerVehicle'
    BY <2>1 DEF IInv, TypeOK, OneActivePerVehicle, Active
  <2>6. ASSUME NEW s \in Replica, NEW j \in Intent PROVE TickConsistent(s, j)'
    <3>1. Current(s, j)' <=> Current(s, j)
      BY <2>1, CurrentStays DEF Goto
    <3>2. CASE s = r
      BY <2>1, <2>3, <3>1, <3>2, CurrentUnique
         DEF IInv, TypeOK, Claim, Goto, TickConsistent, Delivering
    <3>3. CASE s # r
      BY <2>1, <2>2, <3>1, <3>3
         DEF IInv, TypeOK, Goto, TickConsistent, Cancellable, Terminal
    <3>. QED
      BY <3>2, <3>3
  \* Whoever held i before would have found it executing or closed.
  <2>7. OneHolder'
    <3>1. ASSUME NEW s \in Replica, s # r, NEW j \in Intent, InDelivery(s, j)'
          PROVE  InDelivery(s, j) /\ j # i
      BY <2>1, <3>1, CurrentStays
         DEF IInv, TypeOK, Goto, InDelivery, TickConsistent, Cancellable
    <3>2. ASSUME NEW j \in Intent, InDelivery(r, j)' PROVE j = i
      BY <2>1, <3>2, CurrentStays, CurrentUnique DEF Claim, Goto, InDelivery
    <3>. QED
      BY <3>1, <3>2 DEF IInv, OneHolder
  <2>. QED
    BY <1>1, <2>4, <2>5, <2>6, <2>7 DEF IInv
<1>3. CASE ~Claimable(i)
  <2>1. Finished(r, i) /\ RowsSame
    BY <1>3 DEF Claim, RowsSame
  <2>. QED
    BY <1>1, <2>1, FinishedInv DEF Run, Evaluate
<1>. QED
  BY <1>2, <1>3

LEMMA ReadGatesInv ==
  ASSUME IInv, NEW r \in Replica, NEW i \in Intent, ReadGates(r, i)
  PROVE  IInv'
<1>. USE DEF rowVars, traccarVars
<1>1. TypeOK'
  BY EvaluateType DEF IInv, Evaluate
<1>2. RowsSame
  BY DEF ReadGates, RowsSame
<1>3. (\A j \in Intent : RowConsistent(j)') /\ OneActivePerVehicle'
  BY <1>2, RowsSameRows
<1>4. /\ pc' = [pc EXCEPT ![r] = "gated"] /\ UNCHANGED <<todo, plan, result>>
      /\ snap[r][i].status # "executing"
      /\ \A j \in Intent : snap'[r][j].status = snap[r][j].status
  BY DEF ReadGates, Goto, IInv, TypeOK, Copy
<1>5. ASSUME NEW s \in Replica, NEW j \in Intent PROVE TickConsistent(s, j)'
  <2>1. CASE s = r
    BY <1>2, <1>4, <2>1, CurrentStays, CurrentUnique
       DEF IInv, TypeOK, RowsSame, TickConsistent, Delivering, ReadGates
  <2>2. CASE s # r
    <3>1. Still(s)
      BY <2>2, OthersStill DEF IInv, Run, Evaluate
    <3>. QED
      BY <1>2, <3>1, StillTick DEF IInv, RowsSame, RowSame
  <2>. QED
    BY <2>1, <2>2
<1>6. OneHolder'
  <2>1. ASSUME NEW j \in Intent PROVE ~InDelivery(r, j)'
    BY <1>4 DEF IInv, TypeOK, InDelivery, Delivering
  <2>. QED
    BY <2>1, HoldersStay, OthersStill DEF IInv, Run, Evaluate
<1>. QED
  BY <1>1, <1>3, <1>5, <1>6 DEF IInv

\* The steps of a delivery that change no row and send nothing.
LEMMA AwaitInv ==
  ASSUME IInv, NEW r \in Replica, NEW i \in Intent,
         \/ CheckAssignment(r, i)
         \/ Got2xx(r, i) \/ TimedOut(r, i) \/ Threw(r, i) \/ DeliveryThrows(r, i)
  PROVE  IInv'
<1>. USE DEF rowVars, traccarVars
<1>1. TypeOK'
  BY EvaluateType, TickType DEF IInv, Evaluate, Fault
<1>2. RowsSame
  BY DEF CheckAssignment, Got2xx, TimedOut, Threw, Await, DeliveryThrows, RowsSame
<1>3. (\A j \in Intent : RowConsistent(j)') /\ OneActivePerVehicle'
  BY <1>2, RowsSameRows
<1>4. \A s \in Replica \ {r} : Still(s)
  BY OthersStill DEF IInv, Run, Fault, Evaluate
<1>5. /\ pc[r] \in Delivering /\ Current(r, i)
      /\ \E step \in {"post", "fail", "record"} :
           /\ pc' = [pc EXCEPT ![r] = step]
           /\ step = "post" => pc[r] = "assign"
           /\ step = "record" => wire[i] = "accepted"
      /\ UNCHANGED <<todo, plan, snap>>
  <2>1. CASE CheckAssignment(r, i)
    BY <2>1 DEF CheckAssignment, Goto, Delivering
  <2>2. CASE Got2xx(r, i) \/ TimedOut(r, i) \/ Threw(r, i)
    BY <2>2 DEF Got2xx, TimedOut, Threw, Await, Goto, Delivering
  <2>3. CASE DeliveryThrows(r, i)
    BY <2>3 DEF DeliveryThrows, Goto, Delivering
  <2>. QED
    BY <2>1, <2>2, <2>3
<1>6. ASSUME NEW s \in Replica, NEW j \in Intent PROVE TickConsistent(s, j)'
  <2>1. CASE s = r
    BY <1>2, <1>5, <2>1, CurrentStays, CurrentUnique
       DEF IInv, TypeOK, RowsSame, TickConsistent, Delivering
  <2>2. CASE s # r
    BY <1>2, <1>4, <2>2, StillTick DEF IInv, RowsSame, RowSame
  <2>. QED
    BY <2>1, <2>2
<1>7. OneHolder'
  <2>1. ASSUME NEW j \in Intent, InDelivery(r, j)' PROVE InDelivery(r, j)
    BY <1>5, <2>1, CurrentStays DEF InDelivery
  <2>. QED
    BY <2>1, <1>4, HoldersStay
<1>. QED
  BY <1>1, <1>3, <1>6, <1>7 DEF IInv

LEMMA PostInv ==
  ASSUME IInv, NEW r \in Replica, NEW i \in Intent, Post(r, i)
  PROVE  IInv'
<1>. USE DEF rowVars, traccarVars
<1>1. TypeOK'
  BY EvaluateType DEF IInv, Evaluate
<1>2. /\ pc[r] = "post" /\ Current(r, i)
      /\ posts' = [posts EXCEPT ![i] = posts[i] + 1]
      /\ wire' = [wire EXCEPT ![i] = "inflight"]
      /\ pc' = [pc EXCEPT ![r] = "wait"]
      /\ UNCHANGED <<status, request, exec, notified, todo, plan, snap, result>>
  BY DEF Post, Goto
<1>3. /\ posts[i] = 0 /\ wire[i] = "idle"
      /\ status[i] \in {"executing", "completed", "failed"}
  BY <1>2 DEF IInv, TypeOK, TickConsistent, RowConsistent, Delivering
\* Nobody else is at the POST of i, and nobody takes it for accepted.
<1>4. ASSUME NEW s \in Replica, s # r PROVE ~InDelivery(s, i)
  BY <1>2, <1>4 DEF IInv, OneHolder, InDelivery, Delivering
<1>5. \A j \in Intent : RowConsistent(j)'
  BY <1>2, <1>3 DEF IInv, TypeOK, RowConsistent
<1>6. OneActivePerVehicle'
  BY <1>2 DEF IInv, OneActivePerVehicle
<1>7. ASSUME NEW s \in Replica, NEW j \in Intent PROVE TickConsistent(s, j)'
  <2>1. Current(s, j)' <=> Current(s, j)
    BY <1>2, CurrentStays
  <2>2. TickConsistent(s, j)
    BY DEF IInv
  <2>3. CASE s = r
    BY <1>2, <1>3, <2>1, <2>2, <2>3, CurrentUnique
       DEF IInv, TypeOK, TickConsistent, Delivering
  <2>4. CASE s # r
    BY <1>2, <1>3, <1>4, <2>1, <2>2, <2>4
       DEF IInv, TypeOK, TickConsistent, InDelivery, Delivering
  <2>. QED
    BY <2>3, <2>4
<1>8. OneHolder'
  <2>1. ASSUME NEW j \in Intent, InDelivery(r, j)' PROVE InDelivery(r, j)
    BY <1>2, <2>1, CurrentStays DEF InDelivery, Delivering
  <2>. QED
    BY <2>1, HoldersStay, OthersStill DEF IInv, Run, Evaluate
<1>. QED
  BY <1>1, <1>5, <1>6, <1>7, <1>8 DEF IInv

LEMMA RecordInv ==
  ASSUME IInv, NEW r \in Replica, NEW i \in Intent, Record(r, i)
  PROVE  IInv'
<1>. USE DEF rowVars, traccarVars
<1>1. TypeOK'
  BY EvaluateType DEF IInv, Evaluate
<1>2. /\ pc[r] = "record" /\ Current(r, i) /\ wire[i] = "accepted"
      /\ pc' = [pc EXCEPT ![r] = "complete"]
      /\ UNCHANGED <<status, request, notified, wire, posts, todo, plan, snap, result>>
  BY DEF Record, Goto, IInv, TickConsistent
<1>3. \A j \in Intent : /\ exec'[j].error = exec[j].error
                        /\ j # i => exec'[j].recorded = exec[j].recorded
  <2>1. exec' = exec \/ exec' = [exec EXCEPT ![i].recorded = TRUE]
    BY DEF Record
  <2>2. exec \in [Intent -> Exec]
    BY DEF IInv, TypeOK
  <2>. QED
    BY <2>1, <2>2 DEF Exec
<1>4. \A j \in Intent : RowConsistent(j)'
  BY <1>2, <1>3 DEF IInv, TypeOK, RowConsistent
<1>5. OneActivePerVehicle'
  BY <1>2 DEF IInv, OneActivePerVehicle
<1>6. ASSUME NEW s \in Replica, NEW j \in Intent PROVE TickConsistent(s, j)'
  <2>1. Current(s, j)' <=> Current(s, j)
    BY <1>2, CurrentStays
  <2>2. TickConsistent(s, j)
    BY DEF IInv
  <2>. QED
    BY <1>2, <1>3, <2>1, <2>2, CurrentUnique DEF IInv, TypeOK, TickConsistent, Delivering
<1>7. OneHolder'
  <2>1. ASSUME NEW j \in Intent, InDelivery(r, j)' PROVE InDelivery(r, j)
    BY <1>2, <2>1, CurrentStays DEF InDelivery, Delivering
  <2>. QED
    BY <2>1, HoldersStay, OthersStill DEF IInv, Run, Evaluate
<1>. QED
  BY <1>1, <1>4, <1>5, <1>6, <1>7 DEF IInv

LEMMA FinalizeInv ==
  ASSUME IInv, NEW r \in Replica, NEW i \in Intent, Complete(r, i) \/ Fail(r, i)
  PROVE  IInv'
<1>. USE DEF rowVars, traccarVars
<1>1. TypeOK'
  BY EvaluateType DEF IInv, Evaluate
<1>2. PICK to \in {"completed", "failed"}, error \in Result :
        /\ Finalize(r, i, to, error, to)
        /\ to = "completed" => pc[r] = "complete"
  <2>1. CASE Complete(r, i)
    BY <2>1 DEF Complete, Result
  <2>2. CASE Fail(r, i)
    BY <2>2 DEF Fail, IInv, TypeOK
  <2>. QED
    BY <2>1, <2>2
<1>3. pc[r] \in Delivering /\ Current(r, i)
  BY DEF Complete, Fail, Delivering
<1>4. CASE status[i] # "executing"
  <2>1. Finished(r, i) /\ RowsSame
    BY <1>2, <1>4 DEF Finalize, RowsSame
  <2>. QED
    BY <1>1, <2>1, FinishedInv DEF Run, Evaluate
<1>5. CASE status[i] = "executing"
  <2>1. /\ Close(i, to, error)
        /\ pc' = [pc EXCEPT ![r] = "notify"] /\ result' = [result EXCEPT ![r] = to]
        /\ UNCHANGED <<request, notified, wire, posts, todo, plan, snap>>
    BY <1>2, <1>5 DEF Finalize, Goto
  <2>2. to = "completed" => wire[i] = "accepted"
    BY <1>2, <1>3 DEF IInv, TickConsistent
  <2>3. \A j \in Intent : RowConsistent(j)'
    BY <1>5, <2>1, <2>2 DEF Close, IInv, TypeOK, RowConsistent, Terminal
  <2>4. OneActivePerVehicle'
    BY <2>1 DEF Close, IInv, TypeOK, OneActivePerVehicle, Active, Cancellable
  \* r was the only holder of i, and is one no more.
  <2>5. ASSUME NEW s \in Replica, s # r PROVE ~InDelivery(s, i)
    BY <1>3, <2>5 DEF IInv, OneHolder, InDelivery
  <2>6. ASSUME NEW s \in Replica, NEW j \in Intent PROVE TickConsistent(s, j)'
    <3>1. Current(s, j)' <=> Current(s, j)
      BY <2>1, CurrentStays
    <3>2. TickConsistent(s, j)
      BY DEF IInv
    <3>3. CASE s = r
      BY <1>3, <2>1, <3>1, <3>2, <3>3, CurrentUnique
         DEF Close, IInv, TypeOK, TickConsistent, Delivering, Terminal
    <3>4. CASE s # r
      BY <1>5, <2>1, <2>5, <3>1, <3>2, <3>4
         DEF Close, IInv, TypeOK, TickConsistent, InDelivery, Delivering, Terminal
    <3>. QED
      BY <3>3, <3>4
  <2>7. OneHolder'
    <3>1. ASSUME NEW j \in Intent PROVE ~InDelivery(r, j)'
      BY <2>1 DEF IInv, TypeOK, InDelivery, Delivering
    <3>. QED
      BY <3>1, HoldersStay, OthersStill DEF IInv, Run, Evaluate
  <2>. QED
    BY <1>1, <2>3, <2>4, <2>6, <2>7 DEF IInv
<1>. QED
  BY <1>4, <1>5

LEMMA NotifyInv ==
  ASSUME IInv, NEW r \in Replica, NEW i \in Intent, Notify(r, i)
  PROVE  IInv'
<1>. USE DEF rowVars, traccarVars
<1>1. TypeOK'
  BY EvaluateType DEF IInv, Evaluate
<1>2. /\ Finished(r, i) /\ result[r] \in Terminal /\ status[i] = result[r]
      /\ notified' = [notified EXCEPT ![i] = notified[i] \cup {result[r]}]
      /\ UNCHANGED <<status, request, exec, wire, posts>>
  BY DEF Notify, IInv, TickConsistent
<1>3. \A j \in Intent : RowConsistent(j)'
  BY <1>2 DEF IInv, TypeOK, RowConsistent
<1>4. OneActivePerVehicle'
  BY <1>2 DEF IInv, OneActivePerVehicle
<1>5. ASSUME NEW s \in Replica, NEW j \in Intent PROVE TickConsistent(s, j)'
  <2>1. CASE s = r
    BY <1>2, <2>1, FinishedTick
  <2>2. CASE s # r
    <3>1. Still(s)
      BY <2>2, OthersStill DEF IInv, Run, Evaluate
    <3>. QED
      BY <1>2, <3>1, StillTick DEF IInv, RowSame
  <2>. QED
    BY <2>1, <2>2
<1>6. OneHolder'
  <2>1. ASSUME NEW j \in Intent PROVE ~InDelivery(r, j)'
    BY <1>2, FinishedTick
  <2>. QED
    BY <2>1, HoldersStay, OthersStill DEF IInv, Run, Evaluate
<1>. QED
  BY <1>1, <1>3, <1>4, <1>5, <1>6 DEF IInv

LEMMA EvaluateInv ==
  ASSUME IInv, NEW r \in Replica, NEW i \in Intent, Evaluate(r, i) \/ EvaluationThrows(r, i)
  PROVE  IInv'
<1>1. CASE PassOver(r, i)
  BY <1>1, EvaluateType, FinishedInv
     DEF IInv, PassOver, RowsSame, rowVars, traccarVars, Run, Evaluate
<1>2. CASE EvaluationThrows(r, i)
  BY <1>2, TickType, FinishedInv
     DEF IInv, EvaluationThrows, RowsSame, rowVars, traccarVars, Fault
<1>. QED
  BY <1>1, <1>2, ReconcileRowInv, ExpireInv, ReadGatesInv, SaveGatesInv, ClaimInv, AwaitInv,
     PostInv, RecordInv, FinalizeInv, NotifyInv DEF Evaluate

\* The steps of a tick that concern no single intent, and a crash.
LEMMA TickInv ==
  ASSUME IInv, NEW r \in Replica,
         \/ Boot(r) \/ StartTick(r) \/ FinishStartup(r) \/ LoadActive(r)
         \/ ReconcileThrows(r) \/ Crash(r)
  PROVE  IInv'
<1>. USE DEF rowVars, traccarVars
<1>1. TypeOK'
  BY TickType DEF IInv, Fault
<1>2. RowsSame
  BY DEF Boot, StartTick, SelectStuck, FinishStartup, LoadActive, ReconcileThrows, Crash,
         RowsSame
<1>3. (\A j \in Intent : RowConsistent(j)') /\ OneActivePerVehicle'
  BY <1>2, RowsSameRows
<1>4. \A s \in Replica \ {r} : Still(s)
  BY OthersStill DEF IInv, Run, Fault
<1>5. pc'[r] \in {"down", "startup", "reconcile", "idle", "next"}
  BY DEF Boot, StartTick, SelectStuck, FinishStartup, LoadActive, ReconcileThrows, Crash,
         IInv, TypeOK
\* A row is planned to be completed only if its delivery was recorded.
<1>6. ASSUME NEW j \in Intent, plan'[r][j] = "complete" PROVE wire[j] = "accepted"
  <2>1. plan[r][j] = "complete" \/ exec[j].recorded
    <3>1. CASE Boot(r) \/ StartTick(r)
      <4>1. plan'[r][j] = Resolve(j)
        BY <3>1 DEF Boot, StartTick, SelectStuck, IInv, TypeOK
      <4>. QED
        BY <1>6, <4>1 DEF Resolve
    <3>2. CASE FinishStartup(r) \/ LoadActive(r)
      BY <1>6, <3>2 DEF FinishStartup, LoadActive
    <3>3. CASE ReconcileThrows(r) \/ Crash(r)
      BY <1>6, <3>3 DEF ReconcileThrows, Crash, NoPlan, IInv, TypeOK
    <3>. QED
      BY <3>1, <3>2, <3>3
  <2>. QED
    BY <2>1 DEF IInv, RowConsistent, TickConsistent
<1>7. ASSUME NEW s \in Replica, NEW j \in Intent PROVE TickConsistent(s, j)'
  <2>1. CASE s = r
    BY <1>2, <1>5, <1>6, <2>1 DEF RowsSame, TickConsistent, Delivering
  <2>2. CASE s # r
    BY <1>2, <1>4, <2>2, StillTick DEF IInv, RowsSame, RowSame
  <2>. QED
    BY <2>1, <2>2
<1>8. OneHolder'
  <2>1. ASSUME NEW j \in Intent PROVE ~InDelivery(r, j)'
    BY <1>5 DEF InDelivery, Delivering
  <2>. QED
    BY <2>1, <1>4, HoldersStay
<1>. QED
  BY <1>1, <1>3, <1>7, <1>8 DEF IInv

\* A new row, and the rows cancelled to make room for it.
LEMMA InsertInv ==
  ASSUME IInv, NEW i \in Intent, NEW v \in Vehicle, NEW action \in Action,
         NEW others \in SUBSET Intent, NEW seen \in Telemetry,
         Fresh(i), Insert(i, v, action, others, seen),
         others \subseteq IntentsOf(v, Cancellable), IntentsOf(v, Active) \subseteq others
  PROVE  IInv'
<1>. USE DEF rowVars, traccarVars, tickVars
<1>1. TypeOK'
  BY InsertType DEF IInv
<1>3. /\ status[i] = "absent"
      /\ status' = [j \in Intent |-> IF j = i THEN "pending"
                                     ELSE IF j \in others THEN "cancelled" ELSE status[j]]
      /\ request' = [request EXCEPT ![i] = [vehicle |-> v, action |-> action]]
      /\ UNCHANGED <<exec, notified, wire, posts, tickVars>>
      /\ \A j \in others : status[j] \in Cancellable
  BY DEF Fresh, Insert, IntentsOf
<1>4. \A j \in Intent : RowConsistent(j)'
  BY <1>3 DEF IInv, TypeOK, RowConsistent, Cancellable, Terminal
<1>5. OneActivePerVehicle'
  <2>1. ASSUME NEW j \in Intent, j # i, status'[j] \in Active
        PROVE  status[j] \in Active /\ j \notin others /\ request'[j].vehicle = request[j].vehicle
    BY <1>3, <2>1 DEF IInv, TypeOK, Active, Cancellable
  \* A row that stays active is not of the new row's vehicle.
  <2>2. ASSUME NEW j \in Intent, j # i, status'[j] \in Active
        PROVE  request'[j].vehicle # request'[i].vehicle
    <3>1. request'[i].vehicle = v
      BY <1>3 DEF IInv, TypeOK
    <3>. QED
      BY <2>1, <2>2, <3>1 DEF IntentsOf
  <2>. QED
    BY <2>1, <2>2 DEF IInv, OneActivePerVehicle
<1>6. ASSUME NEW s \in Replica, NEW j \in Intent PROVE TickConsistent(s, j)'
  <2>1. Current(s, j)' <=> Current(s, j)
    BY <1>3, CurrentStays
  <2>2. TickConsistent(s, j)
    BY DEF IInv
  <2>. QED
    BY <1>3, <2>1, <2>2 DEF TickConsistent, Delivering, Cancellable, Terminal
<1>7. OneHolder'
  <2>1. \A s \in Replica, j \in Intent : InDelivery(s, j)' <=> InDelivery(s, j)
    BY <1>3, CurrentStays DEF InDelivery
  <2>. QED
    BY <2>1 DEF IInv, OneHolder
<1>. QED
  BY <1>1, <1>4, <1>5, <1>6, <1>7 DEF IInv

LEMMA CreateInv == ASSUME IInv, Create PROVE IInv'
<1>1. PICK i \in Intent, v \in Vehicle : CreateImmobilize(i, v) \/ CreateMobilize(i, v)
  BY DEF Create
<1>2. CASE CreateImmobilize(i, v)
  <2>1. PICK seen \in Telemetry : Insert(i, v, "immobilize", {}, seen)
    BY <1>2 DEF CreateImmobilize
  <2>2. Fresh(i) /\ IntentsOf(v, Active) \subseteq {}
    BY <1>2 DEF CreateImmobilize, IndexAdmits
  <2>. QED
    BY <2>1, <2>2, InsertInv DEF Action
<1>3. CASE CreateMobilize(i, v)
  <2>1. PICK seen \in Telemetry : Insert(i, v, "mobilize", IntentsOf(v, Cancellable), seen)
    BY <1>3 DEF CreateMobilize
  <2>2. Fresh(i) /\ IntentsOf(v, Active) \subseteq IntentsOf(v, Cancellable)
    BY <1>3 DEF CreateMobilize, IntentsOf, Active
  <2>3. IntentsOf(v, Cancellable) \in SUBSET Intent
    BY DEF IntentsOf
  <2>. QED
    BY <2>1, <2>2, <2>3, InsertInv DEF Action
<1>. QED
  BY <1>1, <1>2, <1>3

LEMMA CancelInv == ASSUME IInv, NEW i \in Intent, Cancel(i) PROVE IInv'
<1>. USE DEF rowVars, traccarVars, tickVars
<1>1. TypeOK'
  BY NextType DEF IInv, Next
<1>2. /\ status[i] \in Cancellable /\ status' = [status EXCEPT ![i] = "cancelled"]
      /\ notified' = [notified EXCEPT ![i] = notified[i] \cup {"cancelled"}]
      /\ UNCHANGED <<request, exec, wire, posts, tickVars>>
  BY DEF Cancel, Leave
<1>3. \A j \in Intent : RowConsistent(j)'
  BY <1>2 DEF IInv, TypeOK, RowConsistent, Cancellable, Terminal
<1>4. OneActivePerVehicle'
  BY <1>2 DEF IInv, TypeOK, OneActivePerVehicle, Active, Cancellable
<1>5. ASSUME NEW s \in Replica, NEW j \in Intent PROVE TickConsistent(s, j)'
  <2>1. Current(s, j)' <=> Current(s, j)
    BY <1>2, CurrentStays
  <2>2. TickConsistent(s, j)
    BY DEF IInv
  <2>. QED
    BY <1>2, <2>1, <2>2 DEF IInv, TypeOK, TickConsistent, Delivering, Cancellable, Terminal
<1>6. OneHolder'
  <2>1. \A s \in Replica, j \in Intent : InDelivery(s, j)' <=> InDelivery(s, j)
    BY <1>2, CurrentStays DEF InDelivery
  <2>. QED
    BY <2>1 DEF IInv, OneHolder
<1>. QED
  BY <1>1, <1>3, <1>4, <1>5, <1>6 DEF IInv

LEMMA AnswerInv == ASSUME IInv, NEW i \in Intent, TraccarAnswers(i) PROVE IInv'
<1>. USE DEF rowVars, traccarVars, tickVars
<1>1. TypeOK'
  BY NextType DEF IInv, Next
<1>2. /\ wire[i] = "inflight"
      /\ \E answer \in {"accepted", "rejected"} : wire' = [wire EXCEPT ![i] = answer]
      /\ UNCHANGED <<status, request, exec, notified, posts, tickVars>>
  BY DEF TraccarAnswers
<1>3. \A j \in Intent : RowConsistent(j)'
  BY <1>2 DEF IInv, TypeOK, RowConsistent
<1>4. OneActivePerVehicle'
  BY <1>2 DEF IInv, OneActivePerVehicle
<1>5. ASSUME NEW s \in Replica, NEW j \in Intent PROVE TickConsistent(s, j)'
  <2>1. Current(s, j)' <=> Current(s, j)
    BY <1>2, CurrentStays
  <2>2. TickConsistent(s, j)
    BY DEF IInv
  <2>. QED
    BY <1>2, <2>1, <2>2 DEF IInv, TypeOK, TickConsistent
<1>6. OneHolder'
  <2>1. \A s \in Replica, j \in Intent : InDelivery(s, j)' <=> InDelivery(s, j)
    BY <1>2, CurrentStays DEF InDelivery
  <2>. QED
    BY <2>1 DEF IInv, OneHolder
<1>. QED
  BY <1>1, <1>3, <1>4, <1>5, <1>6 DEF IInv

\* The passing of time moves timers only.
LEMMA TimeInv == ASSUME IInv, TimePasses PROVE IInv'
<1>. USE DEF rowVars, traccarVars, tickVars
<1>1. TypeOK'
  BY TimeType DEF IInv
<1>2. /\ UNCHANGED <<status, request, notified, wire, posts, pc, todo, result, plan>>
      /\ \A i \in Intent : /\ exec'[i].recorded = exec[i].recorded
                           /\ exec'[i].error = exec[i].error
      /\ \A s \in Replica, i \in Intent : snap'[s][i].status = snap[s][i].status
  BY DEF TimePasses, IInv, TypeOK, Exec
<1>3. \A j \in Intent : RowConsistent(j)'
  BY <1>2 DEF IInv, RowConsistent
<1>4. OneActivePerVehicle'
  BY <1>2 DEF IInv, OneActivePerVehicle
<1>5. ASSUME NEW s \in Replica, NEW j \in Intent PROVE TickConsistent(s, j)'
  BY <1>2, CurrentStays DEF IInv, TickConsistent
<1>6. OneHolder'
  <2>1. \A s \in Replica, j \in Intent : InDelivery(s, j)' <=> InDelivery(s, j)
    BY <1>2, CurrentStays DEF InDelivery
  <2>. QED
    BY <2>1 DEF IInv, OneHolder
<1>. QED
  BY <1>1, <1>3, <1>4, <1>5, <1>6 DEF IInv

LEMMA InitInv == Init => IInv
<1>. SUFFICES ASSUME Init PROVE IInv
  OBVIOUS
<1>1. TypeOK
  BY InitTypeOK
<1>2. \A i \in Intent : RowConsistent(i)
  BY DEF Init, RowConsistent, NoExec, Terminal
<1>3. OneActivePerVehicle
  BY DEF Init, OneActivePerVehicle, Active, Cancellable
<1>4. (\A r \in Replica : \A i \in Intent : TickConsistent(r, i)) /\ OneHolder
  BY DEF Init, TickConsistent, OneHolder, InDelivery, Current, NoPlan
<1>. QED
  BY <1>1, <1>2, <1>3, <1>4 DEF IInv

LEMMA StutterInv == ASSUME IInv, UNCHANGED vars PROVE IInv'
<1>. USE DEF vars, rowVars, traccarVars, tickVars
<1>1. TypeOK' /\ RowsSame
  BY NextType DEF IInv, RowsSame
<1>2. (\A j \in Intent : RowConsistent(j)') /\ OneActivePerVehicle'
  BY <1>1, RowsSameRows
<1>3. \A s \in Replica : Still(s)
  BY DEF Still
<1>4. \A s \in Replica, j \in Intent : TickConsistent(s, j)'
  BY <1>1, <1>3, StillTick DEF IInv, RowsSame, RowSame
<1>5. OneHolder'
  <2>1. \A s \in Replica, j \in Intent : InDelivery(s, j)' <=> InDelivery(s, j)
    BY CurrentStays DEF InDelivery
  <2>. QED
    BY <2>1 DEF IInv, OneHolder
<1>. QED
  BY <1>1, <1>2, <1>4, <1>5 DEF IInv

LEMMA NextInv == IInv /\ [Next]_vars => IInv'
<1>. SUFFICES ASSUME IInv, [Next]_vars PROVE IInv'
  OBVIOUS
<1>1. ASSUME NEW r \in Replica, Run(r) \/ Fault(r) PROVE IInv'
  BY <1>1, TickInv, EvaluateInv, AwaitInv DEF Run, Fault
<1>. QED
  BY <1>1, CreateInv, CancelInv, AnswerInv, TimeInv, StutterInv DEF Next

-----------------------------------------------------------------------------
THEOREM Invariance == Spec => []IInv
  BY InitInv, NextInv, PTL DEF Spec

\* The claim is the only way to the POST, for any number of replicas and crashes.
THEOREM PostOnce == Spec => []AtMostOnePost
<1>1. IInv => AtMostOnePost
  BY DEF IInv, RowConsistent, AtMostOnePost
<1>. QED
  BY <1>1, Invariance, PTL

\* An intent that was withdrawn has sent nothing and never will.
THEOREM WithdrawnIsSilent == Spec => []WithdrawnNeverSent
<1>1. IInv => WithdrawnNeverSent
  BY DEF IInv, RowConsistent, WithdrawnNeverSent
<1>. QED
  BY <1>1, Invariance, PTL

\* Neither an evaluator nor the watchdog reports a command completed that
\* Traccar did not accept.
THEOREM CompletedIsTrue == Spec => []CompletedMeansAccepted
<1>1. IInv => CompletedMeansAccepted
  BY DEF IInv, RowConsistent, CompletedMeansAccepted
<1>. QED
  BY <1>1, Invariance, PTL

\* Commands for one vehicle cross only behind the watchdog's back.
THEOREM RivalsBehindWatchdog == Spec => []RivalsOnlyAfterWatchdog
<1>1. ASSUME IInv, NEW r \in Replica, NEW i \in Intent, pc[r] \in Delivering, Current(r, i)
      PROVE  \/ status[i] \in {"executing", "completed"}
             \/ status[i] = "failed" /\ exec[i].error = "claim_timeout"
  BY <1>1 DEF IInv, TickConsistent
<1>2. IInv => RivalsOnlyAfterWatchdog
  BY <1>1 DEF RivalsOnlyAfterWatchdog, IInv, OneActivePerVehicle, Active
<1>. QED
  BY <1>2, Invariance, PTL

\* What operators are told of an intent is its final state.
THEOREM NoticesAreFinal == Spec => []NotifiedIsFinal
<1>1. IInv => NotifiedIsFinal
  BY DEF IInv, RowConsistent, NotifiedIsFinal
<1>. QED
  BY <1>1, Invariance, PTL

-----------------------------------------------------------------------------
(* WindowInv is inductive with one evaluator at a time, and a stop waits    *)
(* for its safe window.                                                    *)

\* What a step of another replica leaves to s.
Untouched(s) ==
  /\ pc'[s] = pc[s] /\ todo'[s] = todo[s] /\ verdict'[s] = verdict[s]
  /\ snap'[s] = snap[s]

\* No row disappears, and the unsafe moments on record stay or are forgotten.
RowsKept(S) ==
  \A j \in S : /\ status[j] # "absent" => status'[j] # "absent"
               /\ sinceUnsafe'[j] \in {sinceUnsafe[j], Off}

LEMMA OthersUntouched ==
  ASSUME TypeOK, NEW r \in Replica, Run(r) \/ Fault(r), NEW s \in Replica \ {r}
  PROVE  Untouched(s)
<1>. USE DEF TypeOK, Untouched, rowVars, traccarVars, tickVars, Finished, Goto
<1>1. ASSUME NEW i \in Intent, Evaluate(r, i) PROVE Untouched(s)
  <2>1. CASE ReconcileRow(r, i) \/ Expire(r, i) \/ PassOver(r, i)
    BY <2>1 DEF ReconcileRow, Expire, PassOver
  <2>2. CASE ReadGates(r, i)
    BY <2>2 DEF ReadGates
  <2>3. CASE SaveGates(r, i)
    BY <2>3 DEF SaveGates
  <2>4. CASE Claim(r, i)
    BY <2>4 DEF Claim
  <2>5. CASE CheckAssignment(r, i) \/ Post(r, i)
    BY <2>5 DEF CheckAssignment, Post
  <2>6. CASE Got2xx(r, i) \/ TimedOut(r, i) \/ Threw(r, i)
    BY <2>6 DEF Got2xx, TimedOut, Threw, Await
  <2>7. CASE Record(r, i) \/ Notify(r, i)
    BY <2>7 DEF Record, Notify
  <2>8. CASE Complete(r, i) \/ Fail(r, i)
    BY <2>8 DEF Complete, Fail, Finalize
  <2>. QED
    BY <1>1, <2>1, <2>2, <2>3, <2>4, <2>5, <2>6, <2>7, <2>8 DEF Evaluate
<1>2. CASE Boot(r) \/ StartTick(r) \/ FinishStartup(r)
  BY <1>2 DEF Boot, StartTick, SelectStuck, FinishStartup
<1>3. CASE LoadActive(r)
  BY <1>3 DEF LoadActive
<1>4. CASE ReconcileThrows(r) \/ Crash(r)
  BY <1>4 DEF ReconcileThrows, Crash
<1>5. ASSUME NEW i \in Intent, EvaluationThrows(r, i) \/ DeliveryThrows(r, i) PROVE Untouched(s)
  BY <1>5 DEF EvaluationThrows, DeliveryThrows
<1>. QED
  BY <1>1, <1>2, <1>3, <1>4, <1>5 DEF Run, Fault

LEMMA AgedBacked ==
  ASSUME NEW t \in Elapsed(SafeDuration), NEW u \in Elapsed(SafeDuration),
         t # Off => u = Off \/ u >= t
  PROVE  LET aged == Aged(u, SafeDuration) IN
         /\ t # Off => aged = Off \/ aged >= t
         /\ Aged(t, SafeDuration) # Off => aged = Off \/ aged >= Aged(t, SafeDuration)
BY ConstantsAssumption DEF Aged, Elapsed, Off

\* A replica at rest holds no copies, so nothing can put it in the wrong.
LEMMA RestingCopies ==
  ASSUME NEW s \in Replica, (pc[s] \in AtRest)', (todo[s] = {})'
  PROVE  CopiesBacked(s)'
BY DEF CopiesBacked, AtRest, Current

LEMMA UntouchedCopies ==
  ASSUME NEW s \in Replica, CopiesBacked(s), Untouched(s), RowsKept(Intent),
         TypeOK, UNCHANGED request
  PROVE  CopiesBacked(s)'
<1>1. \A i \in Intent : Current(s, i)' <=> Current(s, i)
  BY CurrentStays DEF Untouched
<1>2. todo[s] \subseteq Intent
  BY DEF TypeOK
<1>. QED
  BY <1>1, <1>2 DEF CopiesBacked, Untouched, RowsKept, Backed

\* The current intent is dropped; what was saved of it concerns no other.
LEMMA FinishedCopies ==
  ASSUME TypeOK, NEW r \in Replica, NEW i \in Intent, CopiesBacked(r), Finished(r, i),
         Current(r, i), RowsKept(Intent \ {i})
  PROVE  CopiesBacked(r)'
<1>1. /\ todo'[r] = todo[r] \ {i} /\ verdict'[r] = FALSE
      /\ \A j \in Intent \ {i} : snap'[r][j] = snap[r][j]
      /\ pc'[r] \in {"idle", "next"} /\ (pc'[r] = "idle" => todo'[r] = {})
  BY DEF Finished, TypeOK
<1>2. todo[r] \subseteq Intent
  BY DEF TypeOK
<1>. QED
  BY <1>1, <1>2 DEF CopiesBacked, AtRest, RowsKept, Backed

\* A tick past the gates moves on with the copies it has.
LEMMA MovedOnCopies ==
  ASSUME TypeOK, NEW r \in Replica, CopiesBacked(r), RowsKept(Intent),
         pc'[r] \in Delivering \cup {"notify"}, UNCHANGED <<todo, snap>>
  PROVE  CopiesBacked(r)'
BY DEF TypeOK, CopiesBacked, AtRest, Delivering, RowsKept, Backed

\* Gate timers and unsafe moments stay as they are, or are forgotten together.
GatesKept ==
  \A j \in Intent :
    \/ gate'[j] = gate[j] /\ sinceUnsafe'[j] = sinceUnsafe[j]
    \/ gate'[j] = NoGate

LEMMA KeptGates ==
  ASSUME GatesKept, NEW j \in Intent, Backed(j, gate[j].safe)
  PROVE  Backed(j, gate[j].safe)'
BY DEF GatesKept, Backed, NoGate

\* Leaving the cancellable statuses forgets the gates of the row.
LEMMA LeaveKeeps ==
  ASSUME TypeOK, NEW i \in Intent, NEW to \in Status \ {"absent"}, Leave(i, to)
  PROVE  GatesKept /\ RowsKept(Intent)
BY DEF TypeOK, Leave, GatesKept, RowsKept

LEMMA CloseKeeps ==
  ASSUME TypeOK, NEW i \in Intent, NEW to \in Status \ {"absent"}, NEW error,
         Close(i, to, error), UNCHANGED <<gate, sinceUnsafe>>
  PROVE  GatesKept /\ RowsKept(Intent)
BY DEF TypeOK, Close, GatesKept, RowsKept

LEMMA UnchangedKeeps ==
  ASSUME UNCHANGED <<status, gate, sinceUnsafe>>
  PROVE  GatesKept /\ RowsKept(Intent)
BY DEF GatesKept, RowsKept

\* The steps of r on i other than reading and saving the gates.
LEMMA DeliverWindow ==
  ASSUME TypeOK, NEW r \in Replica, NEW i \in Intent, CopiesBacked(r),
         \/ Expire(r, i) \/ PassOver(r, i) \/ Claim(r, i) \/ CheckAssignment(r, i)
         \/ Post(r, i) \/ Got2xx(r, i) \/ TimedOut(r, i) \/ Threw(r, i) \/ Record(r, i)
         \/ Complete(r, i) \/ Fail(r, i) \/ Notify(r, i)
         \/ EvaluationThrows(r, i) \/ DeliveryThrows(r, i)
  PROVE  CopiesBacked(r)' /\ GatesKept /\ RowsKept(Intent) /\ UNCHANGED request
<1>. USE DEF rowVars, traccarVars
<1>1. CASE Expire(r, i)
  <2>1. Leave(i, "expired") /\ Goto(r, "notify") /\ UNCHANGED <<request, snap>>
    BY <1>1 DEF Expire
  <2>2. GatesKept /\ RowsKept(Intent)
    BY <2>1, LeaveKeeps DEF Status, Terminal
  <2>3. pc'[r] = "notify"
    BY <2>1 DEF Goto, TypeOK
  <2>. QED
    BY <2>1, <2>2, <2>3, MovedOnCopies DEF Goto
<1>2. CASE PassOver(r, i) \/ Notify(r, i) \/ EvaluationThrows(r, i)
  <2>1. /\ Current(r, i) /\ Finished(r, i)
        /\ UNCHANGED <<status, request, gate, sinceUnsafe>>
    BY <1>2 DEF PassOver, Notify, EvaluationThrows
  <2>2. GatesKept /\ RowsKept(Intent) /\ RowsKept(Intent \ {i})
    BY <2>1, UnchangedKeeps DEF RowsKept
  <2>. QED
    BY <2>1, <2>2, FinishedCopies
<1>3. CASE Claim(r, i)
  <2>1. CASE Claimable(i)
    <3>1. Leave(i, "executing") /\ Goto(r, "assign") /\ UNCHANGED <<request, snap>>
      BY <1>3, <2>1 DEF Claim
    <3>2. GatesKept /\ RowsKept(Intent)
      BY <3>1, LeaveKeeps DEF Status, Active
    <3>3. pc'[r] = "assign"
      BY <3>1 DEF Goto, TypeOK
    <3>. QED
      BY <3>1, <3>2, <3>3, MovedOnCopies DEF Goto, Delivering
  <2>2. CASE ~Claimable(i)
    <3>1. /\ Current(r, i) /\ Finished(r, i)
          /\ UNCHANGED <<status, request, gate, sinceUnsafe>>
      BY <1>3, <2>2 DEF Claim
    <3>2. GatesKept /\ RowsKept(Intent) /\ RowsKept(Intent \ {i})
      BY <3>1, UnchangedKeeps DEF RowsKept
    <3>. QED
      BY <3>1, <3>2, FinishedCopies
  <2>. QED
    BY <2>1, <2>2
<1>4. CASE \/ CheckAssignment(r, i) \/ Post(r, i) \/ Got2xx(r, i) \/ TimedOut(r, i)
           \/ Threw(r, i) \/ Record(r, i) \/ DeliveryThrows(r, i)
  <2>1. /\ UNCHANGED <<status, request, gate, sinceUnsafe, snap>>
        /\ \E step \in {"post", "fail", "wait", "record", "complete"} : Goto(r, step)
    BY <1>4 DEF CheckAssignment, Post, Got2xx, TimedOut, Threw, Await, Record, DeliveryThrows
  <2>2. GatesKept /\ RowsKept(Intent)
    BY <2>1, UnchangedKeeps
  <2>3. pc'[r] \in Delivering /\ UNCHANGED todo
    BY <2>1 DEF Goto, TypeOK, Delivering
  <2>. QED
    BY <2>1, <2>2, <2>3, MovedOnCopies
<1>5. CASE Complete(r, i) \/ Fail(r, i)
  <2>1. PICK to \in {"completed", "failed"}, error \in Result :
          Current(r, i) /\ Finalize(r, i, to, error, to)
    BY <1>5 DEF Complete, Fail, TypeOK, Result
  <2>2. CASE status[i] = "executing"
    <3>1. /\ Close(i, to, error) /\ Goto(r, "notify")
          /\ UNCHANGED <<request, gate, sinceUnsafe, snap>>
      BY <2>1, <2>2 DEF Finalize
    <3>2. GatesKept /\ RowsKept(Intent)
      BY <3>1, CloseKeeps DEF Status, Terminal
    <3>3. pc'[r] = "notify"
      BY <3>1 DEF Goto, TypeOK
    <3>. QED
      BY <3>1, <3>2, <3>3, MovedOnCopies DEF Goto
  <2>3. CASE status[i] # "executing"
    <3>1. Finished(r, i) /\ UNCHANGED <<status, request, gate, sinceUnsafe>>
      BY <2>1, <2>3 DEF Finalize
    <3>2. GatesKept /\ RowsKept(Intent) /\ RowsKept(Intent \ {i})
      BY <3>1, UnchangedKeeps DEF RowsKept
    <3>. QED
      BY <2>1, <3>1, <3>2, FinishedCopies
  <2>. QED
    BY <2>2, <2>3
<1>. QED
  BY <1>1, <1>2, <1>3, <1>4, <1>5

\* Reading the gates starts a timer only at a safe reading, and finds a stop
\* authorized only if the timer it keeps has run out.
LEMMA ReadGatesWindow ==
  ASSUME TypeOK, NEW r \in Replica, NEW i \in Intent, CopiesBacked(r), ReadGates(r, i)
  PROVE  CopiesBacked(r)'
<1>. USE DEF rowVars, traccarVars
<1>. DEFINE safe(seen)   == TimerAfter(seen = "safe", snap[r][i].safe)
            online(seen) == TimerAfter(Connected(seen), snap[r][i].online)
<1>1. PICK seen \in Telemetry :
        /\ snap' = [snap EXCEPT ![r][i] = [status |-> snap[r][i].status,
                                           safe |-> safe(seen), online |-> online(seen)]]
        /\ verdict' = [verdict EXCEPT ![r] =
                         Authorized(request[i].action, seen, safe(seen), online(seen))]
  BY DEF ReadGates
<1>2. /\ Current(r, i) /\ pc' = [pc EXCEPT ![r] = "gated"]
      /\ UNCHANGED <<status, request, sinceUnsafe, todo>>
  BY DEF ReadGates, Goto
<1>3. \A j \in Intent : j # i => snap'[r][j] = snap[r][j]
  BY <1>1 DEF TypeOK
<1>4. snap'[r][i].safe = safe(seen)
  BY <1>1 DEF TypeOK
<1>5. i \in todo[r] /\ todo[r] \subseteq Intent
  BY <1>2 DEF Current, TypeOK
<1>6. safe(seen) # Off => sinceUnsafe[i] = Off \/ sinceUnsafe[i] >= safe(seen)
  <2>1. sinceUnsafe[i] \in Elapsed(SafeDuration)
    BY DEF TypeOK
  <2>2. safe(seen) \in {Off, 0, snap[r][i].safe}
    BY DEF TimerAfter
  <2>3. Backed(i, snap[r][i].safe)
    BY <1>5 DEF CopiesBacked
  <2>. HIDE DEF safe
  <2>. QED
    BY <2>1, <2>2, <2>3 DEF Backed, Elapsed, Off
<1>7. ASSUME verdict'[r], request[i].action = "immobilize" PROVE safe(seen) = SafeDuration
  <2>. HIDE DEF safe, online
  <2>1. Authorized(request[i].action, seen, safe(seen), online(seen))
    BY <1>1, <1>7 DEF TypeOK
  <2>. QED
    BY <1>7, <2>1 DEF Authorized, Reached
<1>. HIDE DEF safe, online
<1>8. pc'[r] = "gated"
  BY <1>2 DEF TypeOK
<1>9. \A j \in todo'[r] : (status[j] # "absent")' /\ Backed(j, snap[r][j].safe)'
  <2>1. ASSUME NEW j \in todo[r] PROVE status'[j] # "absent" /\ Backed(j, snap[r][j].safe)'
    <3>1. CASE j = i
      BY <1>2, <1>4, <1>5, <1>6, <3>1 DEF CopiesBacked, Backed
    <3>2. CASE j # i
      BY <1>2, <1>3, <1>5, <3>2 DEF CopiesBacked, Backed
    <3>. QED
      BY <3>1, <3>2
  <2>. QED
    BY <1>2, <2>1
<1>10. ASSUME NEW j \in Intent, Current(r, j)', verdict'[r], request'[j].action = "immobilize"
       PROVE  snap'[r][j].safe = SafeDuration
  <2>1. j = i
    BY <1>2, <1>10, CurrentStays, CurrentUnique
  <2>. QED
    BY <1>2, <1>4, <1>7, <1>10, <2>1
<1>. QED
  BY <1>8, <1>9, <1>10 DEF CopiesBacked, AtRest

\* What is saved of the gates is the copy: an unsafe reading is put on record
\* together with a timer that is off.
LEMMA SaveGatesWindow ==
  ASSUME TypeOK, NEW r \in Replica, NEW i \in Intent, CopiesBacked(r), SaveGates(r, i),
         \A j \in Intent : Backed(j, gate[j].safe)
  PROVE  /\ CopiesBacked(r)' /\ \A j \in Intent : Backed(j, gate[j].safe)'
         /\ \A j \in Intent : status[j] # "absent" => status'[j] # "absent"
<1>. USE DEF rowVars, traccarVars
<1>1. Current(r, i) /\ i \in todo[r] /\ todo[r] \subseteq Intent
  BY DEF SaveGates, Current, TypeOK
<1>2. CASE status[i] = snap[r][i].status
  <2>1. /\ status' = [status EXCEPT ![i] = "monitoring"]
        /\ gate' = [gate EXCEPT ![i] = [ttl |-> gate[i].ttl, safe |-> snap[r][i].safe,
                                        online |-> snap[r][i].online]]
        /\ sinceUnsafe' = [sinceUnsafe EXCEPT ![i] =
                             IF snap[r][i].safe = Off THEN 0 ELSE sinceUnsafe[i]]
        /\ \/ Finished(r, i)
           \/ verdict[r] /\ Goto(r, "claim") /\ UNCHANGED <<snap, verdict>>
        /\ UNCHANGED request
    BY <1>2 DEF SaveGates
  <2>2. /\ gate'[i].safe = snap[r][i].safe
        /\ sinceUnsafe'[i] = IF snap[r][i].safe = Off THEN 0 ELSE sinceUnsafe[i]
        /\ status'[i] = "monitoring"
    BY <2>1 DEF TypeOK
  <2>3. \A j \in Intent \ {i} : /\ gate'[j] = gate[j] /\ sinceUnsafe'[j] = sinceUnsafe[j]
                                /\ status'[j] = status[j]
    BY <2>1 DEF TypeOK
  <2>4. Backed(i, snap[r][i].safe) /\ (snap[r][i].safe # Off => sinceUnsafe'[i] = sinceUnsafe[i])
    BY <1>1, <2>2 DEF CopiesBacked
  <2>5. \A j \in Intent : Backed(j, gate[j].safe)'
    BY <2>2, <2>3, <2>4 DEF Backed
  <2>6. CopiesBacked(r)'
    <3>1. CASE Finished(r, i)
      BY <1>1, <2>3, <3>1, FinishedCopies DEF RowsKept
    <3>2. CASE verdict[r] /\ Goto(r, "claim") /\ UNCHANGED <<snap, verdict>>
      <4>1. pc'[r] = "claim" /\ UNCHANGED <<todo, snap, verdict, request>>
        BY <2>1, <3>2 DEF Goto, TypeOK
      <4>2. \A j \in todo'[r] : (status[j] # "absent")' /\ Backed(j, snap[r][j].safe)'
        BY <1>1, <2>2, <2>3, <2>4, <4>1 DEF CopiesBacked, Backed
      <4>3. \A j \in Intent : Current(r, j)' <=> Current(r, j)
        BY <4>1, CurrentStays
      <4>4. pc[r] = "gated"
        BY DEF SaveGates
      <4>. QED
        BY <3>2, <4>1, <4>2, <4>3, <4>4 DEF CopiesBacked, AtRest
    <3>. QED
      BY <2>1, <3>1, <3>2
  <2>. QED
    BY <2>2, <2>3, <2>5, <2>6
<1>3. CASE status[i] # snap[r][i].status
  <2>1. Finished(r, i) /\ UNCHANGED <<status, gate, sinceUnsafe>>
    BY <1>3 DEF SaveGates
  <2>2. CopiesBacked(r)'
    BY <1>1, <2>1, UnchangedKeeps, FinishedCopies DEF RowsKept
  <2>. QED
    BY <2>1, <2>2 DEF Backed
<1>. QED
  BY <1>2, <1>3

\* The steps of a tick that concern no single intent, a row the watchdog
\* closes, and a crash.
LEMMA TickWindow ==
  ASSUME TypeOK, NEW r \in Replica, CopiesBacked(r), \A j \in Intent : Backed(j, gate[j].safe),
         \/ Boot(r) \/ StartTick(r) \/ FinishStartup(r) \/ LoadActive(r)
         \/ ReconcileThrows(r) \/ Crash(r) \/ \E i \in Intent : ReconcileRow(r, i)
  PROVE  CopiesBacked(r)' /\ GatesKept /\ RowsKept(Intent) /\ UNCHANGED request
<1>. USE DEF rowVars, traccarVars
<1>1. CASE \/ Boot(r) \/ StartTick(r) \/ FinishStartup(r) \/ LoadActive(r)
           \/ ReconcileThrows(r) \/ Crash(r)
  <2>1. UNCHANGED <<status, request, gate, sinceUnsafe>>
    BY <1>1 DEF Boot, StartTick, SelectStuck, FinishStartup, LoadActive, ReconcileThrows, Crash
  <2>2. GatesKept /\ RowsKept(Intent)
    BY <2>1, UnchangedKeeps
  <2>3. CASE LoadActive(r)
    <3>. DEFINE rows == {j \in Intent : status[j] \in Active}
                copy(j) == IF j \in rows THEN [status |-> status[j], safe |-> gate[j].safe,
                                               online |-> gate[j].online]
                           ELSE NoCopy
    <3>1. /\ todo' = [todo EXCEPT ![r] = rows]
          /\ snap' = [snap EXCEPT ![r] = [j \in Intent |-> copy(j)]]
          /\ pc' = [pc EXCEPT ![r] = IF rows = {} THEN "idle" ELSE "next"]
      BY <2>3 DEF LoadActive
    <3>2. \A j \in rows : copy(j).safe = gate[j].safe /\ status[j] # "absent" /\ j \in Intent
      BY DEF Active, Cancellable
    <3>. HIDE DEF rows, copy
    <3>3. /\ todo'[r] = rows /\ pc'[r] = (IF rows = {} THEN "idle" ELSE "next")
          /\ \A j \in Intent : snap'[r][j] = copy(j)
      BY <3>1 DEF TypeOK
    <3>4. \A j \in todo'[r] : (status[j] # "absent")' /\ Backed(j, snap[r][j].safe)'
      BY <2>1, <3>2, <3>3 DEF Backed
    <3>. QED
      BY <2>1, <2>2, <3>3, <3>4 DEF CopiesBacked, AtRest
  <2>4. CASE Boot(r) \/ StartTick(r) \/ FinishStartup(r) \/ ReconcileThrows(r) \/ Crash(r)
    <3>1. /\ pc'[r] \in AtRest \cup {"reconcile"}
          /\ pc[r] \in AtRest \cup {"reconcile"} \/ todo'[r] = {}
          /\ todo'[r] \in {todo[r], {}}
      BY <2>4 DEF Boot, StartTick, SelectStuck, FinishStartup, ReconcileThrows, Crash, TypeOK,
                  AtRest
    <3>2. todo'[r] = {}
      BY <3>1 DEF CopiesBacked
    <3>. QED
      BY <2>1, <2>2, <3>1, <3>2 DEF CopiesBacked, AtRest
  <2>. QED
    BY <1>1, <2>3, <2>4
<1>2. ASSUME NEW i \in Intent, ReconcileRow(r, i)
      PROVE  CopiesBacked(r)' /\ GatesKept /\ RowsKept(Intent) /\ UNCHANGED request
  <2>1. UNCHANGED <<request, gate, sinceUnsafe, pc, todo, verdict, snap>>
    BY <1>2 DEF ReconcileRow
  <2>2. GatesKept /\ RowsKept(Intent)
    <3>1. CASE UNCHANGED <<status, exec>>
      BY <2>1, <3>1, UnchangedKeeps
    <3>2. CASE Close(i, "completed", "none") \/ Close(i, "failed", "claim_timeout")
      BY <2>1, <3>2, CloseKeeps DEF Status, Terminal
    <3>. QED
      BY <1>2, <3>1, <3>2 DEF ReconcileRow
  <2>. QED
    BY <2>1, <2>2, UntouchedCopies DEF Untouched
<1>. QED
  BY <1>1, <1>2

\* One tick at a time stays so: another starts only when all are at rest.
LEMMA OneTickStays ==
  ASSUME TypeOK, OneEvaluator, OneTickAtATime, NEW r \in Replica, Run(r) \/ Fault(r)
  PROVE  OneTickAtATime'
<1>1. \A s \in Replica \ {r} : pc'[s] = pc[s]
  BY OthersUntouched DEF Untouched
<1>2. CASE pc[r] \notin AtRest \/ pc'[r] \in AtRest
  BY <1>1, <1>2 DEF OneTickAtATime
<1>3. CASE pc[r] \in AtRest /\ pc'[r] \notin AtRest
  <2>1. StartTick(r)
    <3>1. CASE Boot(r) \/ FinishStartup(r) \/ Fault(r)
      BY <1>3, <3>1 DEF Boot, FinishStartup, SelectStuck, Fault, ReconcileThrows, Crash,
                        EvaluationThrows, DeliveryThrows, TypeOK, AtRest
    <3>2. CASE LoadActive(r)
      BY <1>3, <3>2 DEF LoadActive, AtRest
    <3>3. ASSUME NEW i \in Intent, Evaluate(r, i) PROVE FALSE
      <4>1. ReconcileRow(r, i)
        BY <1>3, <3>3 DEF Evaluate, AtRest, Expire, PassOver, ReadGates, SaveGates, Claim,
             CheckAssignment, Post, Got2xx, TimedOut, Threw, Await, Record, Complete, Fail, Notify
      <4>. QED
        BY <1>3, <4>1 DEF ReconcileRow
    <3>. QED
      BY <3>1, <3>2, <3>3 DEF Run
  <2>2. \A s \in Replica \ {r} : pc[s] \in AtRest
    BY <2>1 DEF OneEvaluator, StartTick, AtRest
  <2>. QED
    BY <1>1, <2>2 DEF OneTickAtATime
<1>. QED
  BY <1>2, <1>3

\* A step of one replica.
LEMMA RunWindow ==
  ASSUME TypeOK, OneEvaluator, WindowInv, NEW r \in Replica, Run(r) \/ Fault(r)
  PROVE  WindowInv'
<1>1. OneTickAtATime'
  BY OneTickStays DEF WindowInv
<1>2. ASSUME NEW s \in Replica \ {r} PROVE Untouched(s)
  BY OthersUntouched
<1>3. ASSUME NEW i \in Intent, SaveGates(r, i) PROVE WindowInv'
  <2>1. CopiesBacked(r)' /\ \A j \in Intent : Backed(j, gate[j].safe)'
    BY <1>3, SaveGatesWindow DEF WindowInv
  <2>2. ASSUME NEW s \in Replica, s # r PROVE CopiesBacked(s)'
    <3>1. pc[s] \in AtRest
      BY <1>3, <2>2 DEF SaveGates, WindowInv, OneTickAtATime, AtRest
    <3>2. todo[s] = {}
      BY <3>1 DEF WindowInv, CopiesBacked
    <3>. QED
      BY <1>2, <2>2, <3>1, <3>2, RestingCopies DEF Untouched
  <2>. QED
    BY <1>1, <2>1, <2>2 DEF WindowInv
<1>4. ASSUME CopiesBacked(r)', \A j \in Intent : Backed(j, gate[j].safe)', RowsKept(Intent),
             UNCHANGED request
      PROVE  WindowInv'
  <2>1. ASSUME NEW s \in Replica, s # r PROVE CopiesBacked(s)'
    BY <1>2, <1>4, <2>1, UntouchedCopies DEF WindowInv
  <2>. QED
    BY <1>1, <1>4, <2>1 DEF WindowInv
<1>5. ASSUME CopiesBacked(r)', GatesKept, RowsKept(Intent), UNCHANGED request PROVE WindowInv'
  BY <1>4, <1>5, KeptGates DEF WindowInv
<1>6. ASSUME NEW i \in Intent, ReadGates(r, i) PROVE WindowInv'
  <2>1. UNCHANGED <<status, gate, sinceUnsafe, request>>
    BY <1>6 DEF ReadGates, rowVars
  <2>. QED
    BY <1>5, <1>6, <2>1, UnchangedKeeps, ReadGatesWindow DEF WindowInv
<1>7. ASSUME NEW i \in Intent,
             Evaluate(r, i) \/ EvaluationThrows(r, i) \/ DeliveryThrows(r, i),
             ~SaveGates(r, i), ~ReadGates(r, i), ~ReconcileRow(r, i)
      PROVE  WindowInv'
  BY <1>5, <1>7, DeliverWindow DEF WindowInv, Evaluate
<1>8. CASE \/ Boot(r) \/ StartTick(r) \/ FinishStartup(r) \/ LoadActive(r)
           \/ ReconcileThrows(r) \/ Crash(r) \/ \E i \in Intent : ReconcileRow(r, i)
  BY <1>5, <1>8, TickWindow DEF WindowInv
<1>. QED
  BY <1>3, <1>6, <1>7, <1>8 DEF Run, Fault

\* A new row starts its timer at a safe reading, or is on record as unsafe.
LEMMA InsertWindow ==
  ASSUME TypeOK, WindowInv, NEW i \in Intent, NEW v, NEW action, NEW others \in SUBSET Intent,
         NEW seen \in Telemetry, status[i] = "absent", Insert(i, v, action, others, seen)
  PROVE  WindowInv'
<1>1. UNCHANGED <<pc, todo, snap, verdict>>
  BY DEF Insert, tickVars
<1>2. OneTickAtATime'
  BY <1>1 DEF WindowInv, OneTickAtATime
<1>3. \A j \in Intent \ {i} : /\ status[j] # "absent" => status'[j] # "absent"
                              /\ request'[j] = request[j]
                              /\ sinceUnsafe'[j] \in {sinceUnsafe[j], Off}
                              /\ \/ gate'[j] = gate[j] /\ sinceUnsafe'[j] = sinceUnsafe[j]
                                 \/ gate'[j] = NoGate
  BY DEF Insert, TypeOK
<1>4. Backed(i, gate[i].safe)'
  <2>1. /\ gate'[i].safe = TimerAfter(seen = "safe", Off)
        /\ sinceUnsafe'[i] = IF seen = "safe" THEN Off ELSE 0
    BY DEF Insert
  <2>. QED
    BY <2>1 DEF TimerAfter, Backed
<1>5. \A j \in Intent : Backed(j, gate[j].safe)'
  BY <1>3, <1>4 DEF WindowInv, Backed, NoGate
<1>6. ASSUME NEW s \in Replica PROVE CopiesBacked(s)'
  <2>1. \A j \in Intent : Current(s, j)' <=> Current(s, j)
    BY <1>1, CurrentStays
  <2>2. CopiesBacked(s) /\ todo[s] \subseteq Intent
    BY DEF WindowInv, TypeOK
  <2>3. i \notin todo[s]
    BY <2>2 DEF CopiesBacked
  <2>4. ~Current(s, i)
    BY <2>3 DEF Current
  <2>. QED
    BY <1>1, <1>3, <2>1, <2>2, <2>3, <2>4 DEF CopiesBacked, Backed
<1>. QED
  BY <1>2, <1>5, <1>6 DEF WindowInv

\* Time moves the timers and the unsafe moments together.
LEMMA TimeWindow == TypeOK /\ WindowInv /\ TimePasses => WindowInv'
<1>. SUFFICES ASSUME TypeOK, WindowInv, TimePasses PROVE WindowInv'
  OBVIOUS
<1>1. UNCHANGED <<status, request, pc, todo, verdict>>
  BY DEF TimePasses
<1>2. OneTickAtATime'
  BY <1>1 DEF WindowInv, OneTickAtATime
<1>3. \A j \in Intent : sinceUnsafe'[j] = Aged(sinceUnsafe[j], SafeDuration)
                        /\ sinceUnsafe[j] \in Elapsed(SafeDuration)
  BY DEF TimePasses, TypeOK
<1>4. ASSUME NEW j \in Intent PROVE Backed(j, gate[j].safe)'
  <2>1. gate[j].safe \in Elapsed(SafeDuration)
    BY DEF TypeOK, Gate
  <2>2. Backed(j, gate[j].safe)
    BY DEF WindowInv
  <2>3. gate'[j].safe \in {gate[j].safe, Aged(gate[j].safe, SafeDuration)}
    BY DEF TimePasses
  <2>. QED
    BY <1>3, <2>1, <2>2, <2>3, AgedBacked DEF Backed
<1>5. ASSUME NEW s \in Replica PROVE CopiesBacked(s)'
  <2>1. CopiesBacked(s) /\ todo[s] \subseteq Intent
    BY DEF WindowInv, TypeOK
  <2>2. \A j \in Intent : /\ snap[s][j].safe \in Elapsed(SafeDuration)
                          /\ snap'[s][j].safe = Aged(snap[s][j].safe, SafeDuration)
    BY DEF TimePasses, TypeOK, Copy
  <2>3. ASSUME NEW j \in todo[s] PROVE Backed(j, snap[s][j].safe)'
    BY <1>3, <2>1, <2>2, AgedBacked DEF CopiesBacked, Backed
  <2>4. \A j \in Intent : snap[s][j].safe = SafeDuration => snap'[s][j].safe = SafeDuration
    BY <2>2 DEF Aged
  <2>5. \A j \in Intent : Current(s, j)' <=> Current(s, j)
    BY <1>1, CurrentStays
  <2>. QED
    BY <1>1, <2>1, <2>3, <2>4, <2>5 DEF CopiesBacked
<1>. QED
  BY <1>2, <1>4, <1>5 DEF WindowInv

LEMMA InitWindow == Init => WindowInv
BY DEF Init, WindowInv, OneTickAtATime, CopiesBacked, Backed, AtRest, NoGate, Current

LEMMA NextWindow ==
  ASSUME OneEvaluator
  PROVE  TypeOK /\ WindowInv /\ [Next]_vars => WindowInv'
<1>. SUFFICES ASSUME TypeOK, WindowInv, [Next]_vars PROVE WindowInv'
  OBVIOUS
<1>1. ASSUME NEW i \in Intent, NEW v \in Vehicle, CreateImmobilize(i, v) PROVE WindowInv'
  <2>1. PICK seen \in Telemetry : Insert(i, v, "immobilize", {}, seen)
    BY <1>1 DEF CreateImmobilize
  <2>. QED
    BY <1>1, <2>1, InsertWindow DEF CreateImmobilize, Fresh
<1>2. ASSUME NEW i \in Intent, NEW v \in Vehicle, CreateMobilize(i, v) PROVE WindowInv'
  <2>1. PICK seen \in Telemetry : Insert(i, v, "mobilize", IntentsOf(v, Cancellable), seen)
    BY <1>2 DEF CreateMobilize
  <2>2. IntentsOf(v, Cancellable) \in SUBSET Intent
    BY DEF IntentsOf
  <2>. QED
    BY <1>2, <2>1, <2>2, InsertWindow DEF CreateMobilize, Fresh
<1>3. ASSUME UNCHANGED <<request, tickVars>>, GatesKept, RowsKept(Intent) PROVE WindowInv'
  <2>1. OneTickAtATime'
    BY <1>3 DEF WindowInv, OneTickAtATime, tickVars
  <2>2. \A s \in Replica : CopiesBacked(s)'
    BY <1>3, UntouchedCopies DEF WindowInv, Untouched, tickVars
  <2>. QED
    BY <1>3, <2>1, <2>2, KeptGates DEF WindowInv
<1>4. ASSUME NEW i \in Intent, Cancel(i) PROVE WindowInv'
  <2>1. Leave(i, "cancelled") /\ UNCHANGED <<request, tickVars>>
    BY <1>4 DEF Cancel
  <2>. QED
    BY <1>3, <2>1, LeaveKeeps DEF Status, Terminal
<1>5. CASE UNCHANGED vars \/ \E i \in Intent : TraccarAnswers(i)
  BY <1>3, <1>5, UnchangedKeeps DEF vars, TraccarAnswers, rowVars
<1>. QED
  BY <1>1, <1>2, <1>4, <1>5, RunWindow, TimeWindow DEF Next, Create

\* Only a claim makes a row executing, and its claimer had the timer run out.
LEMMA ClaimInWindow ==
  ASSUME TypeOK, WindowInv, [Next]_vars, NEW i \in Intent,
         status[i] # "executing", status'[i] = "executing", request[i].action = "immobilize"
  PROVE  sinceUnsafe[i] = Off \/ sinceUnsafe[i] = SafeDuration
<1>. USE DEF rowVars
<1>1. PICK r \in Replica : Claim(r, i) /\ Claimable(i)
  <2>1. ASSUME Create PROVE FALSE
    <3>1. PICK j \in Intent, v \in Vehicle, action \in Action, others \in SUBSET Intent,
               seen \in Telemetry : Insert(j, v, action, others, seen)
      <4>1. PICK j \in Intent, v \in Vehicle : CreateImmobilize(j, v) \/ CreateMobilize(j, v)
        BY <2>1 DEF Create
      <4>2. CASE CreateImmobilize(j, v)
        BY <4>2, {} \in SUBSET Intent DEF CreateImmobilize, Action
      <4>3. CASE CreateMobilize(j, v)
        BY <4>3, IntentsOf(v, Cancellable) \in SUBSET Intent
           DEF CreateMobilize, Action, IntentsOf
      <4>. QED
        BY <4>1, <4>2, <4>3
    <3>2. status'[i] \in {"pending", "cancelled", status[i]}
      BY <3>1 DEF Insert
    <3>. QED
      BY <3>2
  <2>2. ASSUME NEW j \in Intent, Cancel(j) \/ TraccarAnswers(j) PROVE FALSE
    BY <2>2 DEF Cancel, Leave, TraccarAnswers, TypeOK
  <2>3. ASSUME TimePasses \/ UNCHANGED vars PROVE FALSE
    BY <2>3 DEF TimePasses, vars
  <2>4. ASSUME NEW r \in Replica,
               \/ Boot(r) \/ StartTick(r) \/ FinishStartup(r) \/ LoadActive(r) \/ Fault(r)
        PROVE FALSE
    BY <2>4 DEF Boot, StartTick, SelectStuck, FinishStartup, LoadActive, Fault, ReconcileThrows,
                Crash, EvaluationThrows, DeliveryThrows
  <2>5. ASSUME NEW r \in Replica, NEW j \in Intent, Evaluate(r, j), ~Claim(r, j) PROVE FALSE
    <3>1. CASE ReconcileRow(r, j)
      BY <3>1 DEF ReconcileRow, Close, TypeOK
    <3>2. CASE Expire(r, j)
      BY <3>2 DEF Expire, Leave, TypeOK
    <3>3. CASE SaveGates(r, j)
      BY <3>3 DEF SaveGates, TypeOK
    <3>4. CASE Complete(r, j) \/ Fail(r, j)
      BY <3>4 DEF Complete, Fail, Finalize, Close, TypeOK
    <3>5. CASE \/ PassOver(r, j) \/ ReadGates(r, j) \/ CheckAssignment(r, j) \/ Post(r, j)
               \/ Got2xx(r, j) \/ TimedOut(r, j) \/ Threw(r, j) \/ Record(r, j) \/ Notify(r, j)
      BY <3>5 DEF PassOver, ReadGates, CheckAssignment, Post, Got2xx, TimedOut, Threw, Await,
                  Record, Notify
    <3>. QED
      BY <2>5, <3>1, <3>2, <3>3, <3>4, <3>5 DEF Evaluate
  <2>6. PICK r \in Replica, j \in Intent : Claim(r, j)
    BY <2>1, <2>2, <2>3, <2>4, <2>5 DEF Next, Run
  <2>7. Claimable(j) /\ status' = [status EXCEPT ![j] = "executing"]
    BY <2>6 DEF Claim, Leave
  <2>. QED
    BY <2>6, <2>7 DEF TypeOK
<1>2. pc[r] = "claim" /\ Current(r, i) /\ i \in todo[r]
  BY <1>1 DEF Claim, Current
<1>3. snap[r][i].safe = SafeDuration /\ Backed(i, snap[r][i].safe)
  BY <1>2 DEF WindowInv, CopiesBacked
<1>4. sinceUnsafe[i] \in Elapsed(SafeDuration)
  BY DEF TypeOK
<1>. QED
  BY <1>3, <1>4, ConstantsAssumption DEF Backed, Elapsed, Off

\* Where one evaluator runs at a time, be it by the advisory lock or because
\* only one replica evaluates, WindowInv holds: a running safe-speed timer, in
\* a row or in the copy a tick works on, is younger than the last reading of
\* that intent that was saved as unsafe.
THEOREM WindowInvariance ==
  ASSUME OneEvaluator
  PROVE  Spec => []WindowInv
<1>1. TypeOK /\ WindowInv /\ [Next]_vars => WindowInv'
  BY NextWindow
<1>. QED
  BY <1>1, InitWindow, TypeCorrect, PTL DEF Spec

\* Then no stop is claimed for delivery inside the safe window: what the
\* documentation asks of a deployment of several replicas (IMMOBILIZATION.md:90)
\* is enough.
THEOREM StopsWaitForWindow ==
  ASSUME OneEvaluator
  PROVE  Spec => StopNeedsSafeWindow
<1>1. TypeOK /\ WindowInv /\ [Next]_vars
      => [\A i \in Intent :
            /\ status[i] # "executing" /\ status'[i] = "executing"
            /\ request[i].action = "immobilize"
            => sinceUnsafe[i] = Off \/ sinceUnsafe[i] = SafeDuration]_vars
  BY ClaimInWindow
<1>. QED
  BY <1>1, TypeCorrect, WindowInvariance, PTL DEF Spec, StopNeedsSafeWindow

-----------------------------------------------------------------------------
(* The engine implements IntentLifecycle: with StageOf hiding the gates,   *)
(* the claim and the ticks, each of its steps is one of the lifecycle's or *)
(* changes nothing that an operator sees.                                  *)

\* Nothing an operator sees has changed.
Unseen ==
  /\ \A i \in Intent : StageOf(status'[i]) = StageOf(status[i])
  /\ UNCHANGED <<request, wire>>

LEMMA UnseenStutters == ASSUME Unseen PROVE UNCHANGED Lifecycle!vars
BY DEF Unseen, Lifecycle!vars

\* A change of one row, seen as a change of one stage.
LEMMA StageMoves ==
  ASSUME TypeOK, NEW i \in Intent, NEW from, NEW to \in Status,
         StageOf(status[i]) = from, status' = [status EXCEPT ![i] = to],
         UNCHANGED <<request, wire>>
  PROVE  Lifecycle!Move(i, from, StageOf(to))
<1>1. [j \in Intent |-> StageOf(status'[j])]
        = [[j \in Intent |-> StageOf(status[j])] EXCEPT ![i] = StageOf(to)]
  BY DEF TypeOK
<1>. QED
  BY <1>1 DEF Lifecycle!Move

LEMMA InitLifecycle == Init => Lifecycle!Init
BY DEF Init, Lifecycle!Init, StageOf, Cancellable, NoRequest

\* A new row asks for its vehicle in the place of those it cancels.
LEMMA InsertAsks ==
  ASSUME IInv, NEW i \in Intent, NEW v \in Vehicle, NEW action \in Action,
         NEW others \in SUBSET Intent, NEW seen \in Telemetry,
         Fresh(i), Insert(i, v, action, others, seen),
         others = IntentsOf(v, Cancellable), IntentsOf(v, {"executing"}) = {}
  PROVE  Lifecycle!Ask(i, v)
<1>1. /\ status[i] = "absent"
      /\ status' = [j \in Intent |-> IF j = i THEN "pending"
                                     ELSE IF j \in others THEN "cancelled" ELSE status[j]]
      /\ request' = [request EXCEPT ![i] = [vehicle |-> v, action |-> action]]
      /\ UNCHANGED wire
  BY DEF Fresh, Insert, traccarVars
<1>2. \A j \in Intent : /\ StageOf(status[j]) = "claimed" => status[j] = "executing"
                        /\ StageOf(status[j]) = "waiting" <=> status[j] \in Cancellable
  BY DEF IInv, TypeOK, Status, Active, Terminal, StageOf, Cancellable
<1>3. StageOf(status[i]) = "absent"
  BY <1>1 DEF StageOf, Cancellable
<1>4. \A j \in Intent : request[j].vehicle = v => StageOf(status[j]) # "claimed"
  BY <1>2 DEF IntentsOf
<1>5. [j \in Intent |-> request'[j].vehicle]
        = [[j \in Intent |-> request[j].vehicle] EXCEPT ![i] = v]
  BY <1>1 DEF IInv, TypeOK
<1>6. ASSUME NEW j \in Intent
      PROVE  StageOf(status'[j]) =
               IF j = i THEN "waiting"
               ELSE IF request[j].vehicle = v /\ StageOf(status[j]) = "waiting" THEN "withdrawn"
               ELSE StageOf(status[j])
  BY <1>1, <1>2 DEF IntentsOf, StageOf, Cancellable
<1>. QED
  BY <1>1, <1>3, <1>4, <1>5, <1>6 DEF Lifecycle!Ask

LEMMA CreateAsks == ASSUME IInv, Create PROVE \E i \in Intent, v \in Vehicle : Lifecycle!Ask(i, v)
<1>1. PICK i \in Intent, v \in Vehicle : CreateImmobilize(i, v) \/ CreateMobilize(i, v)
  BY DEF Create
<1>2. CASE CreateImmobilize(i, v)
  <2>1. PICK seen \in Telemetry : Insert(i, v, "immobilize", {}, seen)
    BY <1>2 DEF CreateImmobilize
  <2>2. Fresh(i) /\ {} = IntentsOf(v, Cancellable) /\ IntentsOf(v, {"executing"}) = {}
    BY <1>2 DEF CreateImmobilize, IndexAdmits, IntentsOf, Active
  <2>. QED
    BY <2>1, <2>2, InsertAsks DEF Action
<1>3. CASE CreateMobilize(i, v)
  <2>1. PICK seen \in Telemetry : Insert(i, v, "mobilize", IntentsOf(v, Cancellable), seen)
    BY <1>3 DEF CreateMobilize
  <2>2. Fresh(i) /\ IntentsOf(v, {"executing"}) = {} /\ IntentsOf(v, Cancellable) \in SUBSET Intent
    BY <1>3 DEF CreateMobilize, IntentsOf
  <2>. QED
    BY <2>1, <2>2, InsertAsks DEF Action
<1>. QED
  BY <1>1, <1>2, <1>3

\* Closing an executing row, by its evaluator or by the watchdog.
LEMMA CloseEnds ==
  ASSUME IInv, NEW i \in Intent, NEW to \in {"completed", "failed"}, NEW error,
         status[i] = "executing", Close(i, to, error), UNCHANGED <<request, wire>>,
         to = "completed" => wire[i] = "accepted"
  PROVE  Lifecycle!Succeed(i) \/ Lifecycle!GiveUp(i)
<1>1. StageOf(status[i]) = "claimed" /\ StageOf(to) = to
  BY DEF StageOf, Cancellable
<1>2. Lifecycle!Move(i, "claimed", to)
  BY <1>1, StageMoves DEF IInv, Close, Status, Terminal
<1>. QED
  BY <1>2 DEF Lifecycle!Succeed, Lifecycle!GiveUp

LEMMA EvaluateMaps ==
  ASSUME IInv, NEW r \in Replica, NEW i \in Intent, Evaluate(r, i)
  PROVE  Lifecycle!Next \/ UNCHANGED Lifecycle!vars
<1>. USE DEF rowVars, traccarVars
<1>1. CASE ReconcileRow(r, i)
  <2>1. CASE status[i] # "executing"
    BY <1>1, <2>1, UnseenStutters DEF ReconcileRow, Unseen
  <2>2. CASE status[i] = "executing"
    <3>1. plan[r][i] = "complete" => wire[i] = "accepted"
      BY DEF IInv, TickConsistent
    <3>2. \/ plan[r][i] = "complete" /\ Close(i, "completed", "none")
          \/ Close(i, "failed", "claim_timeout")
      BY <1>1, <2>2 DEF ReconcileRow
    <3>. QED
      BY <1>1, <2>2, <3>1, <3>2, CloseEnds DEF ReconcileRow, Lifecycle!Next
  <2>. QED
    BY <2>1, <2>2
<1>2. CASE Expire(r, i)
  <2>1. StageOf(status[i]) = "waiting" /\ StageOf("expired") = "withdrawn"
    BY <1>2 DEF Expire, StageOf, Cancellable
  <2>2. Lifecycle!Move(i, "waiting", "withdrawn")
    BY <1>2, <2>1, StageMoves DEF IInv, Expire, Leave, Status, Terminal
  <2>. QED
    BY <2>2 DEF Lifecycle!Withdraw, Lifecycle!Next
<1>3. CASE SaveGates(r, i)
  \* pending and monitoring are one stage.
  <2>1. Unseen
    <3>1. snap[r][i] \in Copy /\ snap[r][i].status # "executing" /\ status[i] \in Status
      BY <1>3 DEF SaveGates, IInv, TickConsistent, TypeOK
    <3>2. \/ UNCHANGED status
          \/ status[i] \in Cancellable /\ status' = [status EXCEPT ![i] = "monitoring"]
      BY <1>3, <3>1 DEF SaveGates, Copy, Status, Active, Terminal
    <3>. QED
      BY <1>3, <3>2 DEF SaveGates, IInv, TypeOK, Unseen, StageOf, Cancellable
  <2>. QED
    BY <2>1, UnseenStutters
<1>4. CASE Claim(r, i)
  <2>1. CASE Claimable(i)
    <3>1. StageOf(status[i]) = "waiting" /\ StageOf("executing") = "claimed"
      BY <2>1 DEF Claimable, StageOf, Cancellable
    <3>2. Lifecycle!Move(i, "waiting", "claimed")
      BY <1>4, <2>1, <3>1, StageMoves DEF IInv, Claim, Leave, Status, Active
    <3>. QED
      BY <3>2 DEF Lifecycle!Claim, Lifecycle!Next
  <2>2. CASE ~Claimable(i)
    BY <1>4, <2>2, UnseenStutters DEF Claim, Unseen
  <2>. QED
    BY <2>1, <2>2
<1>5. CASE Post(r, i)
  <2>1. posts[i] = 0
    BY <1>5 DEF Post, IInv, TickConsistent
  <2>2. wire[i] = "idle" /\ status[i] \in {"executing", "failed"}
    BY <1>5, <2>1 DEF Post, IInv, TickConsistent, RowConsistent, Delivering
  <2>3. StageOf(status[i]) \in {"claimed", "failed"}
    BY <2>2 DEF StageOf, Cancellable
  <2>4. Lifecycle!Send(i)
    BY <1>5, <2>2, <2>3 DEF Post, Lifecycle!Send
  <2>. QED
    BY <2>4 DEF Lifecycle!Next
<1>6. CASE Complete(r, i) \/ Fail(r, i)
  <2>1. PICK to \in {"completed", "failed"}, error \in Result :
          /\ Finalize(r, i, to, error, to)
          /\ to = "completed" => wire[i] = "accepted"
    <3>1. CASE Complete(r, i)
      BY <3>1 DEF Complete, Result, IInv, TickConsistent
    <3>2. CASE Fail(r, i)
      BY <3>2 DEF Fail, IInv, TypeOK
    <3>. QED
      BY <1>6, <3>1, <3>2
  <2>2. CASE status[i] = "executing"
    BY <2>1, <2>2, CloseEnds DEF Finalize, Lifecycle!Next
  <2>3. CASE status[i] # "executing"
    BY <2>1, <2>3, UnseenStutters DEF Finalize, Unseen
  <2>. QED
    BY <2>2, <2>3
<1>7. CASE PassOver(r, i) \/ ReadGates(r, i) \/ CheckAssignment(r, i) \/ Record(r, i) \/ Notify(r, i)
  BY <1>7, UnseenStutters
     DEF PassOver, ReadGates, CheckAssignment, Record, Notify, Unseen
<1>8. CASE Got2xx(r, i) \/ TimedOut(r, i) \/ Threw(r, i)
  BY <1>8, UnseenStutters DEF Got2xx, TimedOut, Threw, Await, Unseen
<1>. QED
  BY <1>1, <1>2, <1>3, <1>4, <1>5, <1>6, <1>7, <1>8 DEF Evaluate

LEMMA NextMaps ==
  ASSUME IInv, [Next]_vars
  PROVE  [Lifecycle!Next]_(Lifecycle!vars)
<1>. USE DEF rowVars, traccarVars, tickVars
<1>1. CASE Create
  BY <1>1, CreateAsks DEF Lifecycle!Next
<1>2. ASSUME NEW i \in Intent, Cancel(i) PROVE Lifecycle!Next
  <2>1. StageOf(status[i]) = "waiting" /\ StageOf("cancelled") = "withdrawn"
    BY <1>2 DEF Cancel, StageOf, Cancellable
  <2>2. Lifecycle!Move(i, "waiting", "withdrawn")
    BY <1>2, <2>1, StageMoves DEF IInv, Cancel, Leave, Status, Terminal
  <2>. QED
    BY <2>2 DEF Lifecycle!Withdraw, Lifecycle!Next
<1>3. ASSUME NEW i \in Intent, TraccarAnswers(i) PROVE Lifecycle!Next
  BY <1>3 DEF TraccarAnswers, Lifecycle!Answer, Lifecycle!Next
<1>4. ASSUME NEW r \in Replica, Run(r) \/ Fault(r)
      PROVE  Lifecycle!Next \/ UNCHANGED Lifecycle!vars
  <2>1. CASE Boot(r) \/ StartTick(r) \/ FinishStartup(r) \/ LoadActive(r)
    BY <2>1, UnseenStutters DEF Boot, StartTick, SelectStuck, FinishStartup, LoadActive, Unseen
  <2>2. CASE Fault(r)
    BY <2>2, UnseenStutters
       DEF Fault, ReconcileThrows, Crash, EvaluationThrows, DeliveryThrows, Unseen
  <2>. QED
    BY <1>4, <2>1, <2>2, EvaluateMaps DEF Run
<1>5. CASE TimePasses \/ UNCHANGED vars
  BY <1>5, UnseenStutters DEF TimePasses, vars, Unseen
<1>. QED
  BY <1>1, <1>2, <1>3, <1>4, <1>5 DEF Next

\* The engine implements the lifecycle: with any number of replicas, through
\* crashes, database errors, lost races and late answers, an operator sees only
\* what the lifecycle allows.
THEOREM Refinement == Spec => ImplementsLifecycle
<1>1. IInv /\ [Next]_vars => [Lifecycle!Next]_(Lifecycle!vars)
  BY NextMaps
<1>. QED
  BY <1>1, InitLifecycle, Invariance, PTL DEF Spec, ImplementsLifecycle, Lifecycle!Spec
=============================================================================
