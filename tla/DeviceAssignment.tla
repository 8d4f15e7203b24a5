-------------------------- MODULE DeviceAssignment --------------------------
(***************************************************************************)
(* Which Traccar device is in which vehicle: the rows of device_assignments*)
(* in Postgres, and the label and settings that fuel-api keeps of them in  *)
(* the JSON column tc_devices.attributes of Traccar's MySQL.  Assigning a  *)
(* device and deleting a vehicle are transactions at READ COMMITTED; every *)
(* attribute is written by reading the whole JSON and writing it back; the *)
(* domain event of an assignment writes the labels a second time.          *)
(***************************************************************************)
EXTENDS Integers, FiniteSets, Sequences, SequencesExt, Relation

CONSTANTS
  Vehicle, Device,
  MaxOps,    \* bound: requests and reconciliations
  Together,  \* bound: the first of them may overlap, those after it run alone
  MaxFaults  \* bound: failed calls to Traccar, crashes

Ops == 1..MaxOps

Absent == "none"         \* an attribute that is not in the JSON
NaN    == "NaN"          \* String(Number(uuid))

ASSUME ConstantsAssumption ==
  /\ {MaxOps, Together, MaxFaults} \subseteq Nat
  /\ IsFiniteSet(Vehicle) /\ IsFiniteSet(Device)
  /\ Absent \notin Vehicle \cup Device

VARIABLES
  fleet,   \* vehicles
  rows,    \* device_assignments
  active,  \* those with isActive
  attrs,   \* tc_devices.attributes
  op,      \* what each request is doing
  faults,  \* faults so far
  met      \* history: the requests that were in progress together with it

vars == <<fleet, rows, active, attrs, op, faults, met>>

-----------------------------------------------------------------------------
\* by: the request that inserted the row, 0 for the rows of the initial state.
Row == [vehicle : Vehicle, device : Device, by : 0..MaxOps]

\* name: vehicleName and plateNumber.  config: the saves merged in numzFleetConfig.
Attributes == [name : Vehicle \cup {Absent}, id : Vehicle \cup {Absent, NaN},
               config : SUBSET Ops]

\* One upsertTraccarDeviceAttribute.  part: the try block it is in.
Put(device, key, value, part) ==
  [device |-> device, key |-> key, value |-> value, part |-> part]

Upsert ==
  [device : Device, key : {"name"}, value : Vehicle \cup {Absent}, part : Nat]
  \cup [device : Device, key : {"id"}, value : Vehicle \cup {Absent, NaN}, part : Nat]
  \cup [device : Device, key : {"config"}, value : SUBSET Ops, part : Nat]
  \cup [device : Device, key : {"group"}, value : {Absent}, part : Nat]

Kind  == {"none", "assign", "delete", "config", "reconcile", "swept"}
Stage == {"idle", "deactivateVehicle", "freeDevice", "deactivateDevice", "insert",
          "destroyRows", "destroyVehicle", "merge", "vehicles", "sweep", "put", "write", "done"}

Blank == [name |-> Absent, id |-> Absent, config |-> {}]

\* A request.  sees: the rows the running statement has found.  locks: the row
\* locks of the transaction.  found: the rows of a reconciliation.  copy: the
\* JSON that was read.  todo: the attributes to write.  ok: no error so far.
Idle == [kind |-> "none", pc |-> "idle", vehicle |-> Absent, device |-> Absent,
         previous |-> Absent, sees |-> {}, locks |-> {}, found |-> <<>>, copy |-> Blank,
         todo |-> <<>>, ok |-> TRUE]

Request == [kind : Kind, pc : Stage, vehicle : Vehicle \cup {Absent}, device : Device \cup {Absent},
            previous : Device \cup {Absent}, sees : SUBSET Row, locks : SUBSET Row,
            found : Seq(Row), copy : Attributes, todo : Seq(Upsert), ok : BOOLEAN]

Held(v) == {r \in active : r.vehicle = v}
In(d)   == {r \in active : r.device = d}
OwnerOf(d) == IF In(d) = {} THEN Absent ELSE (CHOOSE r \in In(d) : TRUE).vehicle

\* Some devices are assigned, and labelled.
Init ==
  /\ fleet = Vehicle
  /\ rows \in SUBSET [vehicle : Vehicle, device : Device, by : {0}]
  /\ \A r, s \in rows : r.vehicle = s.vehicle \/ r.device = s.device => r = s
  /\ active = rows
  /\ attrs = [d \in Device |->
       [name |-> OwnerOf(d), id |-> OwnerOf(d), config |-> {}]]
  /\ op = [n \in Ops |-> Idle]
  /\ faults = 0 /\ met = [n \in Ops |-> {}]

-----------------------------------------------------------------------------
Faulty == faults < MaxFaults /\ faults' = faults + 1

Busy == {n \in Ops : op[n].pc \notin {"idle", "done"}}

\* Request n, the next one, begins as o.
Begin(n, o) ==
  /\ op[n].pc = "idle" /\ \A k \in 1..(n - 1) : op[k].pc # "idle"
  /\ n > Together => Busy = {}
  /\ op' = [op EXCEPT ![n] = o]
  /\ met' = [k \in Ops |-> IF k = n THEN Busy ELSE IF k \in Busy THEN met[k] \cup {n} ELSE met[k]]
  /\ UNCHANGED <<fleet, rows, active, attrs, faults>>

\* Request n goes on as o; only what it names changes.
Goes(n, o) == op' = [op EXCEPT ![n] = o] /\ UNCHANGED <<faults, met>>

\* The transaction is rolled back and the request answered with an error.
Failed(o) == [Idle EXCEPT !.kind = o.kind, !.pc = "done", !.ok = FALSE]

-----------------------------------------------------------------------------
(* Statements of concurrent transactions.  An UPDATE or DELETE finds its    *)
(* rows in the snapshot of its beginning, waits for those another           *)
(* transaction has locked, and then changes those that still match.         *)

WaitsFor(m, n) == m # n /\ op[m].sees \cap op[n].locks # {}

Blocked(n) == \E m \in Ops : WaitsFor(n, m)

\* The rows that o's statement found, and that another has not changed since.
Locking(o, matching, next) ==
  [o EXCEPT !.pc = next, !.locks = @ \cup (o.sees \cap matching), !.sees = {}]

InCycle(n) == TransitiveClosure([l, m \in Ops |-> WaitsFor(l, m)], Ops)[n, n]

\* Postgres finds a cycle of waiting transactions and aborts one of them.
Deadlock(n) ==
  /\ Blocked(n) /\ InCycle(n)
  /\ Goes(n, Failed(op[n]))
  /\ UNCHANGED <<fleet, rows, active, attrs>>

-----------------------------------------------------------------------------
(* assignDevice.                                                           *)

\* The checks, the previous assignment, and the snapshot of the first UPDATE.
Assign(n) ==
  \E v \in fleet, d \in Device :
    \E p \in IF Held(v) = {} THEN {Absent} ELSE {r.device : r \in Held(v)} :
      Begin(n, [Idle EXCEPT !.kind = "assign", !.pc = "deactivateVehicle", !.vehicle = v,
                            !.device = d, !.previous = p, !.sees = Held(v)])

DeactivateVehicle(n) ==
  /\ op[n].pc = "deactivateVehicle" /\ ~Blocked(n)
  /\ Goes(n, Locking(op[n], active, "freeDevice"))
  /\ UNCHANGED <<fleet, rows, active, attrs>>

\* Mutant: the rows of the device stay active.
FreeDeviceSkipped(n) ==
  /\ op[n].pc = "freeDevice"
  /\ Goes(n, [op[n] EXCEPT !.pc = "deactivateDevice"])
  /\ UNCHANGED <<fleet, rows, active, attrs>>

\* The snapshot of the second UPDATE.
FreeDevice(n) ==
  /\ op[n].pc = "freeDevice"
  /\ Goes(n, [op[n] EXCEPT !.pc = "deactivateDevice", !.sees = In(op[n].device) \ op[n].locks])
  /\ UNCHANGED <<fleet, rows, active, attrs>>

DeactivateDevice(n) ==
  /\ op[n].pc = "deactivateDevice" /\ ~Blocked(n)
  /\ Goes(n, Locking(op[n], active, "insert"))
  /\ UNCHANGED <<fleet, rows, active, attrs>>

\* The request goes on with the attributes it has to write.
Writing(o, todo) ==
  IF todo # <<>> THEN [o EXCEPT !.pc = "put", !.todo = todo]
  ELSE IF o.kind = "reconcile" THEN [o EXCEPT !.pc = "sweep", !.todo = <<>>]
  ELSE [Idle EXCEPT !.kind = o.kind, !.pc = "done", !.ok = o.ok,
                    !.vehicle = o.vehicle, !.device = o.device]

\* syncVehicleDeviceLabels.
Labels(v, d, part) == <<Put(d, "name", v, part), Put(d, "id", v, part)>>

\* ensureDeviceInCompany: GET and PUT of the device, when its group is not the
\* company's.
Regroup(d, part) == <<Put(d, "group", Absent, part)>>

\* The labels of d are cleared; Absent has none.
Unlabel(d, part) ==
  IF d = Absent THEN <<>> ELSE <<Put(d, "id", Absent, part), Put(d, "name", Absent, part)>>

\* The listener sync-traccar-device-labels: the event carries Number(vid) of
\* a vehicle whose id is a UUID.
EventLabels(o) ==
  (IF o.previous \in {Absent, o.device} THEN <<>> ELSE Labels(Absent, o.previous, 2))
  \o <<Put(o.device, "name", o.vehicle, 2), Put(o.device, "id", NaN, 2)>>

\* The INSERT and COMMIT; the foreign key refuses a vehicle that is gone.
Insert(n) ==
  LET o == op[n] IN
  /\ o.pc = "insert"
  /\ \/ /\ o.vehicle \in fleet
        /\ LET r == [vehicle |-> o.vehicle, device |-> o.device, by |-> n]
           IN rows' = rows \cup {r} /\ active' = (active \ o.locks) \cup {r}
        /\ Goes(n, Writing([o EXCEPT !.locks = {}],
                           Labels(o.vehicle, o.device, 1) \o Regroup(o.device, 1)
                           \o EventLabels(o)))
     \/ /\ o.vehicle \notin fleet
        /\ Goes(n, Failed(o)) /\ UNCHANGED <<rows, active>>
  /\ UNCHANGED <<fleet, attrs>>

-----------------------------------------------------------------------------
(* deleteVehicle.                                                          *)

Delete(n) ==
  \E v \in fleet :
    \E p \in IF Held(v) = {} THEN {Absent} ELSE {r.device : r \in Held(v)} :
      Begin(n, [Idle EXCEPT !.kind = "delete", !.pc = "destroyRows", !.vehicle = v,
                            !.previous = p, !.sees = {r \in rows : r.vehicle = v}])

DestroyRows(n) ==
  /\ op[n].pc = "destroyRows" /\ ~Blocked(n)
  /\ Goes(n, Locking(op[n], rows, "destroyVehicle"))
  /\ UNCHANGED <<fleet, rows, active, attrs>>

\* The foreign key of device_assignments is ON DELETE RESTRICT.
DestroyVehicle(n) ==
  LET o == op[n] IN
  /\ o.pc = "destroyVehicle"
  /\ IF \E r \in rows \ o.locks : r.vehicle = o.vehicle
     THEN Goes(n, Failed(o)) /\ UNCHANGED <<fleet, rows, active>>
     ELSE /\ fleet' = fleet \ {o.vehicle}
          /\ rows' = rows \ o.locks /\ active' = active \ o.locks
          /\ Goes(n, Writing([o EXCEPT !.locks = {}], Unlabel(o.previous, 1)))
  /\ UNCHANGED attrs

-----------------------------------------------------------------------------
(* updateVehicleMergedConfig: the patch of numzFleetConfig.                *)

Configure(n) ==
  \E v \in fleet : \E r \in Held(v) :
    Begin(n, [Idle EXCEPT !.kind = "config", !.pc = "merge", !.vehicle = v, !.device = r.device])

\* Mutant: writes the patch without the settings that are there.
MergeAlone(n) ==
  LET o == op[n] IN
  /\ o.pc = "merge"
  /\ Goes(n, Writing(o, <<Put(o.device, "config", {n}, 1)>>))
  /\ UNCHANGED <<fleet, rows, active, attrs>>

\* The settings that are there, and the request's own over them.
Merge(n) ==
  LET o == op[n] IN
  /\ o.pc = "merge"
  /\ Goes(n, Writing(o, <<Put(o.device, "config", attrs[o.device].config \cup {n}, 1)>>))
  /\ UNCHANGED <<fleet, rows, active, attrs>>

-----------------------------------------------------------------------------
(* reconcileDeviceAssignmentLabels, at startup.                            *)

\* The active assignments, in no particular order.
Reconcile(n) ==
  \E all \in SetToSeqs(active) :
    Begin(n, [Idle EXCEPT !.kind = "reconcile", !.pc = "vehicles", !.found = all])

\* The vehicles of these, and the labels of each.
SyncAll(n) ==
  LET o == op[n]
      RowLabels(i) == IF o.found[i].vehicle \notin fleet THEN <<>>
                      ELSE Labels(o.found[i].vehicle, o.found[i].device, i)
  IN /\ o.pc = "vehicles"
     /\ Goes(n, Writing(o, FlattenSeq([i \in DOMAIN o.found |-> RowLabels(i)])))
     /\ UNCHANGED <<fleet, rows, active, attrs>>

\* The map of expected ids keeps the last row of a device.
Expected(o, d) ==
  LET own == {i \in DOMAIN o.found : o.found[i].device = d}
  IN IF own = {} THEN Absent ELSE o.found[Max(own)].vehicle

\* Mutant: looks at the devices of the assignments only.
ClearsAssigned(o, d) ==
  IF Expected(o, d) = Absent \/ attrs[d].id \in {Absent, Expected(o, d)} THEN <<>>
  ELSE <<Put(d, "id", Absent, 0)>>

\* What the sweep over all devices writes for d.
Clears(o, d) ==
  IF attrs[d].id \in {Absent, Expected(o, d)} THEN <<>>
  ELSE IF Expected(o, d) = Absent THEN Unlabel(d, 0)
  ELSE <<Put(d, "id", Absent, 0)>>

Sweep(n) ==
  LET o == op[n] IN
  /\ o.pc = "sweep"
  /\ \E devices \in SetToSeqs(Device) :
       Goes(n, Writing([o EXCEPT !.found = <<>>, !.kind = "swept"],
                       FlattenSeq([i \in DOMAIN devices |-> Clears(o, devices[i])])))
  /\ UNCHANGED <<fleet, rows, active, attrs>>

-----------------------------------------------------------------------------
(* upsertTraccarDeviceAttribute, for each attribute in turn.               *)

\* The SELECT of the JSON.  The GET of the group may find it right.
Read(n) ==
  LET o == op[n] IN
  /\ o.pc = "put"
  /\ \/ Goes(n, [o EXCEPT !.pc = "write", !.copy = attrs[Head(o.todo).device]])
     \/ Head(o.todo).key = "group" /\ Goes(n, Writing(o, Tail(o.todo)))
  /\ UNCHANGED <<fleet, rows, active, attrs>>

\* Mutant: a cleared attribute stays in the JSON, as null.
ChangedToNull(json, put) ==
  IF put.key = "id" /\ put.value = Absent THEN [json EXCEPT !.id = "null"] ELSE json

Changed(json, put) ==
  CASE put.key = "name"   -> [json EXCEPT !.name = put.value]
    [] put.key = "id"     -> [json EXCEPT !.id = put.value]
    [] put.key = "config" -> [json EXCEPT !.config = put.value]
    [] put.key = "group"  -> json

\* The UPDATE of the JSON.
Write(n) ==
  LET o == op[n]
      put == Head(o.todo)
  IN /\ o.pc = "write"
     /\ attrs' = [attrs EXCEPT ![put.device] = Changed(o.copy, put)]
     /\ Goes(n, Writing([o EXCEPT !.copy = Blank], Tail(o.todo)))
     /\ UNCHANGED <<fleet, rows, active>>

\* What is left to write when the try block at the head ends.
NextBlock(todo) ==
  LET next == {i \in DOMAIN todo : todo[i].part # Head(todo).part}
  IN SubSeq(todo, Min(next \cup {Len(todo) + 1}), Len(todo))

\* A call to Traccar fails; the try block it is in ends.
PutFails(n) ==
  LET o == op[n] IN
  /\ o.pc \in {"put", "write"} /\ Faulty
  /\ op' = [op EXCEPT ![n] =
       Writing([o EXCEPT !.copy = Blank, !.ok = FALSE], NextBlock(o.todo))]
  /\ UNCHANGED <<fleet, rows, active, attrs, met>>

\* The process dies: transactions roll back, labels and events are lost.
Crash ==
  /\ Faulty /\ Busy # {}
  /\ op' = [n \in Ops |-> IF n \in Busy THEN Failed(op[n]) ELSE op[n]]
  /\ UNCHANGED <<fleet, rows, active, attrs, met>>

-----------------------------------------------------------------------------
Step(n) ==
  \/ DeactivateVehicle(n) \/ FreeDevice(n) \/ DeactivateDevice(n) \/ Insert(n)
  \/ DestroyRows(n) \/ DestroyVehicle(n)
  \/ Merge(n) \/ SyncAll(n) \/ Sweep(n) \/ Read(n) \/ Write(n)
  \/ Deadlock(n)

\* Every request has been answered.
Rest == (\A n \in Ops : op[n].pc = "done") /\ UNCHANGED vars

Next ==
  \/ \E n \in Ops : Assign(n) \/ Delete(n) \/ Configure(n) \/ Reconcile(n)
  \/ \E n \in Ops : Step(n) \/ PutFails(n)
  \/ Crash \/ Rest

Spec == Init /\ [][Next]_vars

-----------------------------------------------------------------------------
\* Types of the tables, the attributes and the requests.
TypeOK ==
  /\ fleet \subseteq Vehicle /\ rows \subseteq Row /\ active \subseteq rows
  /\ attrs \in [Device -> Attributes]
  /\ op \in [Ops -> Request]
  /\ faults \in Nat /\ met \in [Ops -> SUBSET Ops]

Overlapped(m, n) == m \in met[n] \/ n \in met[m]

\* A vehicle has one device and a device one vehicle, and every row has its
\* vehicle: only two assignments in progress together leave two active rows,
\* because the table has no unique index and an UPDATE that waited does not
\* see the row the other has inserted.
OneActiveUnlessOverlapped ==
  /\ \A r \in rows : r.vehicle \in fleet
  /\ \A r, s \in active :
       r # s /\ (r.vehicle = s.vehicle \/ r.device = s.device) =>
         r.by # 0 /\ s.by # 0 /\ Overlapped(r.by, s.by)

\* The settings of a save that was answered with success stay on the device:
\* labels, reconciliations and other saves erase them only when they were in
\* progress together with it (each writes the whole JSON it has read).
SettingsKept ==
  \A n \in Ops :
    op[n].kind = "config" /\ op[n].pc = "done" /\ op[n].ok /\ met[n] = {} =>
      n \in attrs[op[n].device].config

\* The last request that has begun, when it is answered and met no other.
Undisturbed(n) ==
  /\ op[n].pc = "done" /\ op[n].ok /\ met[n] = {}
  /\ \A k \in Ops : k > n => op[k].pc = "idle"

\* A reconciliation that runs alone and completes leaves every device with
\* the id of a vehicle it is assigned to, or with none, whatever requests,
\* races, failures and crashes came before it.
ReconciledLabels ==
  \A n \in Ops : op[n].kind = "swept" /\ Undisturbed(n) =>
    \A d \in Device :
      IF In(d) = {} THEN attrs[d].id = Absent
      ELSE \E r \in In(d) : attrs[d].id = r.vehicle /\ attrs[d].name = r.vehicle

\* The label that an assignment leaves names the vehicle.
AssignedDeviceLabelled ==
  \A n \in Ops : op[n].kind = "assign" /\ Undisturbed(n) => attrs[op[n].device].id = op[n].vehicle
=============================================================================
