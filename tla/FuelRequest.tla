---------------------------- MODULE FuelRequest ----------------------------
(***************************************************************************)
(* One driver's fuel request and the handlers that decide about it.        *)
(* approve, reject, cancel and fulfill each read the row, check its status *)
(* on that copy, change the copy and save the columns they changed: there  *)
(* is no lock, transaction or version, and approve awaits the fuel price   *)
(* between its check and its save.  After the save the handler emits a     *)
(* domain event; a listener persists the notification of the transition.   *)
(***************************************************************************)
EXTENDS Integers, FiniteSets

CONSTANTS
  Handler,   \* concurrent HTTP requests
  Amount,    \* litres
  Price,     \* the prices per litre of the ERB service
  Tank,      \* tankCapacity of the vehicle
  Tolerance, \* validateTankCapacity: tolerance
  MaxFaults  \* bound: failed saves and listeners, crashes

ASSUME ConstantsAssumption ==
  /\ Amount \subseteq Nat \ {0} /\ Price \subseteq Nat \ {0}
  /\ {Tank, Tolerance, MaxFaults} \subseteq Nat

VARIABLES
  row,     \* fuel_requests
  inbox,   \* user_notifications: the changeTypes in the dedup keys of the rows
  op,      \* what each handler is doing, and the copy it has read
  faults,  \* faults so far
  saved,   \* history: the transitions a handler has saved
  raced    \* history: a handler has saved over a row that was not its copy

vars == <<row, inbox, op, faults, saved, raced>>

-----------------------------------------------------------------------------
None == 0   \* a column that is NULL

Decision == {"approved", "rejected", "cancelled", "fulfilled"}
Final    == {"rejected", "cancelled", "fulfilled"}

Row == [status : Decision \cup {"absent", "pending"}, requested : Nat,
        approvedAmount : Nat, lockedPricePerUnit : Nat, lockedApprovedCost : Nat,
        actualFulfilledAmount : Nat, actualFulfilledCost : Nat]

NoRequest == [status |-> "absent", requested |-> None, approvedAmount |-> None,
              lockedPricePerUnit |-> None, lockedApprovedCost |-> None,
              actualFulfilledAmount |-> None, actualFulfilledCost |-> None]

\* to: the transition the handler is for.  litres: the amount in its body.
Op   == [pc : {"idle", "price", "save", "emit"}, to : Decision \cup {"created"},
         litres : Nat, price : Nat, copy : Row]
Idle == [pc |-> "idle", to |-> "created", litres |-> None, price |-> None,
         copy |-> NoRequest]

Init ==
  /\ row = NoRequest /\ inbox = {}
  /\ op = [h \in Handler |-> Idle]
  /\ faults = 0 /\ saved = {} /\ raced = FALSE

Faulty == faults < MaxFaults /\ faults' = faults + 1

-----------------------------------------------------------------------------
(* createFuelRequest.                                                      *)

\* validateTankCapacity: the hard block.  level: litres in the tank, as the
\* position says; a position without a fuel attribute counts as an empty tank.
Fits(level, litres) == litres <= Tank - level + Tolerance

Create(h) ==
  /\ row = NoRequest /\ op[h] = Idle
  /\ \E level \in 0..Tank, litres \in Amount :
       /\ Fits(level, litres)
       /\ row' = [NoRequest EXCEPT !.status = "pending", !.requested = litres]
  /\ op' = [op EXCEPT ![h].pc = "emit"]
  /\ UNCHANGED <<inbox, faults, saved, raced>>

-----------------------------------------------------------------------------
(* approve, reject, cancel and fulfill.                                    *)

\* Mutant: cancel forgets its check of the status.
AllowedCancelAny(to) ==
  CASE to \in {"approved", "rejected"} -> {"pending"}
    [] to = "cancelled"                -> {"pending"} \cup Decision
    [] to = "fulfilled"                -> {"approved"}

\* The statuses a handler accepts in the copy it reads.
Allowed(to) ==
  CASE to \in {"approved", "rejected"} -> {"pending"}
    [] to = "cancelled"                -> {"pending", "approved"}
    [] to = "fulfilled"                -> {"approved"}

\* findFuelRequestScoped and the check of the status.  A body may name the
\* litres (approvedAmount, actualFulfilledAmount) or leave them out.
Find(h, to) ==
  /\ op[h] = Idle /\ row.status \in Allowed(to)
  /\ \E litres \in Amount \cup {None} :
       /\ to \in {"approved", "fulfilled"} \/ litres = None
       /\ op' = [op EXCEPT ![h] =
                   [pc |-> IF to = "approved" THEN "price" ELSE "save", to |-> to,
                    litres |-> IF to = "approved" /\ litres = None
                               THEN row.requested ELSE litres,
                    price |-> None, copy |-> row]]
  /\ UNCHANGED <<row, inbox, faults, saved, raced>>

\* captureApprovalPriceSnapshot: the price of the moment, or none when the
\* service cannot be reached.
CapturePrice(h) ==
  /\ op[h].pc = "price"
  /\ \E p \in Price \cup {None} : op' = [op EXCEPT ![h].pc = "save", ![h].price = p]
  /\ UNCHANGED <<row, inbox, faults, saved, raced>>

\* Mutant: The cost is booked for the requested litres, not for the approved ones.
ApprovedAtRequest(r, o) ==
  LET decided == [r EXCEPT !.status = "approved", !.approvedAmount = o.litres]
  IN IF o.copy.lockedApprovedCost # None \/ o.price = None THEN decided
     ELSE [decided EXCEPT !.lockedPricePerUnit = o.price,
                          !.lockedApprovedCost = o.copy.requested * o.price]

\* The columns `save' writes: those whose value differs from the copy.  The
\* null snapshot equals the copy of a request that was never approved.
Approved(r, o) ==
  LET decided == [r EXCEPT !.status = "approved", !.approvedAmount = o.litres]
  IN IF o.copy.lockedApprovedCost # None \/ o.price = None THEN decided
     ELSE [decided EXCEPT !.lockedPricePerUnit = o.price,
                          !.lockedApprovedCost = o.litres * o.price]

Fulfilled(r, o) ==
  LET filled == [r EXCEPT !.status = "fulfilled"]
  IN IF o.litres = None THEN filled
     ELSE IF o.copy.lockedPricePerUnit = None
     THEN [filled EXCEPT !.actualFulfilledAmount = o.litres]
     ELSE [filled EXCEPT !.actualFulfilledAmount = o.litres,
                         !.actualFulfilledCost = o.litres * o.copy.lockedPricePerUnit]

Saved(r, o) ==
  CASE o.to = "approved"  -> Approved(r, o)
    [] o.to = "fulfilled" -> Fulfilled(r, o)
    [] OTHER              -> [r EXCEPT !.status = o.to]

\* Mutant: The handler answers without emitting its event.
SaveSilently(h) ==
  /\ op[h].pc = "save"
  /\ row' = Saved(row, op[h])
  /\ op' = [op EXCEPT ![h] = Idle]
  /\ saved' = saved \cup {op[h].to}
  /\ raced' = (raced \/ row # op[h].copy)
  /\ UNCHANGED <<inbox, faults>>

Save(h) ==
  /\ op[h].pc = "save"
  /\ row' = Saved(row, op[h])
  /\ op' = [op EXCEPT ![h].pc = "emit"]
  /\ saved' = saved \cup {op[h].to}
  /\ raced' = (raced \/ row # op[h].copy)
  /\ UNCHANGED <<inbox, faults>>

\* The handler answers 500.
SaveFails(h) ==
  /\ op[h].pc = "save" /\ Faulty
  /\ op' = [op EXCEPT ![h] = Idle]
  /\ UNCHANGED <<row, inbox, saved, raced>>

\* persistFuelSocketEvent, with the dedup key of the request and the change.
Notify(h) ==
  /\ op[h].pc = "emit"
  /\ inbox' = inbox \cup {op[h].to}
  /\ op' = [op EXCEPT ![h] = Idle]
  /\ UNCHANGED <<row, faults, saved, raced>>

\* The listener's error is logged; nobody tries again.
NotifyFails(h) ==
  /\ op[h].pc = "emit" /\ Faulty
  /\ op' = [op EXCEPT ![h] = Idle]
  /\ UNCHANGED <<row, inbox, saved, raced>>

\* The process dies, and with it the event bus.
Crash ==
  /\ Faulty
  /\ op' = [h \in Handler |-> Idle]
  /\ UNCHANGED <<row, inbox, saved, raced>>

-----------------------------------------------------------------------------
Advance(h) == CapturePrice(h) \/ Save(h) \/ Notify(h)

Next ==
  \/ \E h \in Handler :
       \/ Create(h)
       \/ \E to \in Decision : Find(h, to)
       \/ Advance(h)
       \/ SaveFails(h) \/ NotifyFails(h)
  \/ Crash

Spec     == Init /\ [][Next]_vars
FairSpec == Spec /\ \A h \in Handler : WF_vars(Advance(h))

-----------------------------------------------------------------------------
\* Types of the row, the inbox, the handlers and the history.
TypeOK ==
  /\ row \in Row
  /\ inbox \subseteq Decision \cup {"created"} /\ saved \subseteq Decision
  /\ op \in [Handler -> Op]
  /\ faults \in Nat /\ raced \in BOOLEAN

\* Whatever handlers overlapped, a fulfilled request carries the litres of an
\* approval that was saved, and an actual cost rests on a locked price.  And
\* unless two handlers raced the books balance: the locked cost is the approved
\* litres at the locked price (models/FuelRequest.js:128), the actual cost the
\* dispensed litres at the same price (:150), and a request that is still
\* pending has nothing approved.
BooksBalance ==
  /\ row.status = "fulfilled" => row.approvedAmount # None
  /\ row.actualFulfilledAmount # None => row.approvedAmount # None
  /\ row.actualFulfilledCost # None => row.lockedPricePerUnit # None
  /\ ~raced =>
       /\ row.lockedApprovedCost = row.approvedAmount * row.lockedPricePerUnit
       /\ row.actualFulfilledCost \in {None, row.actualFulfilledAmount * row.lockedPricePerUnit}
       /\ row.status = "pending" => row.approvedAmount = None

\* The driver and the managers are told of one outcome: two notices that end
\* the request differently exist only after two handlers raced.
OneOutcomeTold == ~raced => Cardinality(inbox \cap Final) <= 1

\* A transition that was saved is told to its audience, unless a listener
\* failed or the process died: the event bus is in memory.
SavedIsTold ==
  \A to \in Decision : to \in saved ~> (to \in inbox \/ faults > 0)

\* models/FuelRequest.js:108, "Financial snapshot (locked at approval, never
\* mutated afterwards)", and the comment of the guard in approveFuelRequest.
SnapshotFrozen ==
  [][row.lockedApprovedCost # None => row'.lockedApprovedCost = row.lockedApprovedCost]_vars
=============================================================================
