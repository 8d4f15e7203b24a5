------------------------- MODULE FuelRequestProofs -------------------------
(***************************************************************************)
(* Proofs about FuelRequest.  Handlers race without any lock, so what      *)
(* holds of every run rests on what no save ever undoes: a column that has *)
(* a value keeps one (NeverCleared), and what a handler saw in its copy is *)
(* a status its transition accepts.  What holds only without a race is     *)
(* argued from row = copy at the save.                                     *)
(***************************************************************************)
EXTENDS FuelRequest, FiniteSetTheorems, TLAPS

\* A request without a decision has no approved or dispensed litres yet.
Blank(r) ==
  /\ r.approvedAmount = None /\ r.lockedPricePerUnit = None /\ r.lockedApprovedCost = None
  /\ r.actualFulfilledAmount = None /\ r.actualFulfilledCost = None

\* What holds of the row, and of any copy of it, whoever raced.
Backed(r) ==
  /\ r.status \in {"absent", "pending"} => Blank(r)
  /\ r.status = "pending" => r.requested # None
  /\ r.status \in {"approved", "fulfilled"} => r.approvedAmount # None
  /\ r.actualFulfilledAmount # None => r.approvedAmount # None
  /\ r.actualFulfilledCost # None => r.lockedPricePerUnit # None

\* What holds of the row while nobody has raced.
Balanced(r) ==
  /\ r.lockedApprovedCost = r.approvedAmount * r.lockedPricePerUnit
  /\ r.actualFulfilledCost \in {None, r.actualFulfilledAmount * r.lockedPricePerUnit}
  /\ r.status = "approved" => r.actualFulfilledCost = None

\* A column that has a value in a copy has one in the row.
NeverCleared(copy) ==
  /\ row.status # "absent"
  /\ copy.approvedAmount # None => row.approvedAmount # None
  /\ copy.lockedPricePerUnit # None => row.lockedPricePerUnit # None

\* A handler between its check and its save.
Deciding(h) ==
  op[h].pc \in {"price", "save"} =>
    /\ op[h].to \in Decision /\ op[h].copy.status \in Allowed(op[h].to)
    /\ Backed(op[h].copy) /\ NeverCleared(op[h].copy)
    /\ op[h].to = "approved" => op[h].litres # None

\* The inductive invariant.
IInv ==
  /\ TypeOK
  /\ Backed(row)
  /\ \A h \in Handler : Deciding(h)
  /\ \A h \in Handler : op[h].pc = "emit" => op[h].to \in saved \cup {"created"}
  /\ inbox \subseteq saved \cup {"created"}
  /\ ~raced => Balanced(row) /\ saved \cap Final \subseteq {row.status}

-----------------------------------------------------------------------------
\* Saving a copy the handler has checked gives a row with the types, the
\* backing and the columns the copy promised.
LEMMA SaveKeepsRow ==
  ASSUME NEW h \in Handler, IInv, op[h].pc = "save"
  PROVE  /\ Saved(row, op[h]) \in Row
         /\ Backed(Saved(row, op[h]))
         /\ Saved(row, op[h]).status = op[h].to
         /\ row.approvedAmount # None => Saved(row, op[h]).approvedAmount # None
         /\ row.lockedPricePerUnit # None => Saved(row, op[h]).lockedPricePerUnit # None
<1> DEFINE o == op[h]
<1>1. /\ row \in Row /\ o \in Op /\ o.copy \in Row
      /\ Backed(row) /\ Deciding(h) /\ o.to \in Decision
      BY DEF IInv, TypeOK, Op, Deciding
<1>2. /\ o.litres \in Nat /\ o.price \in Nat /\ o.copy.lockedPricePerUnit \in Nat
      /\ o.litres * o.price \in Nat /\ o.litres * o.copy.lockedPricePerUnit \in Nat
  <2>1. o.litres \in Nat /\ o.price \in Nat /\ o.copy.lockedPricePerUnit \in Nat
        BY <1>1 DEF Op, Row
  <2> QED BY <2>1
<1>3. CASE o.to = "approved"
  <2>1. Saved(row, o) = Approved(row, o) BY <1>3 DEF Saved
  <2>2. o.litres # None BY <1>1, <1>3 DEF Deciding
  <2> HIDE DEF o
  <2>3. Approved(row, o) \in Row BY <1>1, <1>2 DEF Approved, Row, Decision
  <2>4. Backed(Approved(row, o)) BY <1>1, <1>2, <2>2 DEF Approved, Row, Backed, Blank, None
  <2> QED BY <1>1, <1>2, <1>3, <2>1, <2>2, <2>3, <2>4 DEF Approved, Row, o
<1>4. CASE o.to = "fulfilled"
  <2>1. Saved(row, o) = Fulfilled(row, o) BY <1>4 DEF Saved
  <2>2. /\ row.approvedAmount # None
        /\ o.copy.lockedPricePerUnit # None => row.lockedPricePerUnit # None
        BY <1>1, <1>4 DEF Deciding, Allowed, Backed, NeverCleared
  <2> HIDE DEF o
  <2>3. Fulfilled(row, o) \in Row BY <1>1, <1>2 DEF Fulfilled, Row, Decision
  <2>4. Backed(Fulfilled(row, o)) BY <1>1, <1>2, <2>2 DEF Fulfilled, Row, Backed, Blank, None
  <2> QED BY <1>1, <1>2, <1>4, <2>1, <2>3, <2>4 DEF Fulfilled, Row, o
<1>5. CASE o.to \in {"rejected", "cancelled"}
  <2>1. Saved(row, o) = [row EXCEPT !.status = o.to] BY <1>5 DEF Saved
  <2>2. [row EXCEPT !.status = o.to] \in Row BY <1>1 DEF Row
  <2>3. Backed([row EXCEPT !.status = o.to]) BY <1>1, <1>5 DEF Row, Backed, Blank
  <2> QED BY <1>1, <2>1, <2>2, <2>3 DEF Row
<1> QED BY <1>1, <1>3, <1>4, <1>5 DEF Decision

\* A handler that saves over exactly what it read keeps the books balanced.
LEMMA SaveBalances ==
  ASSUME NEW h \in Handler, IInv, op[h].pc = "save", row = op[h].copy, ~raced
  PROVE  /\ Balanced(Saved(row, op[h]))
         /\ row.status \notin Final
<1> DEFINE o == op[h]
<1>1. /\ row \in Row /\ o \in Op /\ Backed(row) /\ Balanced(row)
      /\ o.to \in Decision /\ row.status \in Allowed(o.to)
      BY DEF IInv, TypeOK, Deciding
<1>2. row.status \notin Final BY <1>1 DEF Allowed, Final, Decision
<1>3. CASE o.to = "approved"
  <2>1. Blank(row) BY <1>1, <1>3 DEF Allowed, Backed
  <2>2. Saved(row, o) = Approved(row, o) BY <1>3 DEF Saved
  <2>3. o.litres \in Nat /\ o.price \in Nat BY <1>1 DEF Op
  <2> HIDE DEF o
  <2>4. Balanced(Approved(row, o))
        BY <1>1, <2>1, <2>3, row.approvedAmount = None DEF Approved, Balanced, Blank, Row, None
  <2> QED BY <1>2, <2>2, <2>4 DEF o
<1>4. CASE o.to = "fulfilled"
  <2>1. row.status = "approved" /\ row.actualFulfilledCost = None
        BY <1>1, <1>4 DEF Allowed, Balanced
  <2>2. Saved(row, o) = Fulfilled(row, o) BY <1>4 DEF Saved
  <2>3. o.copy = row OBVIOUS
  <2> HIDE DEF o
  <2>4. Balanced(Fulfilled(row, o))
        BY <1>1, <2>1, <2>3 DEF Fulfilled, Balanced, Row, None
  <2> QED BY <1>2, <2>2, <2>4 DEF o
<1>5. CASE o.to \in {"rejected", "cancelled"}
  <2>1. Saved(row, o) = [row EXCEPT !.status = o.to] BY <1>5 DEF Saved
  <2>2. Balanced([row EXCEPT !.status = o.to]) BY <1>1, <1>5 DEF Balanced, Row
  <2> QED BY <1>2, <2>1, <2>2
<1> QED BY <1>1, <1>3, <1>4, <1>5 DEF Decision

-----------------------------------------------------------------------------
\* The invariant holds in the empty database.
LEMMA InitIInv == Init => IInv
<1> SUFFICES ASSUME Init PROVE IInv
    OBVIOUS
<1>1. NoRequest \in Row /\ Backed(NoRequest) /\ Balanced(NoRequest)
      BY DEF NoRequest, Row, Backed, Balanced, Blank, None
<1>2. Idle \in Op /\ Idle.pc = "idle"
      BY <1>1 DEF Idle, Op, None
<1>3. TypeOK BY <1>1, <1>2 DEF Init, TypeOK
<1> QED BY <1>1, <1>2, <1>3 DEF Init, IInv, Deciding, Final

\* Every step preserves the invariant.
LEMMA NextIInv == IInv /\ [Next]_vars => IInv'
<1> SUFFICES ASSUME IInv, [Next]_vars PROVE IInv'
    OBVIOUS
<1> USE ConstantsAssumption
<1>0. /\ row \in Row /\ op \in [Handler -> Op] /\ TypeOK
      /\ \A h \in Handler : op[h] \in Op /\ op[h].copy \in Row
      BY DEF IInv, TypeOK, Op
<1>i. Idle \in Op /\ Idle.pc = "idle"
      BY DEF Idle, Op, Row, NoRequest, None
<1>1. ASSUME NEW h \in Handler, Create(h) PROVE IInv'
  <2>1. PICK litres \in Amount :
          row' = [NoRequest EXCEPT !.status = "pending", !.requested = litres]
        BY <1>1 DEF Create
  <2>2. row' \in Row /\ Backed(row') /\ Balanced(row')
    <3>1. litres \in Nat /\ litres # 0 OBVIOUS
    <3>2. row' = [status |-> "pending", requested |-> litres, approvedAmount |-> 0,
                  lockedPricePerUnit |-> 0, lockedApprovedCost |-> 0,
                  actualFulfilledAmount |-> 0, actualFulfilledCost |-> 0]
          BY <2>1 DEF NoRequest, None
    <3>3. row' \in Row BY <3>1, <3>2 DEF Row
    <3> QED BY <3>1, <3>2, <3>3 DEF Backed, Balanced, Blank, None
  <2>3. op' = [op EXCEPT ![h].pc = "emit"] /\ op[h] = Idle /\ row = NoRequest
        BY <1>1 DEF Create
  <2>4. op' \in [Handler -> Op] BY <1>0, <2>3 DEF Op
  <2>5. \A g \in Handler : op[g].pc \notin {"price", "save"}
        BY <2>3 DEF IInv, Deciding, NeverCleared, NoRequest
  <2>6. \A g \in Handler : op'[g].pc \notin {"price", "save"}
        BY <2>3, <2>5, <1>0 DEF Op
  <2>7. \A g \in Handler : op'[g].pc = "emit" => op'[g].to \in saved \cup {"created"}
        BY <2>3, <1>0 DEF IInv, Op, Idle
  <2>8. UNCHANGED <<inbox, faults, saved, raced>> BY <1>1 DEF Create
  <2>9. ~raced => saved \cap Final = {}
        BY <2>3 DEF IInv, NoRequest, Final
  <2> QED BY <2>2, <2>4, <2>6, <2>7, <2>8, <2>9 DEF IInv, TypeOK, Deciding
<1>2. ASSUME NEW h \in Handler, NEW to \in Decision, Find(h, to) PROVE IInv'
  <2>1. PICK litres \in Amount \cup {None} :
          op' = [op EXCEPT ![h] =
                   [pc |-> IF to = "approved" THEN "price" ELSE "save", to |-> to,
                    litres |-> IF to = "approved" /\ litres = None
                               THEN row.requested ELSE litres,
                    price |-> None, copy |-> row]]
        BY <1>2 DEF Find
  <2> DEFINE r == [pc |-> IF to = "approved" THEN "price" ELSE "save", to |-> to,
                   litres |-> IF to = "approved" /\ litres = None
                              THEN row.requested ELSE litres,
                   price |-> None, copy |-> row]
  <2>2. op' = [op EXCEPT ![h] = r] BY <2>1
  <2>3. r \in Op BY <1>0 DEF Op, Row, None, Decision
  <2>4. row.status \in Allowed(to) /\ UNCHANGED <<row, inbox, faults, saved, raced>>
        BY <1>2 DEF Find
  <2>5. row.status # "absent" BY <2>4 DEF Allowed, Decision
  <2>6. to = "approved" => r.litres # None
        BY <2>4 DEF Allowed, IInv, Backed
  <2>7. r.to = to /\ r.copy = row /\ r.pc \in {"price", "save"} OBVIOUS
  <2> HIDE DEF r
  <2>8. \A g \in Handler : op'[g] = IF g = h THEN r ELSE op[g] BY <2>2, <1>0
  <2>9. op' \in [Handler -> Op] BY <2>2, <2>3, <1>0
  <2>10. \A g \in Handler : Deciding(g)'
         BY <2>4, <2>5, <2>6, <2>7, <2>8 DEF IInv, Deciding, NeverCleared
  <2>11. \A g \in Handler : op'[g].pc = "emit" => op'[g].to \in saved \cup {"created"}
         BY <2>7, <2>8 DEF IInv
  <2> QED BY <2>4, <2>9, <2>10, <2>11 DEF IInv, TypeOK
<1>3. ASSUME NEW h \in Handler, CapturePrice(h) PROVE IInv'
  <2>1. PICK p \in Price \cup {None} : op' = [op EXCEPT ![h].pc = "save", ![h].price = p]
        BY <1>3 DEF CapturePrice
  <2>2. op[h].pc = "price" /\ UNCHANGED <<row, inbox, faults, saved, raced>>
        BY <1>3 DEF CapturePrice
  <2>3. p \in Nat BY DEF None
  <2>4. \A g \in Handler :
          /\ op'[g].to = op[g].to /\ op'[g].copy = op[g].copy /\ op'[g].litres = op[g].litres
          /\ op'[g].pc = IF g = h THEN "save" ELSE op[g].pc
        BY <2>1, <1>0 DEF Op
  <2>5. op' \in [Handler -> Op] BY <2>1, <2>3, <1>0 DEF Op
  <2>6. \A g \in Handler : Deciding(g)'
        BY <2>2, <2>4 DEF IInv, Deciding, NeverCleared
  <2> QED BY <2>2, <2>4, <2>5, <2>6 DEF IInv, TypeOK
<1>4. ASSUME NEW h \in Handler, Save(h) PROVE IInv'
  <2>1. /\ op[h].pc = "save" /\ row' = Saved(row, op[h])
        /\ op' = [op EXCEPT ![h].pc = "emit"] /\ saved' = saved \cup {op[h].to}
        /\ raced' = (raced \/ row # op[h].copy) /\ UNCHANGED <<inbox, faults>>
        BY <1>4 DEF Save
  <2>2. /\ row' \in Row /\ Backed(row') /\ row'.status = op[h].to
        /\ row.approvedAmount # None => row'.approvedAmount # None
        /\ row.lockedPricePerUnit # None => row'.lockedPricePerUnit # None
        BY <2>1, SaveKeepsRow
  <2>3. op[h].to \in Decision BY <2>1 DEF IInv, Deciding
  <2>4. \A g \in Handler :
          /\ op'[g].to = op[g].to /\ op'[g].copy = op[g].copy /\ op'[g].litres = op[g].litres
          /\ op'[g].pc = IF g = h THEN "emit" ELSE op[g].pc
        BY <2>1, <1>0 DEF Op
  <2>5. op' \in [Handler -> Op] BY <2>1, <1>0 DEF Op
  <2>6. \A g \in Handler : Deciding(g)'
        BY <2>2, <2>3, <2>4 DEF IInv, Deciding, NeverCleared, Decision
  <2>7. \A g \in Handler : op'[g].pc = "emit" => op'[g].to \in saved' \cup {"created"}
        BY <2>1, <2>4 DEF IInv
  <2>8. ~raced' => Balanced(row') /\ saved' \cap Final \subseteq {row'.status}
    <3> SUFFICES ASSUME ~raced' PROVE Balanced(row') /\ saved' \cap Final \subseteq {row'.status}
        OBVIOUS
    <3>1. ~raced /\ row = op[h].copy BY <2>1 DEF IInv, TypeOK
    <3>2. Balanced(row') /\ row.status \notin Final BY <2>1, <3>1, SaveBalances
    <3>3. saved \cap Final = {} BY <3>1, <3>2 DEF IInv
    <3> QED BY <2>1, <2>2, <3>2, <3>3
  <2>9. saved' \subseteq Decision /\ raced' \in BOOLEAN /\ inbox' \subseteq saved' \cup {"created"}
        BY <2>1, <2>3 DEF IInv, TypeOK
  <2> QED BY <1>0, <2>1, <2>2, <2>5, <2>6, <2>7, <2>8, <2>9 DEF IInv, TypeOK
<1>5. ASSUME NEW h \in Handler, Notify(h) PROVE IInv'
  <2>1. /\ op[h].pc = "emit" /\ inbox' = inbox \cup {op[h].to}
        /\ op' = [op EXCEPT ![h] = Idle] /\ UNCHANGED <<row, faults, saved, raced>>
        BY <1>5 DEF Notify
  <2>2. \A g \in Handler : op'[g] = IF g = h THEN Idle ELSE op[g] BY <2>1, <1>0
  <2>3. op' \in [Handler -> Op] BY <2>1, <1>0, <1>i
  <2>4. inbox' \subseteq saved \cup {"created"} BY <2>1 DEF IInv
  <2>5. \A g \in Handler : Deciding(g)'
        BY <2>1, <2>2, <1>i DEF IInv, Deciding, NeverCleared
  <2> QED BY <2>1, <2>2, <2>3, <2>4, <2>5, <1>i DEF IInv, TypeOK
<1>6. ASSUME NEW h \in Handler, SaveFails(h) \/ NotifyFails(h) PROVE IInv'
  <2>1. op' = [op EXCEPT ![h] = Idle] /\ UNCHANGED <<row, inbox, saved, raced>> /\ faults' = faults + 1
        BY <1>6 DEF SaveFails, NotifyFails, Faulty
  <2>2. \A g \in Handler : op'[g] = IF g = h THEN Idle ELSE op[g] BY <2>1, <1>0
  <2>3. op' \in [Handler -> Op] BY <2>1, <1>0, <1>i
  <2>4. \A g \in Handler : Deciding(g)'
        BY <2>1, <2>2, <1>i DEF IInv, Deciding, NeverCleared
  <2>5. faults' \in Nat BY <2>1 DEF IInv, TypeOK
  <2> QED BY <2>1, <2>2, <2>3, <2>4, <2>5, <1>i DEF IInv, TypeOK
<1>7. ASSUME Crash PROVE IInv'
  <2>1. /\ op' = [h \in Handler |-> Idle] /\ UNCHANGED <<row, inbox, saved, raced>>
        /\ faults' = faults + 1
        BY <1>7 DEF Crash, Faulty
  <2>2. faults' \in Nat BY <2>1 DEF IInv, TypeOK
  <2> QED BY <2>1, <2>2, <1>i DEF IInv, TypeOK, Deciding
<1>8. CASE UNCHANGED vars
  <2>1. UNCHANGED <<row, inbox, op, faults, saved, raced>> BY <1>8 DEF vars
  <2>2. \A h \in Handler : Deciding(h)' BY <2>1 DEF IInv, Deciding, NeverCleared
  <2> QED BY <2>1, <2>2 DEF IInv, TypeOK
<1> QED BY <1>1, <1>2, <1>3, <1>4, <1>5, <1>6, <1>7, <1>8 DEF Next, Advance

\* The invariant holds of every run.
THEOREM Invariance == Spec => []IInv
BY InitIInv, NextIInv, PTL DEF Spec

\* The types hold for every number of handlers and every litres and prices.
THEOREM TypeCorrect == Spec => []TypeOK
<1>1. IInv => TypeOK BY DEF IInv
<1> QED BY <1>1, Invariance, PTL

\* However many handlers overlap and whichever of them fail, fuel that was
\* handed out rests on a saved approval and its cost on a locked price; and the
\* books can be wrong only after one handler saved over another.
THEOREM Bookkeeping == Spec => []BooksBalance
<1>1. IInv => BooksBalance BY DEF IInv, Balanced, Backed, Blank, BooksBalance
<1> QED BY <1>1, Invariance, PTL

\* So can the audience have been told of two different ends.
THEOREM OneOutcome == Spec => []OneOutcomeTold
<1>1. IInv => OneOutcomeTold
  <2> SUFFICES ASSUME IInv, ~raced PROVE Cardinality(inbox \cap Final) <= 1
      BY DEF OneOutcomeTold
  <2>1. inbox \cap Final \subseteq {row.status} BY DEF IInv, Final
  <2>2. inbox \cap Final = {} \/ inbox \cap Final = {row.status} BY <2>1
  <2>3. CASE inbox \cap Final = {} BY <2>3, FS_EmptySet
  <2>4. CASE inbox \cap Final = {row.status}
    <3>1. Cardinality({row.status}) = 1 BY FS_Singleton
    <3> QED BY <2>4, <3>1
  <2> QED BY <2>2, <2>3, <2>4
<1> QED BY <1>1, Invariance, PTL
=============================================================================
