----------------------- MODULE DeviceAssignmentProofs -----------------------
(***************************************************************************)
(* Proofs about DeviceAssignment.  A transaction misses only the rows that *)
(* were inserted after its snapshot, by requests in progress together with *)
(* it; a request that met no other began when every earlier one was        *)
(* answered, so later readers of the JSON find what it saved; and a        *)
(* reconciliation that runs alone writes, for every device, the last label *)
(* that concerns it.                                                       *)
(***************************************************************************)
EXTENDS DeviceAssignment, FiniteSetTheorems, SequenceTheorems, WellFoundedInduction, TLAPS

Assigning == {"deactivateVehicle", "freeDevice", "deactivateDevice", "insert"}

\* What the stage of a request says of it.
Staged(o) ==
  /\ o.pc = "idle" => o = Idle
  /\ o.pc \in Assigning => o.kind = "assign" /\ o.vehicle \in Vehicle /\ o.device \in Device
  /\ o.pc \in {"destroyRows", "destroyVehicle"} => o.kind = "delete"
  /\ o.pc = "merge" => o.kind = "config"
  /\ o.pc \in {"vehicles", "sweep"} => o.kind = "reconcile"
  /\ o.kind = "config" /\ (o.pc # "done" \/ o.ok) => o.device \in Device
  /\ o.pc \in {"put", "write"} <=> o.todo # <<>>
  /\ o.pc = "done" => o.sees = {} /\ (o.kind # "reconcile" \/ ~o.ok)

Stages == \A n \in Ops : Staged(op[n])

\* Requests in progress together know of each other; one that met no other
\* began when those before it were answered.
Meetings ==
  /\ \A m, n \in Busy : m # n => m \in met[n]
  /\ \A n \in Ops : op[n].pc # "idle" /\ met[n] = {} => \A k \in 1..(n - 1) : op[k].pc = "done"

\* A row is inserted once, at the end of its assignment, and of a vehicle that is there.
RowsOnce ==
  /\ IsFiniteSet(active)
  /\ \A r \in rows : r.vehicle \in fleet
  /\ \A r \in rows : r.by # 0 => op[r.by].pc \notin Assigning \cup {"idle"}
  /\ \A r, s \in rows : r.by = s.by /\ r.by # 0 => r = s

\* Row s was inserted by a request in progress together with n.
Late(s, n) == s.by # 0 /\ Overlapped(s.by, n)

\* The active rows that assignment n, being at o, does not deactivate are late ones.
MissesLate(o, n) ==
  /\ o.pc = "deactivateVehicle" => \A s \in Held(o.vehicle) : s \in o.sees \/ Late(s, n)
  /\ o.pc \in {"freeDevice", "deactivateDevice", "insert"} =>
       \A s \in Held(o.vehicle) : s \in o.locks \/ Late(s, n)
  /\ o.pc = "deactivateDevice" =>
       \A s \in In(o.device) : s \in o.sees \/ s \in o.locks \/ Late(s, n)
  /\ o.pc = "insert" => \A s \in In(o.device) : s \in o.locks \/ Late(s, n)

OnlyLateMissed == \A n \in Ops : MissesLate(op[n], n)

\* What a request has read or is going to write keeps the save n of device d.
Keeps(o, n, d) ==
  /\ o.pc = "write" /\ Head(o.todo).device = d => n \in o.copy.config
  /\ \A i \in DOMAIN o.todo :
       o.todo[i].device = d /\ o.todo[i].key = "config" => n \in o.todo[i].value

\* Save n writes itself.
WritesItself(o, n) ==
  o.pc \in {"put", "write"} =>
    /\ Len(o.todo) = 1 /\ o.todo[1].key = "config"
    /\ o.todo[1].device = o.device /\ n \in o.todo[1].value

\* A save that met no other request writes itself, and is kept.
SavesKept ==
  \A n \in Ops :
    op[n].kind = "config" /\ op[n].ok /\ met[n] = {} =>
      /\ WritesItself(op[n], n)
      /\ op[n].pc = "done" => /\ n \in attrs[op[n].device].config
                              /\ \A k \in Ops : Keeps(op[k], n, op[n].device)

\* No write of todo is of this attribute; the last of them leaves w.
Untouched(todo, d, key) == \A i \in DOMAIN todo : ~(todo[i].device = d /\ todo[i].key = key)
Settles(todo, d, key, w) ==
  \E i \in DOMAIN todo :
    /\ todo[i].device = d /\ todo[i].key = key /\ todo[i].value = w
    /\ \A j \in DOMAIN todo : j > i => ~(todo[j].device = d /\ todo[j].key = key)

\* The attribute is w when todo has been written over json.
WillBe(todo, json, d, key, w) ==
  Settles(todo, d, key, w) \/ (Untouched(todo, d, key) /\ json[d][key] = w)

\* The id and the name that will be on d are those of vehicle w.
Labelled(todo, json, d, w) == WillBe(todo, json, d, "id", w) /\ WillBe(todo, json, d, "name", w)

\* A reconciliation that runs alone has seen the assignments, then is to label
\* every assigned device, and then to clear the others.
Reconciles(o, table, json) ==
  /\ o.pc = "write" => o.copy = json[Head(o.todo).device]
  /\ o.kind = "reconcile" =>
       /\ table = {o.found[i] : i \in DOMAIN o.found}
       /\ o.pc # "vehicles" =>
            \A r \in table : Labelled(o.todo, json, r.device, Expected(o, r.device))
  /\ o.kind = "swept" => \A d \in Device :
       \/ (\A r \in table : r.device # d) /\ WillBe(o.todo, json, d, "id", Absent)
       \/ \E r \in table : r.device = d /\ Labelled(o.todo, json, d, r.vehicle)

\* Request n has met no other, and is the last that has begun.
Alone(n) == op[n].ok /\ met[n] = {} /\ (\A k \in Ops : k > n => op[k].pc = "idle")

ReconcilesAlone ==
  \A n \in Ops :
    op[n].kind \in {"reconcile", "swept"} /\ Alone(n) => Reconciles(op[n], active, attrs)

\* The inductive invariant.
IInv ==
  /\ TypeOK
  /\ Stages /\ Meetings /\ RowsOnce /\ OnlyLateMissed
  /\ OneActiveUnlessOverlapped
  /\ SavesKept
  /\ ReconcilesAlone

-----------------------------------------------------------------------------
(* What the operators do.                                                  *)

LEMMA Bounds ==
  /\ MaxOps \in Nat /\ Together \in Nat /\ MaxFaults \in Nat
  /\ Absent \notin Vehicle /\ Absent \notin Device /\ Ops = 1..MaxOps
BY ConstantsAssumption DEF Ops

LEMMA LeastNumber ==
  ASSUME NEW T \in SUBSET Nat, T # {}
  PROVE  \E m \in T : \A k \in T : m <= k
<1>1. PICK m \in T : \A k \in T : <<k, m>> \notin OpToRel(<, Nat)
      BY NatLessThanWellFounded, WFMin
<1>2. ASSUME NEW k \in T, k < m PROVE FALSE
  <2>1. <<k, m>> \in OpToRel(<, Nat)
        BY <1>2 DEF OpToRel
  <2> QED BY <1>1, <2>1, Zenon
<1> QED BY <1>2

LEMMA MinIs ==
  ASSUME NEW T \in SUBSET Nat, T # {}
  PROVE  Min(T) \in T /\ \A k \in T : Min(T) <= k
BY LeastNumber DEF Min

LEMMA MaxIs ==
  ASSUME NEW n \in Nat, NEW T \in SUBSET (1..n), T # {}
  PROVE  Max(T) \in T /\ \A k \in T : k <= Max(T)
<1> DEFINE B == {n - k : k \in T}
<1>1. B \in SUBSET Nat /\ B # {}
  <2>1. \A k \in T : n - k \in Nat
        OBVIOUS
  <2> QED BY <2>1
<1>2. PICK m \in B : \A k \in B : m <= k
      BY <1>1, LeastNumber
<1>3. PICK top \in T : m = n - top
      OBVIOUS
<1>4. ASSUME NEW k \in T PROVE k <= top
  <2>1. m <= n - k
        BY <1>2
  <2> QED BY <1>3, <2>1
<1>5. \E x \in T : \A y \in T : x >= y
      BY <1>4
<1>6. Max(T) \in T /\ \A y \in T : Max(T) >= y
      BY <1>5 DEF Max
<1> QED BY <1>6

LEMMA PutIs ==
  ASSUME NEW d, NEW key, NEW w, NEW part
  PROVE  /\ Put(d, key, w, part).device = d /\ Put(d, key, w, part).key = key
         /\ Put(d, key, w, part).value = w /\ Put(d, key, w, part).part = part
BY DEF Put

LEMMA LabelsAre ==
  ASSUME NEW v \in Vehicle \cup {Absent}, NEW d \in Device, NEW part \in Nat
  PROVE  /\ Labels(v, d, part) \in Seq(Upsert) /\ Labels(v, d, part) # <<>>
         /\ Unlabel(d, part) \in Seq(Upsert) /\ Regroup(d, part) \in Seq(Upsert)
         /\ Settles(Labels(v, d, part), d, "id", v) /\ Settles(Labels(v, d, part), d, "name", v)
         /\ Settles(Unlabel(d, part), d, "id", Absent)
         /\ \A e, key : e # d => /\ Untouched(Labels(v, d, part), e, key)
                                 /\ Untouched(Unlabel(d, part), e, key)
         /\ \A e : /\ Untouched(Labels(v, d, part), e, "config")
                   /\ Untouched(Unlabel(d, part), e, "config")
                   /\ Untouched(Regroup(d, part), e, "config")
<1>1. /\ Put(d, "name", v, part) \in Upsert /\ Put(d, "id", v, part) \in Upsert
      /\ Put(d, "name", Absent, part) \in Upsert /\ Put(d, "id", Absent, part) \in Upsert
      /\ Put(d, "group", Absent, part) \in Upsert
      BY DEF Put, Upsert
<1>2. d # Absent
      BY Bounds
<1>3. /\ Labels(v, d, part) = <<Put(d, "name", v, part), Put(d, "id", v, part)>>
      /\ Unlabel(d, part) = <<Put(d, "id", Absent, part), Put(d, "name", Absent, part)>>
      /\ Regroup(d, part) = <<Put(d, "group", Absent, part)>>
      BY <1>2 DEF Labels, Unlabel, Regroup
<1>4. /\ Labels(v, d, part) \in Seq(Upsert) /\ Labels(v, d, part) # <<>>
      /\ Unlabel(d, part) \in Seq(Upsert) /\ Regroup(d, part) \in Seq(Upsert)
      BY <1>1, <1>3
<1>5. /\ DOMAIN Labels(v, d, part) = 1..2 /\ DOMAIN Unlabel(d, part) = 1..2
      /\ DOMAIN Regroup(d, part) = 1..1
      BY <1>3
<1>6. /\ Labels(v, d, part)[1] = Put(d, "name", v, part)
      /\ Labels(v, d, part)[2] = Put(d, "id", v, part)
      /\ Unlabel(d, part)[1] = Put(d, "id", Absent, part)
      /\ Unlabel(d, part)[2] = Put(d, "name", Absent, part)
      /\ Regroup(d, part)[1] = Put(d, "group", Absent, part)
      BY <1>3
<1> QED BY <1>4, <1>5, <1>6, PutIs DEF Settles, Untouched

LEMMA ConcatIs ==
  ASSUME NEW S, NEW s \in Seq(S), NEW t \in Seq(S)
  PROVE  /\ s \o t \in Seq(S) /\ Len(s \o t) = Len(s) + Len(t)
         /\ DOMAIN s = 1..Len(s) /\ DOMAIN t = 1..Len(t) /\ DOMAIN (s \o t) = 1..Len(s \o t)
         /\ Len(s) \in Nat /\ Len(t) \in Nat
         /\ \A i \in 1..Len(s) : (s \o t)[i] = s[i]
         /\ \A i \in 1..Len(t) : (s \o t)[Len(s) + i] = t[i]
BY ConcatProperties, LenProperties

\* The last write of two lists is the last of the second that concerns the attribute,
\* or else of the first.
LEMMA SettlesConcat ==
  ASSUME NEW s \in Seq(Upsert), NEW t \in Seq(Upsert), NEW d, NEW key
  PROVE  /\ Untouched(s, d, key) /\ Untouched(t, d, key) => Untouched(s \o t, d, key)
         /\ \A w : Settles(t, d, key, w) => Settles(s \o t, d, key, w)
         /\ \A w : Settles(s, d, key, w) /\ Untouched(t, d, key) => Settles(s \o t, d, key, w)
<1> DEFINE c == s \o t
           m == Len(s)
           n == Len(t)
           hit(q) == q.device = d /\ q.key = key
<1>1. /\ c \in Seq(Upsert) /\ DOMAIN s = 1..m /\ DOMAIN t = 1..n /\ DOMAIN c = 1..(m + n)
      /\ m \in Nat /\ n \in Nat
      /\ \A i \in 1..m : c[i] = s[i]
      /\ \A i \in 1..n : c[m + i] = t[i]
      BY ConcatIs
<1>2. /\ \A i \in 1..(m + n) : i \in 1..m \/ (i - m \in 1..n /\ c[i] = t[i - m])
      /\ \A i \in 1..m : i \in 1..(m + n)
      /\ \A i \in 1..n : m + i \in 1..(m + n)
  <2> HIDE DEF c, m, n
  <2>1. \A i \in 1..(m + n) : i \in 1..m \/ (i - m \in 1..n /\ m + (i - m) = i)
        BY <1>1
  <2>2. /\ \A i \in 1..m : i \in 1..(m + n)
        /\ \A i \in 1..n : m + i \in 1..(m + n)
        BY <1>1
  <2>3. \A i \in 1..(m + n) : i \in 1..m \/ (i - m \in 1..n /\ c[i] = t[i - m])
        BY <1>1, <2>1
  <2> QED BY <2>2, <2>3
<1> HIDE DEF c, m, n
<1>3. ASSUME Untouched(s, d, key), Untouched(t, d, key) PROVE Untouched(c, d, key)
  <2>1. (\A i \in 1..m : ~hit(s[i])) /\ \A i \in 1..n : ~hit(t[i])
        BY <1>1, <1>3 DEF Untouched
  <2>2. \A i \in 1..(m + n) : ~hit(c[i])
    <3> HIDE DEF hit
    <3> QED BY <1>1, <1>2, <2>1
  <2> QED BY <1>1, <2>2 DEF Untouched
<1>4. ASSUME NEW w, Settles(t, d, key, w) PROVE Settles(c, d, key, w)
  <2>1. PICK i \in 1..n : hit(t[i]) /\ t[i].value = w /\ \A j \in 1..n : j > i => ~hit(t[j])
        BY <1>1, <1>4 DEF Settles
  <2>2. hit(c[m + i]) /\ c[m + i].value = w
        BY <1>1, <2>1
  <2>3. ASSUME NEW j \in 1..(m + n), j > m + i PROVE ~hit(c[j])
    <3>1. j - m \in 1..n /\ j - m > i /\ c[j] = t[j - m]
          BY <1>1, <1>2, <2>3
    <3> QED BY <2>1, <3>1
  <2> QED BY <1>1, <1>2, <2>2, <2>3 DEF Settles
<1>5. ASSUME NEW w, Settles(s, d, key, w), Untouched(t, d, key) PROVE Settles(c, d, key, w)
  <2>1. PICK i \in 1..m : hit(s[i]) /\ s[i].value = w /\ \A j \in 1..m : j > i => ~hit(s[j])
        BY <1>1, <1>5 DEF Settles
  <2>2. ASSUME NEW j \in 1..(m + n), j > i PROVE ~hit(c[j])
    <3>1. CASE j \in 1..m
      <4> HIDE DEF hit
      <4> QED BY <1>1, <2>1, <2>2, <3>1
    <3>2. CASE j \notin 1..m
      <4>1. j - m \in 1..n /\ c[j] = t[j - m]
            BY <1>2, <3>2
      <4>2. \A k \in 1..n : ~hit(t[k])
            BY <1>1, <1>5 DEF Untouched
      <4> QED BY <4>1, <4>2
    <3> QED BY <3>1, <3>2
  <2> QED BY <1>1, <1>2, <2>1, <2>2 DEF Settles
<1> QED BY <1>3, <1>4, <1>5 DEF c

\* What is left of a list.
LEMMA TailIs ==
  ASSUME NEW s \in Seq(Upsert), s # <<>>
  PROVE  /\ Head(s) \in Upsert /\ Head(s) = s[1] /\ 1 \in DOMAIN s /\ Tail(s) \in Seq(Upsert)
         /\ DOMAIN s = 1..Len(s) /\ Len(s) \in Nat
         /\ DOMAIN Tail(s) = 1..(Len(s) - 1)
         /\ \A i \in DOMAIN Tail(s) : i + 1 \in DOMAIN s /\ Tail(s)[i] = s[i + 1]
BY HeadTailProperties, LenProperties

\* Writing the head: the attribute becomes what the head says, and is what the tail
\* leaves of it.
LEMMA SettlesTail ==
  ASSUME NEW s \in Seq(Upsert), s # <<>>, NEW d, NEW key
  PROVE  /\ Untouched(s, d, key) => /\ Untouched(Tail(s), d, key)
                                    /\ ~(Head(s).device = d /\ Head(s).key = key)
         /\ \A w : Settles(s, d, key, w) =>
              \/ Settles(Tail(s), d, key, w)
              \/ /\ Untouched(Tail(s), d, key)
                 /\ Head(s).device = d /\ Head(s).key = key /\ Head(s).value = w
<1> DEFINE t == Tail(s)
           n == Len(s)
           hit(q) == q.device = d /\ q.key = key
<1>1. /\ n \in Nat /\ DOMAIN s = 1..n /\ DOMAIN t = 1..(n - 1) /\ Head(s) = s[1] /\ 1 \in 1..n
      /\ \A i \in 1..(n - 1) : i + 1 \in 1..n /\ t[i] = s[i + 1]
      BY TailIs
<1> HIDE DEF t, n
<1>2. Untouched(s, d, key) => Untouched(t, d, key) /\ ~hit(Head(s))
      BY <1>1 DEF Untouched
<1>3. ASSUME NEW w, Settles(s, d, key, w)
      PROVE  Settles(t, d, key, w) \/ (Untouched(t, d, key) /\ hit(Head(s)) /\ Head(s).value = w)
  <2>1. PICK i \in 1..n : hit(s[i]) /\ s[i].value = w /\ \A j \in 1..n : j > i => ~hit(s[j])
        BY <1>1, <1>3 DEF Settles
  <2>2. CASE i = 1
    <3>1. \A j \in 1..(n - 1) : j + 1 > 1
          OBVIOUS
    <3> QED BY <1>1, <2>1, <2>2, <3>1 DEF Untouched
  <2>3. CASE i # 1
    <3>1. i - 1 \in 1..(n - 1) /\ t[i - 1] = s[i]
      <4>1. i - 1 \in 1..(n - 1) /\ (i - 1) + 1 = i
            BY <1>1, <2>3
      <4> QED BY <1>1, <4>1
    <3>2. \A j \in 1..(n - 1) : j > i - 1 => ~hit(t[j])
          BY <1>1, <2>1
    <3> QED BY <1>1, <2>1, <3>1, <3>2 DEF Settles
  <2> QED BY <2>2, <2>3
<1> QED BY <1>2, <1>3 DEF t

\* What is left when a try block ends are writes of the list.
LEMMA NextBlockIs ==
  ASSUME NEW s \in Seq(Upsert), s # <<>>
  PROVE  /\ NextBlock(s) \in Seq(Upsert) /\ DOMAIN NextBlock(s) = 1..Len(NextBlock(s))
         /\ \A i \in DOMAIN NextBlock(s) : \E j \in DOMAIN s : NextBlock(s)[i] = s[j]
         /\ Len(s) = 1 => NextBlock(s) = <<>>
<1> DEFINE T == {i \in DOMAIN s : s[i].part # Head(s).part} \cup {Len(s) + 1}
<1>1. DOMAIN s = 1..Len(s) /\ Len(s) \in Nat /\ Len(s) # 0 /\ Head(s) = s[1]
      BY LenProperties, EmptySeq, TailIs
<1>2. T \subseteq 1..(Len(s) + 1) /\ T \in SUBSET Nat /\ T # {}
      BY <1>1
<1>3. PICK k \in 1..(Len(s) + 1) : k = Min(T) /\ k \in T
      BY <1>2, MinIs
<1>4. NextBlock(s) = SubSeq(s, k, Len(s))
      BY <1>3 DEF NextBlock
<1>5. SubSeq(s, k, Len(s)) = [i \in 1..((Len(s) - k) + 1) |-> s[(i + k) - 1]]
      BY <1>1, SubSeqProperties
<1>6. \A i \in 1..((Len(s) - k) + 1) : (i + k) - 1 \in DOMAIN s
      BY <1>1
<1>7. NextBlock(s) \in Seq(Upsert)
      BY <1>1, <1>4, SubSeqProperties
<1>8. DOMAIN NextBlock(s) = 1..((Len(s) - k) + 1)
      BY <1>4, <1>5
<1>9. ASSUME Len(s) = 1 PROVE NextBlock(s) = <<>>
  <2>1. \A i \in DOMAIN s : i = 1
        BY <1>1, <1>9
  <2>2. k = 2
        BY <1>1, <1>3, <1>9, <2>1
  <2>3. DOMAIN NextBlock(s) = {}
        BY <1>8, <1>9, <2>2
  <2> QED BY <1>7, <2>3, EmptySeq, LenProperties
<1> QED BY <1>4, <1>5, <1>6, <1>7, <1>8, <1>9, LenProperties

LEMMA TableIsSeq ==
  ASSUME NEW S, NEW n \in Nat, NEW f \in [1..n -> S]
  PROVE  f \in Seq(S)
BY SeqDef

\* f has the concatenations of the first lists, up to n of them.
Flattens(f, seqs, n) == f = [i \in 1..n |-> IF i = 1 THEN seqs[i] ELSE f[i - 1] \o seqs[i]]

LEMMA FlattenExists ==
  ASSUME NEW seqs, NEW n \in Nat
  PROVE  \E f : Flattens(f, seqs, n)
<1> DEFINE None == {k \in Nat : ~\E f : Flattens(f, seqs, k)}
<1>1. Flattens([i \in 1..0 |-> <<>>], seqs, 0)
  <2>1. 1..0 = {}
        OBVIOUS
  <2> QED BY <2>1 DEF Flattens
<1>2. ASSUME NEW k \in Nat, NEW f, Flattens(f, seqs, k)
      PROVE  \E g : Flattens(g, seqs, k + 1)
  <2> DEFINE step(h, i) == IF i = 1 THEN seqs[i] ELSE h[i - 1] \o seqs[i]
             g == [i \in 1..(k + 1) |-> IF i <= k THEN f[i] ELSE step(f, i)]
  <2>1. \A i \in 1..k : f[i] = step(f, i)
        BY <1>2 DEF Flattens
  <2>2. \A i \in 1..(k + 1) : g[i] = step(f, i)
    <3> HIDE DEF step
    <3> QED BY <2>1
  <2>3. \A i \in 1..k : g[i] = f[i]
        OBVIOUS
  <2>4. \A i \in 1..(k + 1) : i = 1 \/ i - 1 \in 1..k
        OBVIOUS
  <2>5. g = [i \in 1..(k + 1) |-> g[i]]
        OBVIOUS
  <2> HIDE DEF g
  <2>6. \A i \in 1..(k + 1) : step(f, i) = step(g, i)
        BY <2>3, <2>4
  <2>7. g = [i \in 1..(k + 1) |-> step(g, i)]
    <3> HIDE DEF step
    <3> QED BY <2>2, <2>5, <2>6
  <2>8. Flattens(g, seqs, k + 1)
        BY <2>7 DEF Flattens
  <2> QED BY <2>8
<1>3. None = {}
  <2> SUFFICES ASSUME None # {} PROVE FALSE
      OBVIOUS
  <2>1. PICK m \in None : \A k \in None : m <= k
        BY LeastNumber
  <2>2. m # 0 /\ m \in Nat
        BY <1>1
  <2>3. m - 1 \in Nat /\ m - 1 \notin None /\ (m - 1) + 1 = m
        BY <2>1, <2>2
  <2> QED BY <1>2, <2>3
<1> QED BY <1>3

\* The last list that concerns an attribute settles it.
LEMMA FlattenSettles ==
  ASSUME NEW seqs \in Seq(Seq(Upsert))
  PROVE  /\ FlattenSeq(seqs) \in Seq(Upsert)
         /\ \A d, key : (\A i \in DOMAIN seqs : Untouched(seqs[i], d, key))
                          => Untouched(FlattenSeq(seqs), d, key)
         /\ \A d, key, w : \A m \in DOMAIN seqs :
              Settles(seqs[m], d, key, w)
                /\ (\A i \in DOMAIN seqs : i > m => Untouched(seqs[i], d, key))
                  => Settles(FlattenSeq(seqs), d, key, w)
<1> DEFINE n == Len(seqs)
<1>1. n \in Nat /\ DOMAIN seqs = 1..n /\ \A i \in 1..n : seqs[i] \in Seq(Upsert)
      BY LenProperties
<1>2. CASE n = 0
  <2>1. seqs = <<>> /\ FlattenSeq(seqs) = seqs /\ DOMAIN seqs = {}
        BY <1>1, <1>2, EmptySeq DEF FlattenSeq
  <2>2. FlattenSeq(seqs) \in Seq(Upsert)
        BY <2>1, EmptySeq
  <2>3. \A d, key : Untouched(FlattenSeq(seqs), d, key)
        BY <2>1 DEF Untouched
  <2> HIDE DEF n
  <2> QED BY <2>1, <2>2, <2>3
<1>3. CASE n # 0
  <2>1. PICK f : Flattens(f, seqs, n) /\ FlattenSeq(seqs) = f[n]
    <3> DEFINE f == CHOOSE f : Flattens(f, seqs, n)
    <3>1. Flattens(f, seqs, n)
          BY <1>1, FlattenExists
    <3>2. FlattenSeq(seqs) = f[n]
          BY <1>3 DEF FlattenSeq, Flattens
    <3> QED BY <3>1, <3>2
  <2> HIDE DEF n
  <2>2. /\ f[1] = seqs[1]
        /\ \A i \in 1..n : i # 1 => f[i] = f[i - 1] \o seqs[i] /\ i - 1 \in 1..n
        /\ 1 \in 1..n /\ n \in 1..n
    <3>1. 1 \in 1..n /\ n \in 1..n /\ \A i \in 1..n : i # 1 => i - 1 \in 1..n
          BY <1>1, <1>3
    <3> QED BY <2>1, <3>1 DEF Flattens
  <2>3. \A i \in 1..n : f[i] \in Seq(Upsert)
    <3> DEFINE Bad == {i \in 1..n : f[i] \notin Seq(Upsert)}
    <3> SUFFICES ASSUME Bad # {} PROVE FALSE
        OBVIOUS
    <3>1. Bad \in SUBSET Nat
          BY <1>1
    <3>2. PICK m \in Bad : \A k \in Bad : m <= k
          BY <3>1, LeastNumber
    <3>3. m # 1 /\ m \in 1..n
          BY <1>1, <2>2
    <3>4. m - 1 \in 1..n /\ ~(m <= m - 1) /\ f[m] = f[m - 1] \o seqs[m]
      <4>1. m - 1 \in 1..n /\ f[m] = f[m - 1] \o seqs[m]
            BY <2>2, <3>3, Zenon
      <4>2. ~(m <= m - 1)
            BY <1>1, <3>3
      <4> QED BY <4>1, <4>2
    <3>5. f[m - 1] \in Seq(Upsert)
          BY <3>2, <3>4
    <3>6. f[m] \in Seq(Upsert)
          BY <1>1, <3>3, <3>4, <3>5, ConcatIs
    <3> QED BY <3>2, <3>6
  <2>4. ASSUME NEW d, NEW key, NEW j \in 0..n, \A i \in 1..j : Untouched(seqs[i], d, key)
        PROVE  \A i \in 1..j : Untouched(f[i], d, key)
    <3> DEFINE Bad == {i \in 1..j : ~Untouched(f[i], d, key)}
    <3> SUFFICES ASSUME Bad # {} PROVE FALSE
        OBVIOUS
    <3>1. Bad \in SUBSET Nat
          BY <1>1
    <3>2. PICK m \in Bad : \A k \in Bad : m <= k
          BY <3>1, LeastNumber
    <3>3. m # 1 /\ m \in 1..n /\ m \in 1..j
          BY <1>1, <2>2, <2>4
    <3>4. m - 1 \in 1..n /\ m - 1 \in 1..j /\ ~(m <= m - 1) /\ f[m] = f[m - 1] \o seqs[m]
          BY <1>1, <2>2, <3>3
    <3>5. Untouched(f[m - 1], d, key)
          BY <3>2, <3>4
    <3> QED BY <1>1, <2>3, <2>4, <3>3, <3>4, <3>5, SettlesConcat
  <2>5. ASSUME NEW d, NEW key, NEW w, NEW j \in 1..n, Settles(seqs[j], d, key, w),
               \A i \in 1..n : i > j => Untouched(seqs[i], d, key)
        PROVE  \A i \in 1..n : i >= j => Settles(f[i], d, key, w)
    <3> DEFINE Bad == {i \in 1..n : i >= j /\ ~Settles(f[i], d, key, w)}
    <3> SUFFICES ASSUME Bad # {} PROVE FALSE
        OBVIOUS
    <3>1. Bad \in SUBSET Nat
          BY <1>1
    <3>2. PICK m \in Bad : \A k \in Bad : m <= k
          BY <3>1, LeastNumber
    <3>3. m \in 1..n /\ m >= j /\ m \in Nat /\ j \in Nat
          BY <1>1
    <3>4. CASE m = 1
          BY <2>2, <2>5, <3>3, <3>4
    <3>5. CASE m # 1
      <4>1. m - 1 \in 1..n /\ ~(m <= m - 1) /\ f[m] = f[m - 1] \o seqs[m]
            BY <1>1, <2>2, <3>3, <3>5
      <4>2. CASE m = j
            BY <1>1, <2>3, <2>5, <4>1, <4>2, SettlesConcat
      <4>3. CASE m # j
        <5>1. m - 1 >= j /\ m > j
              BY <3>3, <4>3
        <5>2. Settles(f[m - 1], d, key, w)
              BY <3>2, <4>1, <5>1
        <5>3. Untouched(seqs[m], d, key)
              BY <2>5, <3>3, <5>1
        <5> QED BY <1>1, <2>3, <3>3, <4>1, <5>2, <5>3, SettlesConcat
      <4> QED BY <4>2, <4>3
    <3> QED BY <3>4, <3>5
  <2>6. n \in 0..n /\ \A j \in 1..n : n >= j
        BY <1>1
  <2>7. ASSUME NEW d, NEW key, \A i \in DOMAIN seqs : Untouched(seqs[i], d, key)
        PROVE  Untouched(FlattenSeq(seqs), d, key)
        BY <1>1, <2>1, <2>2, <2>4, <2>6, <2>7 DEF n
  <2>8. ASSUME NEW d, NEW key, NEW w, NEW m \in DOMAIN seqs, Settles(seqs[m], d, key, w),
               \A i \in DOMAIN seqs : i > m => Untouched(seqs[i], d, key)
        PROVE  Settles(FlattenSeq(seqs), d, key, w)
    <3>1. m \in 1..n /\ \A i \in 1..n : i > m => Untouched(seqs[i], d, key)
          BY <1>1, <2>8
    <3>2. Settles(f[n], d, key, w)
          BY <2>2, <2>5, <2>6, <2>8, <3>1
    <3> QED BY <2>1, <3>2
  <2> QED BY <2>1, <2>2, <2>3, <2>7, <2>8 DEF n
<1> QED BY <1>2, <1>3

LEMMA EventLabelsAre ==
  ASSUME NEW o \in Request, o.vehicle \in Vehicle, o.device \in Device
  PROVE  /\ EventLabels(o) \in Seq(Upsert)
         /\ \A e : Untouched(EventLabels(o), e, "config")
<1> DEFINE own == <<Put(o.device, "name", o.vehicle, 2), Put(o.device, "id", NaN, 2)>>
           other == IF o.previous \in {Absent, o.device} THEN <<>> ELSE Labels(Absent, o.previous, 2)
<1>1. Put(o.device, "name", o.vehicle, 2) \in Upsert /\ Put(o.device, "id", NaN, 2) \in Upsert
      BY DEF Put, Upsert
<1>2. own \in Seq(Upsert) /\ \A e : Untouched(own, e, "config")
  <2>1. /\ own \in Seq(Upsert) /\ DOMAIN own = 1..2
        /\ own[1] = Put(o.device, "name", o.vehicle, 2) /\ own[2] = Put(o.device, "id", NaN, 2)
        BY <1>1
  <2> QED BY <2>1, PutIs DEF Untouched
<1>3. other \in Seq(Upsert) /\ \A e : Untouched(other, e, "config")
  <2>1. CASE o.previous \in {Absent, o.device}
        BY <2>1, EmptySeq DEF Untouched
  <2>2. CASE o.previous \notin {Absent, o.device}
        BY <2>2, LabelsAre DEF Request
  <2> QED BY <2>1, <2>2
<1>4. EventLabels(o) = other \o own
      BY DEF EventLabels
<1> HIDE DEF own, other
<1> QED BY <1>2, <1>3, <1>4, ConcatIs, SettlesConcat

\* The labels an assignment writes, with the regrouping between them.
LEMMA AssignmentWrites ==
  ASSUME NEW o \in Request, o.vehicle \in Vehicle, o.device \in Device,
         NEW todo, todo = Labels(o.vehicle, o.device, 1) \o Regroup(o.device, 1) \o EventLabels(o)
  PROVE  todo \in Seq(Upsert) /\ \A e : Untouched(todo, e, "config")
<1> DEFINE first == Labels(o.vehicle, o.device, 1)
           group == Regroup(o.device, 1)
           event == EventLabels(o)
<1>1. /\ first \in Seq(Upsert) /\ group \in Seq(Upsert) /\ event \in Seq(Upsert)
      /\ \A e : /\ Untouched(first, e, "config") /\ Untouched(group, e, "config")
                /\ Untouched(event, e, "config")
      BY LabelsAre, EventLabelsAre
<1> HIDE DEF first, group, event
<1>2. first \o group \in Seq(Upsert) /\ \A e : Untouched(first \o group, e, "config")
      BY <1>1, ConcatIs, SettlesConcat
<1>3. todo = (first \o group) \o event
      BY DEF first, group, event
<1>4. /\ (first \o group) \o event \in Seq(Upsert)
      /\ \A e : Untouched((first \o group) \o event, e, "config")
      BY <1>1, <1>2, ConcatIs, SettlesConcat
<1> QED BY <1>3, <1>4

\* A request goes on to its writes.
LEMMA WritingIs ==
  ASSUME NEW o \in Request, NEW todo \in Seq(Upsert), o.pc # "idle"
  PROVE  /\ Writing(o, todo) \in Request
         /\ Writing(o, todo).pc = "done" => Writing(o, todo).sees = {}
         /\ todo # <<>> => Writing(o, todo).pc = "put"
         /\ todo = <<>> /\ o.kind = "reconcile" => Writing(o, todo).pc = "sweep"
         /\ todo = <<>> /\ o.kind # "reconcile" => Writing(o, todo).pc = "done"
         /\ Writing(o, todo).pc \in {"put", "sweep"} => Writing(o, todo).found = o.found
         /\ Writing(o, todo).kind = o.kind /\ Writing(o, todo).ok = o.ok
         /\ Writing(o, todo).device = o.device /\ Writing(o, todo).vehicle = o.vehicle
         /\ Writing(o, todo).todo = todo
         /\ Writing(o, todo).pc \in {"put", "sweep", "done"}
<1>1. Idle \in Request /\ Idle.todo = <<>> /\ Idle.sees = {}
      BY EmptySeq DEF Idle, Request, Kind, Stage, Blank, Attributes
<1>2. CASE todo # <<>>
      BY <1>2 DEF Writing, Request, Stage
<1>3. CASE todo = <<>> /\ o.kind = "reconcile"
      BY <1>3, EmptySeq DEF Writing, Request, Stage
<1>4. CASE todo = <<>> /\ o.kind # "reconcile"
      BY <1>1, <1>4, EmptySeq DEF Writing, Request, Stage
<1> QED BY <1>2, <1>3, <1>4

LEMMA IdleIs ==
  /\ Idle \in Request /\ Idle.kind = "none" /\ Idle.pc = "idle" /\ Idle.todo = <<>>
  /\ Idle.sees = {} /\ Idle.locks = {} /\ Idle.ok /\ Idle.found = <<>>
BY EmptySeq DEF Idle, Request, Kind, Stage, Blank, Attributes

LEMMA FailedIs ==
  ASSUME NEW o \in Request
  PROVE  /\ Failed(o) \in Request /\ Failed(o).kind = o.kind /\ Failed(o).pc = "done"
         /\ Failed(o).todo = <<>> /\ ~Failed(o).ok /\ Staged(Failed(o))
<1>1. /\ Failed(o) \in Request /\ Failed(o).kind = o.kind /\ Failed(o).pc = "done"
      /\ Failed(o).todo = <<>> /\ Failed(o).sees = {}
      BY IdleIs DEF Failed, Request, Stage
<1>2. ~Failed(o).ok
      BY IdleIs DEF Failed, Request
<1> QED BY <1>1, <1>2 DEF Staged, Assigning

LEMMA Types ==
  ASSUME IInv
  PROVE  /\ fleet \subseteq Vehicle /\ rows \subseteq Row /\ active \subseteq rows
         /\ attrs \in [Device -> Attributes] /\ op \in [Ops -> Request]
         /\ faults \in Nat /\ met \in [Ops -> SUBSET Ops]
         /\ \A n \in Ops : op[n] \in Request /\ Staged(op[n]) /\ n \in Nat
BY Bounds DEF IInv, TypeOK, Stages

-----------------------------------------------------------------------------
(* A request in progress goes on as o.  What the step may disturb, part by  *)
(* part.                                                                    *)

LEMMA MeetingsMove ==
  ASSUME IInv, NEW n \in Ops, n \in Busy, NEW o \in Request, o.pc # "idle",
         op' = [op EXCEPT ![n] = o], met' = met
  PROVE  Meetings' /\ Busy' \subseteq Busy
<1>1. op'[n] = o /\ \A k \in Ops \ {n} : op'[k] = op[k]
      BY Types
<1>2. Busy' \subseteq Busy
      BY <1>1 DEF Busy
<1>3. \A k \in Ops : op[k].pc = "done" => op'[k].pc = "done"
      BY <1>1 DEF Busy
<1>4. \A k \in Ops : op'[k].pc # "idle" => op[k].pc # "idle"
      BY <1>1 DEF Busy
<1>5. \A k \in Ops : \A m \in 1..(k - 1) : m \in Ops
      BY Bounds
<1> QED BY <1>2, <1>3, <1>4, <1>5 DEF IInv, Meetings

\* While n is in progress, no save is kept that met n, and those that met none are done.
LEMMA SavesMove ==
  ASSUME IInv, NEW n \in Ops, n \in Busy, NEW o \in Request, o.pc # "idle",
         op' = [op EXCEPT ![n] = o], met' = met,
         \A m \in Ops \ {n} :
           op[m].kind = "config" /\ op[m].ok /\ met[m] = {} /\ op[m].pc = "done" =>
             m \in attrs'[op[m].device].config /\ Keeps(o, m, op[m].device),
         o.kind = "config" /\ o.ok /\ met[n] = {} =>
           /\ WritesItself(o, n)
           /\ o.pc = "done" => n \in attrs'[o.device].config /\ Keeps(o, n, o.device)
  PROVE  SavesKept'
<1>1. op'[n] = o /\ \A k \in Ops \ {n} : op'[k] = op[k]
      BY Types
<1>2. ASSUME NEW m \in Ops \ {n}, op[m].kind = "config", op[m].ok, met[m] = {}
      PROVE  /\ WritesItself(op[m], m)
             /\ op[m].pc = "done" => /\ m \in attrs'[op[m].device].config
                                     /\ \A k \in Ops : Keeps(op'[k], m, op[m].device)
  <2>1. WritesItself(op[m], m)
        BY <1>2 DEF IInv, SavesKept
  <2>2. ASSUME op[m].pc = "done"
        PROVE  /\ m \in attrs'[op[m].device].config
               /\ \A k \in Ops : Keeps(op'[k], m, op[m].device)
    <3>1. \A k \in Ops : Keeps(op[k], m, op[m].device)
          BY <1>2, <2>2 DEF IInv, SavesKept
    <3>2. m \in attrs'[op[m].device].config /\ Keeps(o, m, op[m].device)
          BY <1>2, <2>2
    <3> QED BY <1>1, <3>1, <3>2
  <2> QED BY <2>1, <2>2
<1>3. ASSUME o.kind = "config", o.ok, met[n] = {}, o.pc = "done"
      PROVE  \A k \in Ops : Keeps(op'[k], n, o.device)
  <2> SUFFICES ASSUME NEW k \in Ops, k # n PROVE Keeps(op[k], n, o.device)
      BY <1>1, <1>3
  <2>1. k \notin Busy
        BY <1>3 DEF IInv, Meetings
  <2>2. op[k].todo = <<>> /\ op[k].pc # "write"
        BY <2>1, Types DEF Busy, Staged
  <2> QED BY <2>2 DEF Keeps
<1>4. ASSUME NEW m \in Ops, op'[m].kind = "config", op'[m].ok, met[m] = {}
      PROVE  /\ WritesItself(op'[m], m)
             /\ op'[m].pc = "done" => /\ m \in attrs'[op'[m].device].config
                                      /\ \A k \in Ops : Keeps(op'[k], m, op'[m].device)
      BY <1>1, <1>2, <1>3, <1>4
<1>5. \A q, m : WritesItself(q, m)' <=> WritesItself(q, m)
      BY DEF WritesItself
<1>6. \A q, m, d : Keeps(q, m, d)' <=> Keeps(q, m, d)
      BY DEF Keeps
<1> QED BY <1>4 DEF SavesKept, WritesItself, Keeps

\* Only n can be a reconciliation that runs alone.
LEMMA ReconcilesMove ==
  ASSUME IInv, NEW n \in Ops, n \in Busy, NEW o \in Request, o.pc # "idle",
         op' = [op EXCEPT ![n] = o], met' = met,
         o.kind \in {"reconcile", "swept"} /\ o.ok /\ met[n] = {}
           /\ (\A k \in Ops : k > n => op[k].pc = "idle")
             => Reconciles(o, active', attrs')
  PROVE  ReconcilesAlone'
<1>1. op'[n] = o /\ \A k \in Ops \ {n} : op'[k] = op[k]
      BY Types
<1>2. ASSUME NEW m \in Ops \ {n}, op[m].kind \in {"reconcile", "swept"}, met[m] = {},
             \A k \in Ops : k > m => op'[k].pc = "idle"
      PROVE  FALSE
  <2>1. op[m].pc # "idle"
        BY <1>2, Types, IdleIs DEF Staged
  <2>2. ~(n > m) /\ n # m
        BY <1>1, <1>2
  <2>3. n \in 1..(m - 1)
        BY <2>2, Bounds
  <2>4. op[n].pc = "done"
        BY <1>2, <2>1, <2>3 DEF IInv, Meetings
  <2> QED BY <2>4 DEF Busy
<1>3. ASSUME NEW m \in Ops, op'[m].kind \in {"reconcile", "swept"}, op'[m].ok, met[m] = {},
             \A k \in Ops : k > m => op'[k].pc = "idle"
      PROVE  Reconciles(op'[m], active', attrs')
  <2>1. m = n
        BY <1>1, <1>2, <1>3
  <2>2. \A k \in Ops : k > n => op[k].pc = "idle"
        BY <1>1, <1>3, <2>1, Bounds
  <2> QED BY <1>1, <1>3, <2>1, <2>2
<1> QED BY <1>3 DEF ReconcilesAlone, Alone, Reconciles, Labelled, WillBe, Settles, Untouched

\* A step of n that leaves the tables alone.
LEMMA Moves ==
  ASSUME IInv, NEW n \in Ops, n \in Busy, NEW o \in Request, o.pc # "idle",
         op' = [op EXCEPT ![n] = o], met' = met, faults' \in Nat,
         fleet' = fleet, rows' = rows, active' = active,
         attrs' \in [Device -> Attributes],
         Staged(o), o.pc \in Assigning => op[n].pc \in Assigning, MissesLate(o, n),
         SavesKept', ReconcilesAlone'
  PROVE  IInv'
<1>1. op'[n] = o /\ op' \in [Ops -> Request] /\ \A k \in Ops \ {n} : op'[k] = op[k]
      BY Types
<1>2. TypeOK'
      BY <1>1, Types DEF TypeOK
<1>3. Stages'
  <2>1. \A k \in Ops : Staged(op'[k])
        BY <1>1, Types
  <2> QED BY <2>1 DEF Stages, Staged
<1>4. Meetings'
      BY MeetingsMove
<1>5. RowsOnce'
  <2>1. \A r \in rows : r.by # 0 => r.by \in Ops
        BY Types, Bounds DEF Row
  <2>2. \A r \in rows : r.by # 0 => op'[r.by].pc \notin Assigning \cup {"idle"}
        BY <1>1, <2>1 DEF IInv, RowsOnce
  <2> QED BY <2>2 DEF IInv, RowsOnce
<1>6. OnlyLateMissed'
  <2>1. \A k \in Ops : MissesLate(op'[k], k)
        BY <1>1 DEF IInv, OnlyLateMissed
  <2> QED BY <2>1 DEF OnlyLateMissed, MissesLate, Held, In, Late, Overlapped
<1>7. OneActiveUnlessOverlapped'
      BY DEF IInv, OneActiveUnlessOverlapped, Overlapped
<1> QED BY <1>2, <1>3, <1>4, <1>5, <1>6, <1>7 DEF IInv

\* The same of one that writes nothing, and is neither a save nor a reconciliation.
LEMMA PlainMoves ==
  ASSUME IInv, NEW n \in Ops, n \in Busy, NEW o \in Request, o.pc # "idle",
         op' = [op EXCEPT ![n] = o], met' = met, faults' \in Nat,
         fleet' = fleet, rows' = rows, active' = active, attrs' = attrs,
         Staged(o), o.pc \in Assigning => op[n].pc \in Assigning, MissesLate(o, n),
         o.todo = <<>>, o.kind \notin {"config", "reconcile", "swept"} \/ ~o.ok
  PROVE  IInv'
<1>1. attrs' \in [Device -> Attributes]
      BY Types
<1>2. o.pc # "write" /\ \A m, d : Keeps(o, m, d)
      BY DEF Staged, Keeps
<1>3. SavesKept'
      BY <1>2, SavesMove DEF IInv, SavesKept
<1>4. ReconcilesAlone'
      BY ReconcilesMove
<1> QED BY <1>1, <1>3, <1>4, Moves

LEMMA DeactivateVehicleInv ==
  ASSUME IInv, NEW n \in Ops, DeactivateVehicle(n)
  PROVE  IInv'
<1> DEFINE o == Locking(op[n], active, "freeDevice")
<1>1. /\ op[n].pc = "deactivateVehicle" /\ op' = [op EXCEPT ![n] = o] /\ met' = met /\ faults' = faults
      /\ fleet' = fleet /\ rows' = rows /\ active' = active /\ attrs' = attrs
      BY DEF DeactivateVehicle, Goes
<1>2. op[n] \in Request /\ Staged(op[n]) /\ n \in Busy /\ faults \in Nat /\ active \subseteq Row
      BY <1>1, Types DEF Busy
<1>3. /\ o \in Request /\ o.pc = "freeDevice" /\ o.kind = "assign" /\ o.todo = <<>>
      /\ o.vehicle = op[n].vehicle /\ o.device = op[n].device
      /\ o.locks = op[n].locks \cup (op[n].sees \cap active)
      BY <1>1, <1>2 DEF Locking, Request, Stage, Staged, Assigning
<1> HIDE DEF o
<1>4. Staged(o) /\ o.pc \in Assigning /\ op[n].pc \in Assigning
      BY <1>1, <1>2, <1>3 DEF Staged, Assigning
<1>5. MissesLate(o, n)
      BY <1>1, <1>3 DEF IInv, OnlyLateMissed, MissesLate, Held
<1> QED BY <1>1, <1>2, <1>3, <1>4, <1>5, PlainMoves

LEMMA FreeDeviceInv ==
  ASSUME IInv, NEW n \in Ops, FreeDevice(n)
  PROVE  IInv'
<1> DEFINE o == [op[n] EXCEPT !.pc = "deactivateDevice", !.sees = In(op[n].device) \ op[n].locks]
<1>1. /\ op[n].pc = "freeDevice" /\ op' = [op EXCEPT ![n] = o] /\ met' = met /\ faults' = faults
      /\ fleet' = fleet /\ rows' = rows /\ active' = active /\ attrs' = attrs
      BY DEF FreeDevice, Goes
<1>2. op[n] \in Request /\ Staged(op[n]) /\ n \in Busy /\ faults \in Nat /\ active \subseteq Row
      BY <1>1, Types DEF Busy
<1>3. /\ o \in Request /\ o.pc = "deactivateDevice" /\ o.kind = "assign" /\ o.todo = <<>>
      /\ o.vehicle = op[n].vehicle /\ o.device = op[n].device
      /\ o.locks = op[n].locks /\ o.sees = In(op[n].device) \ op[n].locks
      BY <1>1, <1>2 DEF Request, Stage, Staged, Assigning, In
<1> HIDE DEF o
<1>4. Staged(o) /\ o.pc \in Assigning /\ op[n].pc \in Assigning
      BY <1>1, <1>2, <1>3 DEF Staged, Assigning
<1>5. MissesLate(o, n)
      BY <1>1, <1>3 DEF IInv, OnlyLateMissed, MissesLate
<1> QED BY <1>1, <1>2, <1>3, <1>4, <1>5, PlainMoves

LEMMA DeactivateDeviceInv ==
  ASSUME IInv, NEW n \in Ops, DeactivateDevice(n)
  PROVE  IInv'
<1> DEFINE o == Locking(op[n], active, "insert")
<1>1. /\ op[n].pc = "deactivateDevice" /\ op' = [op EXCEPT ![n] = o] /\ met' = met /\ faults' = faults
      /\ fleet' = fleet /\ rows' = rows /\ active' = active /\ attrs' = attrs
      BY DEF DeactivateDevice, Goes
<1>2. op[n] \in Request /\ Staged(op[n]) /\ n \in Busy /\ faults \in Nat /\ active \subseteq Row
      BY <1>1, Types DEF Busy
<1>3. /\ o \in Request /\ o.pc = "insert" /\ o.kind = "assign" /\ o.todo = <<>>
      /\ o.vehicle = op[n].vehicle /\ o.device = op[n].device
      /\ o.locks = op[n].locks \cup (op[n].sees \cap active)
      BY <1>1, <1>2 DEF Locking, Request, Stage, Staged, Assigning
<1> HIDE DEF o
<1>4. Staged(o) /\ o.pc \in Assigning /\ op[n].pc \in Assigning
      BY <1>1, <1>2, <1>3 DEF Staged, Assigning
<1>5. MissesLate(o, n)
      BY <1>1, <1>3 DEF IInv, OnlyLateMissed, MissesLate, Held, In
<1> QED BY <1>1, <1>2, <1>3, <1>4, <1>5, PlainMoves

LEMMA DestroyRowsInv ==
  ASSUME IInv, NEW n \in Ops, DestroyRows(n)
  PROVE  IInv'
<1> DEFINE o == Locking(op[n], rows, "destroyVehicle")
<1>1. /\ op[n].pc = "destroyRows" /\ op' = [op EXCEPT ![n] = o] /\ met' = met /\ faults' = faults
      /\ fleet' = fleet /\ rows' = rows /\ active' = active /\ attrs' = attrs
      BY DEF DestroyRows, Goes
<1>2. op[n] \in Request /\ Staged(op[n]) /\ n \in Busy /\ faults \in Nat /\ rows \subseteq Row
      BY <1>1, Types DEF Busy
<1>3. /\ o \in Request /\ o.pc = "destroyVehicle" /\ o.kind = "delete" /\ o.todo = <<>>
      BY <1>1, <1>2 DEF Locking, Request, Stage, Staged, Assigning
<1> HIDE DEF o
<1>4. Staged(o) /\ o.pc \notin Assigning /\ MissesLate(o, n)
      BY <1>3 DEF Staged, Assigning, MissesLate
<1> QED BY <1>1, <1>2, <1>3, <1>4, PlainMoves

\* A transaction is aborted.
LEMMA FailsInv ==
  ASSUME IInv, NEW n \in Ops, n \in Busy, op' = [op EXCEPT ![n] = Failed(op[n])],
         met' = met, faults' = faults, fleet' = fleet, rows' = rows, active' = active, attrs' = attrs
  PROVE  IInv'
<1> DEFINE o == Failed(op[n])
<1>1. /\ o \in Request /\ o.pc = "done" /\ o.todo = <<>> /\ ~o.ok /\ Staged(o)
      BY FailedIs, Types
<1> HIDE DEF o
<1>2. op' = [op EXCEPT ![n] = o] /\ faults' \in Nat
      BY Types DEF o
<1>3. o.pc \notin Assigning /\ MissesLate(o, n)
      BY <1>1 DEF Assigning, MissesLate
<1> QED BY <1>1, <1>2, <1>3, PlainMoves

LEMMA WritingStaged ==
  ASSUME NEW q \in Request, q.pc # "idle", NEW todo \in Seq(Upsert),
         q.kind = "config" => q.device \in Device
  PROVE  Staged(Writing(q, todo))
<1> DEFINE o == Writing(q, todo)
<1>1. /\ todo # <<>> => o.pc = "put"
      /\ todo = <<>> /\ q.kind = "reconcile" => o.pc = "sweep"
      /\ todo = <<>> /\ q.kind # "reconcile" => o.pc = "done"
      /\ o.todo = todo /\ o.kind = q.kind /\ o.device = q.device
      /\ o.pc = "done" => o.sees = {}
      BY WritingIs
<1> HIDE DEF o
<1>2. ASSUME todo # <<>> PROVE Staged(o)
      BY <1>1, <1>2 DEF Staged, Assigning
<1>3. ASSUME todo = <<>>, q.kind = "reconcile" PROVE Staged(o)
      BY <1>1, <1>3 DEF Staged, Assigning
<1>4. ASSUME todo = <<>>, q.kind # "reconcile" PROVE Staged(o)
      BY <1>1, <1>4 DEF Staged, Assigning
<1> QED BY <1>2, <1>3, <1>4 DEF o

\* A step of n that goes on to its writes, from q.
LEMMA WritingMoves ==
  ASSUME IInv, NEW n \in Ops, n \in Busy, NEW q \in Request, q.pc # "idle",
         NEW todo \in Seq(Upsert), q.kind = "config" => q.device \in Device,
         op' = [op EXCEPT ![n] = Writing(q, todo)], met' = met, faults' \in Nat,
         fleet' = fleet, rows' = rows, active' = active, attrs' \in [Device -> Attributes],
         SavesKept', ReconcilesAlone'
  PROVE  IInv'
<1> DEFINE o == Writing(q, todo)
<1>1. o \in Request /\ o.pc \in {"put", "sweep", "done"} /\ Staged(o)
      BY WritingIs, WritingStaged
<1>2. o.pc # "idle" /\ o.pc \notin Assigning /\ MissesLate(o, n)
      BY <1>1 DEF Assigning, MissesLate
<1> HIDE DEF o
<1>3. op' = [op EXCEPT ![n] = o]
      BY DEF o
<1> QED BY <1>1, <1>2, <1>3, Moves

\* What goes on to write no settings keeps the settings that are there.
LEMMA WritingKeeps ==
  ASSUME NEW q \in Request, q.pc # "idle", NEW todo \in Seq(Upsert), NEW n, NEW d,
         \A i \in DOMAIN todo : todo[i].device = d /\ todo[i].key = "config" => n \in todo[i].value
  PROVE  Keeps(Writing(q, todo), n, d)
<1>1. Writing(q, todo).pc # "write" /\ Writing(q, todo).todo = todo
      BY WritingIs
<1> QED BY <1>1 DEF Keeps

LEMMA PutFailsInv ==
  ASSUME IInv, NEW n \in Ops, PutFails(n)
  PROVE  IInv'
<1> DEFINE q == [op[n] EXCEPT !.copy = Blank, !.ok = FALSE]
           todo == NextBlock(op[n].todo)
           o == Writing(q, todo)
<1>1. /\ op[n].pc \in {"put", "write"} /\ op' = [op EXCEPT ![n] = o] /\ met' = met /\ faults' = faults + 1
      /\ fleet' = fleet /\ rows' = rows /\ active' = active /\ attrs' = attrs
      BY DEF PutFails, Faulty
<1>2. /\ op[n] \in Request /\ Staged(op[n]) /\ n \in Busy /\ faults' \in Nat
      /\ attrs' \in [Device -> Attributes]
      BY <1>1, Types DEF Busy
<1>3. /\ q \in Request /\ ~q.ok /\ q.pc = op[n].pc /\ q.kind = op[n].kind /\ q.device = op[n].device
      /\ q.pc # "idle"
      BY <1>1, <1>2 DEF Request, Blank, Attributes
<1>4. q.kind = "config" => q.device \in Device
      BY <1>1, <1>2, <1>3 DEF Staged
<1>5. op[n].todo # <<>> /\ op[n].todo \in Seq(Upsert)
      BY <1>1, <1>2 DEF Staged, Request
<1>6. todo \in Seq(Upsert) /\ \A i \in DOMAIN todo : \E j \in DOMAIN op[n].todo : todo[i] = op[n].todo[j]
      BY <1>5, NextBlockIs
<1> HIDE DEF q, todo
<1>7. o \in Request /\ ~o.ok /\ o.pc # "idle"
      BY <1>3, <1>6, WritingIs
<1>8. ASSUME NEW m \in Ops \ {n}, op[m].kind = "config", op[m].ok, met[m] = {}, op[m].pc = "done"
      PROVE  m \in attrs'[op[m].device].config /\ Keeps(o, m, op[m].device)
  <2>1. m \in attrs[op[m].device].config /\ Keeps(op[n], m, op[m].device)
        BY <1>8 DEF IInv, SavesKept
  <2>2. \A i \in DOMAIN todo :
          todo[i].device = op[m].device /\ todo[i].key = "config" => m \in todo[i].value
        BY <1>6, <2>1 DEF Keeps
  <2>3. Keeps(o, m, op[m].device)
        BY <1>3, <1>6, <2>2, WritingKeeps
  <2> QED BY <1>1, <2>1, <2>3
<1>9. SavesKept'
      BY <1>1, <1>2, <1>7, <1>8, SavesMove
<1>10. ReconcilesAlone'
      BY <1>1, <1>2, <1>7, ReconcilesMove
<1> QED BY <1>1, <1>2, <1>3, <1>4, <1>6, <1>9, <1>10, WritingMoves

LEMMA MergeInv ==
  ASSUME IInv, NEW n \in Ops, Merge(n)
  PROVE  IInv'
<1> DEFINE q == op[n]
           d == q.device
           put == Put(d, "config", attrs[d].config \cup {n}, 1)
           todo == <<put>>
           o == Writing(q, todo)
<1>1. /\ op[n].pc = "merge" /\ op' = [op EXCEPT ![n] = o] /\ met' = met /\ faults' = faults
      /\ fleet' = fleet /\ rows' = rows /\ active' = active /\ attrs' = attrs
      BY DEF Merge, Goes
<1>2. /\ q \in Request /\ n \in Busy /\ faults' \in Nat /\ q.pc # "idle" /\ q.kind = "config"
      /\ d \in Device /\ attrs' \in [Device -> Attributes]
      BY <1>1, Types DEF Busy, Staged
<1>3. put \in Upsert /\ todo \in Seq(Upsert) /\ todo # <<>>
  <2>1. attrs[d].config \cup {n} \in SUBSET Ops
        BY <1>2, Types DEF Attributes
  <2> QED BY <1>2, <2>1 DEF Put, Upsert
<1>4. /\ DOMAIN todo = 1..1 /\ Len(todo) = 1 /\ todo[1].device = d /\ todo[1].key = "config"
      /\ todo[1].value = attrs[d].config \cup {n}
      BY PutIs
<1> HIDE DEF q, d, put, todo
<1>5. o \in Request /\ o.pc = "put" /\ o.todo = todo /\ o.kind = "config" /\ o.device = d
      BY <1>2, <1>3, WritingIs DEF d
<1>6. ASSUME NEW m \in Ops \ {n}, op[m].kind = "config", op[m].ok, met[m] = {}, op[m].pc = "done"
      PROVE  m \in attrs'[op[m].device].config /\ Keeps(o, m, op[m].device)
  <2>1. m \in attrs[op[m].device].config
        BY <1>6 DEF IInv, SavesKept
  <2>2. \A i \in DOMAIN todo : todo[i].device = op[m].device => m \in todo[i].value
        BY <1>4, <2>1
  <2>3. Keeps(o, m, op[m].device)
        BY <1>2, <1>3, <2>2, WritingKeeps
  <2> QED BY <1>1, <2>1, <2>3
<1>7. WritesItself(o, n)
      BY <1>4, <1>5 DEF WritesItself
<1> HIDE DEF o
<1>8. SavesKept'
      BY <1>1, <1>2, <1>5, <1>6, <1>7, SavesMove
<1>9. ReconcilesAlone'
      BY <1>1, <1>2, <1>5, ReconcilesMove
<1>10. op' = [op EXCEPT ![n] = Writing(q, todo)]
      BY <1>1 DEF o
<1> QED BY <1>1, <1>2, <1>3, <1>8, <1>9, <1>10, WritingMoves DEF d

\* The request asks for what it may: its statement waits, and it is aborted.
LEMMA DeadlockInv ==
  ASSUME IInv, NEW n \in Ops, Deadlock(n)
  PROVE  IInv'
<1>1. /\ op' = [op EXCEPT ![n] = Failed(op[n])] /\ met' = met /\ faults' = faults
      /\ fleet' = fleet /\ rows' = rows /\ active' = active /\ attrs' = attrs
      BY DEF Deadlock, Goes
<1>2. PICK m \in Ops : op[n].sees \cap op[m].locks # {}
      BY DEF Deadlock, Blocked, WaitsFor
<1>3. op[n].sees # {} /\ Staged(op[n])
      BY <1>2, Types
<1>4. n \in Busy
      BY <1>3, IdleIs DEF Staged, Busy
<1> QED BY <1>1, <1>4, FailsInv

\* The row that is inserted is the first of its request, and late for the others in
\* progress; the active rows it clashes with are late for it.
LEMMA InsertInv ==
  ASSUME IInv, NEW n \in Ops, Insert(n)
  PROVE  IInv'
<1> DEFINE b == op[n]
           q == [b EXCEPT !.locks = {}]
           todo == Labels(b.vehicle, b.device, 1) \o Regroup(b.device, 1) \o EventLabels(b)
           o == Writing(q, todo)
           r == [vehicle |-> b.vehicle, device |-> b.device, by |-> n]
<1>1. /\ b.pc = "insert" /\ b \in Request /\ n \in Busy /\ n # 0 /\ n \in Nat /\ b.kind = "assign"
      /\ b.vehicle \in Vehicle /\ b.device \in Device /\ faults \in Nat /\ n \in 0..MaxOps
      BY Types, Bounds DEF Insert, Busy, Staged, Assigning
<1>2. CASE b.vehicle \notin fleet
      BY <1>1, <1>2, FailsInv DEF Insert, Goes
<1>3. CASE b.vehicle \in fleet
  <2>1. /\ op' = [op EXCEPT ![n] = o] /\ met' = met /\ faults' = faults /\ fleet' = fleet
        /\ rows' = rows \cup {r} /\ active' = (active \ b.locks) \cup {r} /\ attrs' = attrs
        BY <1>3 DEF Insert, Goes
  <2>2. /\ q \in Request /\ q.pc = "insert" /\ q.kind = "assign"
        /\ r \in Row /\ r.by = n /\ r.vehicle = b.vehicle /\ r.device = b.device
        BY <1>1 DEF Request, Row
  <2>3. todo \in Seq(Upsert) /\ \A e : Untouched(todo, e, "config")
        BY <1>1, AssignmentWrites
  <2> HIDE DEF q, todo, r
  <2>4. /\ o \in Request /\ o.pc \in {"put", "sweep", "done"} /\ o.kind = "assign" /\ Staged(o)
        BY <2>2, <2>3, WritingIs, WritingStaged
  <2>5. \A m, d : Keeps(o, m, d)
        BY <2>2, <2>3, WritingKeeps DEF Untouched
  <2> HIDE DEF o
  <2>6. op'[n] = o /\ op' \in [Ops -> Request] /\ \A k \in Ops \ {n} : op'[k] = op[k]
        BY <2>1, <2>4, Types
  <2>7. TypeOK'
        BY <2>1, <2>2, <2>6, Types DEF TypeOK
  <2>8. Stages'
    <3>1. \A k \in Ops : Staged(op'[k])
          BY <2>4, <2>6, Types
    <3> QED BY <3>1 DEF Stages, Staged
  <2>9. Meetings'
        BY <1>1, <2>1, <2>4, MeetingsMove
  <2>10. \A s \in rows : s.by # n
        BY <1>1 DEF IInv, RowsOnce, Assigning
  <2>11. RowsOnce'
    <3>1. IsFiniteSet(active')
          BY <2>1, FS_Subset, FS_AddElement DEF IInv, RowsOnce
    <3>2. \A s \in rows' : s.vehicle \in fleet'
          BY <1>3, <2>1, <2>2 DEF IInv, RowsOnce
    <3>3. \A s \in rows' : s.by # 0 => op'[s.by].pc \notin Assigning \cup {"idle"}
      <4>1. \A s \in rows : s.by # 0 => s.by \in Ops
            BY Types, Bounds DEF Row
      <4> QED BY <2>1, <2>2, <2>4, <2>6, <4>1 DEF IInv, RowsOnce, Assigning
    <3>4. \A s, t \in rows' : s.by = t.by /\ s.by # 0 => s = t
          BY <2>1, <2>2, <2>10 DEF IInv, RowsOnce
    <3> QED BY <3>1, <3>2, <3>3, <3>4 DEF RowsOnce
  <2>12. \A k \in Busy \ {n} : Late(r, k)
        BY <1>1, <2>2, <1>1 DEF IInv, Meetings, Late, Overlapped, Busy
  <2>13. OnlyLateMissed'
    <3>1. ASSUME NEW k \in Ops, k # n,
                 op[k].pc \in {"deactivateVehicle", "freeDevice", "deactivateDevice", "insert"}
          PROVE  MissesLate(op[k], k)'
      <4>1. Late(r, k) /\ MissesLate(op[k], k)
            BY <2>12, <3>1 DEF Busy, IInv, OnlyLateMissed
      <4>2. /\ \A v : \A s \in Held(v)' : s \in Held(v) \/ s = r
            /\ \A d : \A s \in In(d)' : s \in In(d) \/ s = r
            BY <2>1 DEF Held, In
      <4>3. \A s : Late(s, k)' <=> Late(s, k)
            BY <2>1 DEF Late, Overlapped
      <4>4. op'[k] = op[k]
            BY <2>6, <3>1
      <4> QED BY <4>1, <4>2, <4>3, <4>4 DEF MissesLate
    <3>2. ASSUME NEW k \in Ops,
                 op'[k].pc \notin {"deactivateVehicle", "freeDevice", "deactivateDevice", "insert"}
          PROVE  MissesLate(op[k], k)'
          BY <3>2 DEF MissesLate
    <3>3. ASSUME NEW k \in Ops PROVE MissesLate(op[k], k)'
          BY <2>4, <2>6, <3>1, <3>2
    <3> QED BY <3>3 DEF OnlyLateMissed
  <2>14. OneActiveUnlessOverlapped'
    <3>1. ASSUME NEW s \in active \ b.locks, s.vehicle = r.vehicle \/ s.device = r.device
          PROVE  Late(s, n)
      <4>1. s \in Held(b.vehicle) \/ s \in In(b.device)
            BY <2>2, <3>1 DEF Held, In
      <4> QED BY <1>1, <3>1, <4>1 DEF IInv, OnlyLateMissed, MissesLate
    <3>2. ASSUME NEW s \in active \cup {r}, NEW t \in active \cup {r},
                 s = r \/ s \notin b.locks, t = r \/ t \notin b.locks, s # t,
                 s.vehicle = t.vehicle \/ s.device = t.device
          PROVE  s.by # 0 /\ t.by # 0 /\ Overlapped(s.by, t.by)
      <4>1. CASE s = r
            BY <1>1, <2>2, <3>1, <3>2, <4>1 DEF Late, Overlapped
      <4>2. CASE t = r
            BY <1>1, <2>2, <3>1, <3>2, <4>2 DEF Late, Overlapped
      <4>3. CASE s # r /\ t # r
            BY <3>2, <4>3 DEF IInv, OneActiveUnlessOverlapped
      <4> QED BY <4>1, <4>2, <4>3
    <3>3. \A s \in rows' : s.vehicle \in fleet'
          BY <2>11 DEF RowsOnce
    <3>4. \A s, t \in active' :
            s # t /\ (s.vehicle = t.vehicle \/ s.device = t.device) =>
              s.by # 0 /\ t.by # 0 /\ Overlapped(s.by, t.by)
          BY <2>1, <3>2
    <3> QED BY <2>1, <3>3, <3>4 DEF OneActiveUnlessOverlapped, Overlapped
  <2>15. SavesKept'
        BY <1>1, <2>1, <2>4, <2>5, SavesMove DEF IInv, SavesKept
  <2>16. ReconcilesAlone'
        BY <1>1, <2>1, <2>4, ReconcilesMove
  <2> QED BY <2>7, <2>8, <2>9, <2>11, <2>13, <2>14, <2>15, <2>16 DEF IInv
<1> QED BY <1>2, <1>3

\* The vehicle and the rows that go with it: the others have theirs.
LEMMA DestroyVehicleInv ==
  ASSUME IInv, NEW n \in Ops, DestroyVehicle(n)
  PROVE  IInv'
<1> DEFINE b == op[n]
           q == [b EXCEPT !.locks = {}]
           todo == Unlabel(b.previous, 1)
           o == Writing(q, todo)
<1>1. b.pc = "destroyVehicle" /\ b \in Request /\ n \in Busy /\ b.kind = "delete" /\ faults \in Nat
      BY Types DEF DestroyVehicle, Busy, Staged
<1>2. CASE \E r \in rows \ b.locks : r.vehicle = b.vehicle
      BY <1>1, <1>2, FailsInv DEF DestroyVehicle, Goes
<1>3. CASE ~ \E r \in rows \ b.locks : r.vehicle = b.vehicle
  <2>1. /\ op' = [op EXCEPT ![n] = o] /\ met' = met /\ faults' = faults /\ attrs' = attrs
        /\ fleet' = fleet \ {b.vehicle} /\ rows' = rows \ b.locks /\ active' = active \ b.locks
        BY <1>3 DEF DestroyVehicle, Goes
  <2>2. q \in Request /\ q.pc = "destroyVehicle" /\ q.kind = "delete"
        BY <1>1 DEF Request
  <2>3. todo \in Seq(Upsert) /\ \A e : Untouched(todo, e, "config")
    <3>1. CASE b.previous = Absent
          BY <3>1, EmptySeq DEF Unlabel, Untouched
    <3>2. CASE b.previous # Absent
          BY <1>1, <3>2, LabelsAre DEF Request
    <3> QED BY <3>1, <3>2
  <2> HIDE DEF q, todo
  <2>4. /\ o \in Request /\ o.pc \in {"put", "sweep", "done"} /\ o.kind = "delete" /\ Staged(o)
        BY <2>2, <2>3, WritingIs, WritingStaged
  <2>5. \A m, d : Keeps(o, m, d)
        BY <2>2, <2>3, WritingKeeps DEF Untouched
  <2> HIDE DEF o
  <2>6. op'[n] = o /\ op' \in [Ops -> Request] /\ \A k \in Ops \ {n} : op'[k] = op[k]
        BY <2>1, <2>4, Types
  <2>7. TypeOK'
        BY <2>1, <2>6, Types DEF TypeOK
  <2>8. Stages'
    <3>1. \A k \in Ops : Staged(op'[k])
          BY <2>4, <2>6, Types
    <3> QED BY <3>1 DEF Stages, Staged
  <2>9. Meetings'
        BY <1>1, <2>1, <2>4, MeetingsMove
  <2>10. RowsOnce'
    <3>1. IsFiniteSet(active')
          BY <2>1, FS_Subset DEF IInv, RowsOnce
    <3>2. \A s \in rows' : s.vehicle \in fleet'
          BY <1>3, <2>1 DEF IInv, RowsOnce
    <3>3. \A s \in rows' : s.by # 0 => op'[s.by].pc \notin Assigning \cup {"idle"}
      <4>1. \A s \in rows : s.by # 0 => s.by \in Ops
            BY Types, Bounds DEF Row
      <4> QED BY <2>1, <2>4, <2>6, <4>1 DEF IInv, RowsOnce, Assigning
    <3>4. \A s, t \in rows' : s.by = t.by /\ s.by # 0 => s = t
          BY <2>1 DEF IInv, RowsOnce
    <3> QED BY <3>1, <3>2, <3>3, <3>4 DEF RowsOnce
  <2>11. OnlyLateMissed'
    <3>1. ASSUME NEW k \in Ops, k # n PROVE MissesLate(op[k], k)'
      <4>1. MissesLate(op[k], k) /\ op'[k] = op[k]
            BY <2>6, <3>1 DEF IInv, OnlyLateMissed
      <4>2. (\A v : Held(v)' \subseteq Held(v)) /\ (\A d : In(d)' \subseteq In(d))
            BY <2>1 DEF Held, In
      <4>3. \A s : Late(s, k)' <=> Late(s, k)
            BY <2>1 DEF Late, Overlapped
      <4> QED BY <4>1, <4>2, <4>3 DEF MissesLate
    <3>2. MissesLate(op[n], n)'
          BY <2>4, <2>6 DEF MissesLate
    <3> QED BY <3>1, <3>2 DEF OnlyLateMissed
  <2>12. OneActiveUnlessOverlapped'
    <3>1. \A s \in rows' : s.vehicle \in fleet'
          BY <2>10 DEF RowsOnce
    <3> QED BY <2>1, <3>1 DEF IInv, OneActiveUnlessOverlapped, Overlapped
  <2>13. SavesKept'
        BY <1>1, <2>1, <2>4, <2>5, SavesMove DEF IInv, SavesKept
  <2>14. ReconcilesAlone'
        BY <1>1, <2>1, <2>4, ReconcilesMove
  <2> QED BY <2>7, <2>8, <2>9, <2>10, <2>11, <2>12, <2>13, <2>14 DEF IInv
<1> QED BY <1>2, <1>3

-----------------------------------------------------------------------------
(* The reconciliation.                                                     *)

\* The expected vehicle of a device is that of its last row.
LEMMA ExpectedIs ==
  ASSUME NEW o \in Request, NEW d
  PROVE  \/ Expected(o, d) = Absent /\ \A i \in DOMAIN o.found : o.found[i].device # d
         \/ \E k \in DOMAIN o.found :
              /\ o.found[k].device = d /\ Expected(o, d) = o.found[k].vehicle
              /\ \A i \in DOMAIN o.found : i > k => o.found[i].device # d
<1> DEFINE own == {i \in DOMAIN o.found : o.found[i].device = d}
<1>1. o.found \in Seq(Row) /\ DOMAIN o.found = 1..Len(o.found) /\ Len(o.found) \in Nat
      BY LenProperties DEF Request
<1>2. own \in SUBSET (1..Len(o.found))
      BY <1>1
<1>3. CASE own = {}
      BY <1>3 DEF Expected
<1>4. CASE own # {}
  <2>1. Max(own) \in own /\ \A k \in own : k <= Max(own)
        BY <1>1, <1>2, <1>4, MaxIs
  <2>2. Expected(o, d) = o.found[Max(own)].vehicle
        BY <1>4 DEF Expected
  <2> DEFINE top == Max(own)
  <2>3. top \in own /\ (\A k \in own : k <= top) /\ Expected(o, d) = o.found[top].vehicle
        BY <2>1, <2>2
  <2> HIDE DEF top
  <2>4. \A i \in DOMAIN o.found : i > top => i \notin own
        BY <1>1, <1>2, <2>3
  <2> QED BY <2>3, <2>4
<1> QED BY <1>3, <1>4

\* What the reconciliation writes first: the labels of every row, in their order.
LEMMA SyncAllInv ==
  ASSUME IInv, NEW n \in Ops, SyncAll(n)
  PROVE  IInv'
<1> DEFINE b == op[n]
           RowLabels(i) == IF b.found[i].vehicle \notin fleet THEN <<>>
                           ELSE Labels(b.found[i].vehicle, b.found[i].device, i)
           lists == [i \in DOMAIN b.found |-> RowLabels(i)]
           todo == FlattenSeq(lists)
           o == Writing(b, todo)
<1>1. /\ op[n].pc = "vehicles" /\ op' = [op EXCEPT ![n] = o] /\ met' = met /\ faults' = faults
      /\ fleet' = fleet /\ rows' = rows /\ active' = active /\ attrs' = attrs
      BY DEF SyncAll, Goes
<1>2. /\ b \in Request /\ b.kind = "reconcile" /\ b.pc # "idle" /\ n \in Busy /\ faults \in Nat
      /\ attrs' \in [Device -> Attributes] /\ fleet \subseteq Vehicle
      BY <1>1, Types DEF Busy, Staged
<1>3. /\ b.found \in Seq(Row) /\ DOMAIN b.found = 1..Len(b.found) /\ Len(b.found) \in Nat
      /\ \A i \in DOMAIN b.found : /\ b.found[i] \in Row /\ b.found[i].vehicle \in Vehicle
                                   /\ b.found[i].device \in Device /\ i \in Nat
  <2>1. b.found \in Seq(Row)
        BY <1>2 DEF Request
  <2> DEFINE f == b.found
  <2> HIDE DEF f
  <2>2. f \in Seq(Row)
        BY <2>1 DEF f
  <2>3. /\ DOMAIN f = 1..Len(f) /\ Len(f) \in Nat /\ \A i \in 1..Len(f) : f[i] \in Row /\ i \in Nat
        BY <2>2, LenProperties
  <2>4. \A i \in DOMAIN f : f[i] \in Row /\ f[i].vehicle \in Vehicle /\ f[i].device \in Device /\ i \in Nat
        BY <2>3 DEF Row
  <2> QED BY <2>2, <2>3, <2>4 DEF f
<1>4. ASSUME NEW i \in DOMAIN b.found
      PROVE  /\ lists[i] \in Seq(Upsert) /\ \A e : Untouched(lists[i], e, "config")
             /\ \A e, key : e # b.found[i].device => Untouched(lists[i], e, key)
             /\ b.found[i].vehicle \in fleet =>
                  /\ Settles(lists[i], b.found[i].device, "id", b.found[i].vehicle)
                  /\ Settles(lists[i], b.found[i].device, "name", b.found[i].vehicle)
  <2>1. lists[i] = RowLabels(i)
        OBVIOUS
  <2>2. CASE b.found[i].vehicle \notin fleet
    <3>1. lists[i] = <<>>
          BY <2>1, <2>2
    <3>2. \A e, key : Untouched(<<>>, e, key)
          BY DEF Untouched
    <3> QED BY <2>2, <3>1, <3>2, EmptySeq
  <2>3. CASE b.found[i].vehicle \in fleet
    <3>1. lists[i] = Labels(b.found[i].vehicle, b.found[i].device, i)
          BY <2>1, <2>3
    <3> HIDE DEF lists
    <3> QED BY <1>3, <2>3, <3>1, LabelsAre
  <2> QED BY <2>2, <2>3
<1>5. lists \in Seq(Seq(Upsert)) /\ DOMAIN lists = DOMAIN b.found
  <2>1. DOMAIN lists = 1..Len(b.found) /\ lists = [i \in DOMAIN lists |-> lists[i]]
        BY <1>3
  <2>2. \A i \in 1..Len(b.found) : lists[i] \in Seq(Upsert)
        BY <1>3, <1>4
  <2> HIDE DEF lists
  <2>3. lists \in [1..Len(b.found) -> Seq(Upsert)]
        BY <2>1, <2>2
  <2> QED BY <1>3, <2>1, <2>3, TableIsSeq
<1> HIDE DEF lists
<1>6. todo \in Seq(Upsert) /\ \A e : Untouched(todo, e, "config")
      BY <1>4, <1>5, FlattenSettles
<1>7. ASSUME active = {b.found[i] : i \in DOMAIN b.found}, NEW r \in active
      PROVE  Labelled(todo, attrs, r.device, Expected(b, r.device))
  <2>1. PICK i \in DOMAIN b.found : r = b.found[i]
        BY <1>7
  <2>2. PICK k \in DOMAIN b.found :
          /\ b.found[k].device = r.device /\ Expected(b, r.device) = b.found[k].vehicle
          /\ \A j \in DOMAIN b.found : j > k => b.found[j].device # r.device
        BY <1>2, <2>1, ExpectedIs
  <2>3. b.found[k].vehicle \in fleet
    <3>1. b.found[k] \in rows
          BY <1>7, Types
    <3> QED BY <3>1 DEF IInv, RowsOnce
  <2>4. \A j \in DOMAIN lists : j > k =>
          Untouched(lists[j], r.device, "id") /\ Untouched(lists[j], r.device, "name")
        BY <1>4, <1>5, <2>2
  <2>5. Settles(lists[k], r.device, "id", b.found[k].vehicle)
        /\ Settles(lists[k], r.device, "name", b.found[k].vehicle)
        BY <1>4, <2>2, <2>3
  <2>6. Settles(todo, r.device, "id", b.found[k].vehicle)
        /\ Settles(todo, r.device, "name", b.found[k].vehicle)
        BY <1>5, <2>4, <2>5, FlattenSettles
  <2> QED BY <2>2, <2>6 DEF Labelled, WillBe
<1> HIDE DEF b, todo
<1>8. /\ o \in Request /\ o.pc \in {"put", "sweep"} /\ o.kind = "reconcile" /\ o.found = b.found
      /\ o.todo = todo /\ o.ok = b.ok
      BY <1>2, <1>6, WritingIs
<1>9. \A m, d : Keeps(o, m, d)
      BY <1>2, <1>6, WritingKeeps DEF Untouched
<1>10. \A d : Expected(o, d) = Expected(b, d)
      BY <1>8 DEF Expected
<1> HIDE DEF o
<1>11. SavesKept'
      BY <1>1, <1>2, <1>8, <1>9, SavesMove DEF IInv, SavesKept
<1>12. ReconcilesAlone'
  <2>1. ASSUME b.ok, met[n] = {}, \A k \in Ops : k > n => op[k].pc = "idle"
        PROVE  Reconciles(o, active', attrs')
    <3>1. Reconciles(b, active, attrs)
          BY <1>2, <2>1 DEF IInv, ReconcilesAlone, Alone, b
    <3>2. active = {b.found[i] : i \in DOMAIN b.found}
          BY <1>2, <3>1 DEF Reconciles
    <3> QED BY <1>1, <1>7, <1>8, <1>10, <3>2 DEF Reconciles
  <2> QED BY <1>1, <1>2, <1>8, <2>1, ReconcilesMove
<1>13. op' = [op EXCEPT ![n] = Writing(b, todo)] /\ faults' \in Nat /\ b.kind # "config"
      BY <1>1, <1>2 DEF o
<1> QED BY <1>1, <1>2, <1>6, <1>11, <1>12, <1>13, WritingMoves

\* The elements of a finite set, in an order.
LEMMA OrderedAre ==
  ASSUME NEW S, IsFiniteSet(S), NEW s \in SetToSeqs(S)
  PROVE  /\ s \in Seq(S) /\ DOMAIN s = 1..Len(s) /\ Len(s) \in Nat
         /\ S = {s[i] : i \in DOMAIN s}
         /\ \A i, j \in DOMAIN s : s[i] = s[j] => i = j
<1> DEFINE c == Cardinality(S)
<1>1. c \in Nat
      BY FS_CardinalityType
<1>2. s \in [1..c -> S] /\ \A i, j \in 1..c : i # j => s[i] # s[j]
      BY DEF SetToSeqs
<1>3. IsFiniteSet(1..c) /\ Cardinality(1..c) = c
      BY <1>1, FS_Interval
<1> HIDE DEF c
<1>4. s \in Injection(1..c, S)
      BY <1>2 DEF Injection, IsInjective
<1>5. s \in Surjection(1..c, S)
      BY <1>3, <1>4, FS_Injection DEF c
<1>6. \A e \in S : \E i \in 1..c : s[i] = e
      BY <1>5 DEF Surjection
<1>7. s \in Seq(S)
      BY <1>1, <1>2, TableIsSeq
<1>8. DOMAIN s = 1..c /\ DOMAIN s = 1..Len(s) /\ Len(s) \in Nat
      BY <1>2, <1>7, LenProperties
<1> QED BY <1>2, <1>6, <1>7, <1>8

\* What the sweep writes for a device is about that device, and no setting.
LEMMA ClearsAre ==
  ASSUME NEW o, NEW d \in Device
  PROVE  /\ Clears(o, d) \in Seq(Upsert)
         /\ \A e : Untouched(Clears(o, d), e, "config")
         /\ \A e, key : e # d => Untouched(Clears(o, d), e, key)
         /\ attrs[d].id = Expected(o, d) => Clears(o, d) = <<>>
         /\ Expected(o, d) = Absent => \/ attrs[d].id = Absent /\ Clears(o, d) = <<>>
                                       \/ Settles(Clears(o, d), d, "id", Absent)
<1> DEFINE one == <<Put(d, "id", Absent, 0)>>
<1>1. /\ one \in Seq(Upsert) /\ \A e : Untouched(one, e, "config")
      /\ \A e, key : e # d => Untouched(one, e, key)
  <2>1. Put(d, "id", Absent, 0) \in Upsert
        BY DEF Put, Upsert
  <2>2. one \in Seq(Upsert) /\ DOMAIN one = 1..1 /\ one[1] = Put(d, "id", Absent, 0)
        BY <2>1
  <2> HIDE DEF one
  <2> QED BY <2>2, PutIs DEF Untouched
<1>2. /\ Unlabel(d, 0) \in Seq(Upsert) /\ Settles(Unlabel(d, 0), d, "id", Absent)
      /\ \A e : Untouched(Unlabel(d, 0), e, "config")
      /\ \A e, key : e # d => Untouched(Unlabel(d, 0), e, key)
  <2>1. Absent \in Vehicle \cup {Absent} /\ 0 \in Nat
        OBVIOUS
  <2> QED BY <2>1, LabelsAre
<1>3. /\ <<>> \in Seq(Upsert) /\ \A e, key : Untouched(<<>>, e, key)
      BY EmptySeq DEF Untouched
<1>4. \/ Clears(o, d) = <<>> /\ attrs[d].id \in {Absent, Expected(o, d)}
      \/ Clears(o, d) = Unlabel(d, 0) /\ attrs[d].id \notin {Absent, Expected(o, d)}
      \/ Clears(o, d) = one /\ Expected(o, d) # Absent /\ attrs[d].id \notin {Absent, Expected(o, d)}
      BY DEF Clears
<1> HIDE DEF one
<1> QED BY <1>1, <1>2, <1>3, <1>4

\* When nothing is left to write, the attribute is what it will be.
LEMMA NothingLeft ==
  ASSUME NEW json, NEW d, NEW key, NEW w
  PROVE  WillBe(<<>>, json, d, key, w) => json[d][key] = w
BY DEF WillBe, Settles, Untouched

\* The sweep leaves the ids of assigned devices alone, as they are the expected ones,
\* and clears the others.
LEMMA SweepInv ==
  ASSUME IInv, NEW n \in Ops, Sweep(n)
  PROVE  IInv'
<1> DEFINE b == op[n]
           q == [b EXCEPT !.found = <<>>, !.kind = "swept"]
<1>1. PICK devices \in SetToSeqs(Device) :
        op' = [op EXCEPT ![n] =
                Writing(q, FlattenSeq([i \in DOMAIN devices |-> Clears(b, devices[i])]))]
      BY DEF Sweep, Goes
<1> DEFINE lists == [i \in DOMAIN devices |-> Clears(b, devices[i])]
           todo == FlattenSeq(lists)
           o == Writing(q, todo)
<1>2. /\ op[n].pc = "sweep" /\ op' = [op EXCEPT ![n] = o] /\ met' = met /\ faults' = faults
      /\ fleet' = fleet /\ rows' = rows /\ active' = active /\ attrs' = attrs
      BY <1>1 DEF Sweep, Goes
<1>3. /\ b \in Request /\ b.kind = "reconcile" /\ b.todo = <<>> /\ n \in Busy /\ faults \in Nat
      /\ attrs' \in [Device -> Attributes]
      BY <1>2, Types DEF Busy, Staged
<1>4. /\ q \in Request /\ q.pc = "sweep" /\ q.kind = "swept" /\ q.ok = b.ok
      BY <1>2, <1>3, EmptySeq DEF Request, Kind
<1>5. /\ DOMAIN devices = 1..Len(devices) /\ Len(devices) \in Nat
      /\ Device = {devices[i] : i \in DOMAIN devices}
      /\ \A i, j \in DOMAIN devices : devices[i] = devices[j] => i = j
      BY OrderedAre, ConstantsAssumption
<1>6. /\ lists \in Seq(Seq(Upsert)) /\ DOMAIN lists = DOMAIN devices
      /\ \A i \in DOMAIN devices : lists[i] = Clears(b, devices[i])
  <2>1. DOMAIN lists = 1..Len(devices) /\ lists = [i \in DOMAIN lists |-> lists[i]]
        BY <1>5
  <2>2. \A i \in 1..Len(devices) : lists[i] = Clears(b, devices[i]) /\ devices[i] \in Device
        BY <1>5
  <2> HIDE DEF lists
  <2>3. lists \in [1..Len(devices) -> Seq(Upsert)]
        BY <2>1, <2>2, ClearsAre
  <2> QED BY <1>5, <2>1, <2>2, <2>3, TableIsSeq
<1> HIDE DEF lists
<1>7. \A i \in DOMAIN devices : devices[i] \in Device
      BY <1>5
<1>8. todo \in Seq(Upsert) /\ \A e : Untouched(todo, e, "config")
      BY <1>6, <1>7, ClearsAre, FlattenSettles
\* A device that needs nothing is not written, and one that is cleared is cleared.
<1>9. ASSUME NEW d \in Device, Clears(b, d) = <<>>
      PROVE  \A key : Untouched(todo, d, key)
  <2>1. \A key : \A i \in DOMAIN lists : Untouched(lists[i], d, key)
    <3> TAKE key
    <3> TAKE i \in DOMAIN lists
    <3>1. CASE devices[i] = d
          BY <1>6, <1>9, <3>1 DEF Untouched
    <3>2. CASE devices[i] # d
          BY <1>6, <1>7, <3>2, ClearsAre
    <3> QED BY <3>1, <3>2
  <2> QED BY <1>6, <2>1, FlattenSettles
<1>10. ASSUME NEW d \in Device, Settles(Clears(b, d), d, "id", Absent)
       PROVE  Settles(todo, d, "id", Absent)
  <2>1. PICK k \in DOMAIN lists : devices[k] = d
        BY <1>5, <1>6
  <2>2. \A i \in DOMAIN lists : i > k => Untouched(lists[i], d, "id")
    <3>1. \A i \in DOMAIN lists : i > k => devices[i] # d
          BY <1>5, <1>6, <2>1
    <3> QED BY <1>6, <1>7, <3>1, ClearsAre
  <2>3. Settles(lists[k], d, "id", Absent)
        BY <1>6, <1>10, <2>1
  <2> QED BY <1>6, <2>2, <2>3, FlattenSettles
<1> HIDE DEF b, q, todo
<1>11. /\ o \in Request /\ o.pc \in {"put", "sweep", "done"} /\ o.kind = "swept" /\ o.todo = todo
       /\ o.ok = b.ok
       BY <1>4, <1>8, WritingIs
<1>12. \A m, d : Keeps(o, m, d)
       BY <1>4, <1>8, WritingKeeps DEF Untouched
<1> HIDE DEF o
<1>13. SavesKept'
       BY <1>2, <1>3, <1>11, <1>12, SavesMove DEF IInv, SavesKept
<1>14. ASSUME Reconciles(b, active, attrs) PROVE Reconciles(o, active, attrs)
  <2>1. /\ active = {b.found[i] : i \in DOMAIN b.found}
        /\ \A r \in active : /\ attrs[r.device].id = Expected(b, r.device)
                             /\ attrs[r.device].name = Expected(b, r.device)
    <3>1. /\ active = {b.found[i] : i \in DOMAIN b.found}
          /\ \A r \in active : Labelled(<<>>, attrs, r.device, Expected(b, r.device))
          BY <1>2, <1>3, <1>14 DEF Reconciles, b
    <3> QED BY <3>1, NothingLeft DEF Labelled
  <2>2. ASSUME NEW d \in Device, NEW k \in DOMAIN b.found, b.found[k].device = d,
               Expected(b, d) = b.found[k].vehicle
        PROVE  \E r \in active : r.device = d /\ Labelled(todo, attrs, d, r.vehicle)
    <3>1. b.found[k] \in active
          BY <2>1
    <3>2. attrs[d].id = Expected(b, d) /\ attrs[d].name = Expected(b, d)
          BY <2>1, <2>2, <3>1
    <3>3. Untouched(todo, d, "id") /\ Untouched(todo, d, "name")
          BY <1>9, <3>2, ClearsAre
    <3>4. Labelled(todo, attrs, d, b.found[k].vehicle)
          BY <2>2, <3>2, <3>3 DEF Labelled, WillBe
    <3> QED BY <2>2, <3>1, <3>4
  <2>3. ASSUME NEW d \in Device, Expected(b, d) = Absent, \A i \in DOMAIN b.found : b.found[i].device # d
        PROVE  (\A r \in active : r.device # d) /\ WillBe(todo, attrs, d, "id", Absent)
    <3>1. CASE attrs[d].id = Absent /\ Clears(b, d) = <<>>
          BY <1>9, <2>1, <2>3, <3>1 DEF WillBe
    <3>2. CASE Settles(Clears(b, d), d, "id", Absent)
          BY <1>10, <2>1, <2>3, <3>2 DEF WillBe
    <3> QED BY <2>3, <3>1, <3>2, ClearsAre
  <2>4. ASSUME NEW d \in Device
        PROVE  \/ (\A r \in active : r.device # d) /\ WillBe(todo, attrs, d, "id", Absent)
               \/ \E r \in active : r.device = d /\ Labelled(todo, attrs, d, r.vehicle)
        BY <1>3, <2>2, <2>3, ExpectedIs
  <2> QED BY <1>11, <2>4 DEF Reconciles
<1>15. ReconcilesAlone'
  <2>1. ASSUME b.ok, met[n] = {}, \A k \in Ops : k > n => op[k].pc = "idle"
        PROVE  Reconciles(o, active', attrs')
    <3>1. Reconciles(b, active, attrs)
          BY <1>3, <2>1 DEF IInv, ReconcilesAlone, Alone, b
    <3> QED BY <1>2, <1>14, <3>1
  <2> QED BY <1>2, <1>3, <1>11, <2>1, ReconcilesMove
<1>16. op' = [op EXCEPT ![n] = Writing(q, todo)] /\ faults' \in Nat /\ q.kind # "config"
       BY <1>2, <1>3, <1>4 DEF o
<1> QED BY <1>2, <1>3, <1>4, <1>8, <1>13, <1>15, <1>16, WritingMoves

-----------------------------------------------------------------------------
(* The writes.                                                             *)

\* A request goes on to the tail of its writes: what kept a save keeps it.
LEMMA TailKeeps ==
  ASSUME NEW b \in Request, b.todo # <<>>, NEW q \in Request, q.pc # "idle",
         NEW m, NEW d, Keeps(b, m, d)
  PROVE  Keeps(Writing(q, Tail(b.todo)), m, d)
<1> DEFINE s == b.todo
           t == Tail(s)
<1>1. s \in Seq(Upsert)
      BY DEF Request
<1>2. \A i \in DOMAIN s : s[i].device = d /\ s[i].key = "config" => m \in s[i].value
      BY DEF Keeps
<1> HIDE DEF s
<1>3. t \in Seq(Upsert) /\ \A i \in DOMAIN t : i + 1 \in DOMAIN s /\ t[i] = s[i + 1]
      BY <1>1, TailIs DEF s
<1> HIDE DEF t
<1>4. \A i \in DOMAIN t : t[i].device = d /\ t[i].key = "config" => m \in t[i].value
      BY <1>2, <1>3
<1>5. Keeps(Writing(q, t), m, d)
      BY <1>3, <1>4, WritingKeeps
<1> QED BY <1>5 DEF t, s

\* The SELECT: the copy is what the attributes are.
LEMMA ReadInv ==
  ASSUME IInv, NEW n \in Ops, Read(n)
  PROVE  IInv'
<1> DEFINE b == op[n]
           put == Head(b.todo)
<1>1. /\ b.pc = "put" /\ b \in Request /\ Staged(b) /\ n \in Busy /\ faults \in Nat
      /\ b.todo # <<>> /\ b.todo \in Seq(Upsert)
      /\ attrs \in [Device -> Attributes]
      BY Types DEF Read, Busy, Staged, Request
<1>2. put \in Upsert /\ put = b.todo[1] /\ 1 \in DOMAIN b.todo /\ put.device \in Device
      BY <1>1, TailIs DEF Upsert
<1>3. /\ met' = met /\ faults' = faults /\ fleet' = fleet /\ rows' = rows /\ active' = active
      /\ attrs' = attrs
      BY DEF Read, Goes
<1>4. CASE op' = [op EXCEPT ![n] = [b EXCEPT !.pc = "write", !.copy = attrs[put.device]]]
  <2> DEFINE o == [b EXCEPT !.pc = "write", !.copy = attrs[put.device]]
  <2>1. attrs[put.device] \in Attributes
        BY <1>1, <1>2
  <2>2. /\ o \in Request /\ o.pc = "write" /\ o.copy = attrs[put.device] /\ o.kind = b.kind
        /\ o.todo = b.todo /\ o.found = b.found /\ o.device = b.device /\ o.ok = b.ok
        BY <1>1, <2>1 DEF Request, Stage
  <2> HIDE DEF o
  <2>3. Staged(o) /\ o.pc \notin Assigning /\ MissesLate(o, n)
        BY <1>1, <2>2 DEF Staged, Assigning, MissesLate
  <2>4. op' = [op EXCEPT ![n] = o]
        BY <1>4 DEF o
  <2>5. ASSUME NEW m \in Ops \ {n}, op[m].kind = "config", op[m].ok, met[m] = {}, op[m].pc = "done"
        PROVE  m \in attrs'[op[m].device].config /\ Keeps(o, m, op[m].device)
    <3>1. m \in attrs[op[m].device].config /\ Keeps(b, m, op[m].device)
          BY <2>5 DEF IInv, SavesKept
    <3> QED BY <1>3, <2>2, <3>1 DEF Keeps
  <2>6. ASSUME o.kind = "config", o.ok, met[n] = {}
        PROVE  WritesItself(o, n)
    <3>1. WritesItself(b, n)
          BY <2>2, <2>6 DEF IInv, SavesKept
    <3> QED BY <1>1, <2>2, <3>1 DEF WritesItself
  <2>7. SavesKept'
        BY <1>1, <2>2, <1>3, <2>4, <2>5, <2>6, SavesMove
  <2>8. ASSUME Reconciles(b, active, attrs) PROVE Reconciles(o, active, attrs)
    <3>1. \A d : Expected(o, d) = Expected(b, d)
          BY <2>2 DEF Expected
    <3> QED BY <1>1, <2>2, <2>8, <3>1 DEF Reconciles
  <2>9. ReconcilesAlone'
    <3>1. ASSUME o.kind \in {"reconcile", "swept"}, o.ok, met[n] = {},
                 \A k \in Ops : k > n => op[k].pc = "idle"
          PROVE  Reconciles(o, active', attrs')
      <4>1. Reconciles(b, active, attrs)
            BY <2>2, <3>1 DEF IInv, ReconcilesAlone, Alone
      <4> QED BY <1>3, <2>8, <4>1
    <3> QED BY <1>1, <1>3, <2>2, <2>4, <3>1, ReconcilesMove
  <2> QED BY <1>1, <1>3, <2>2, <2>3, <2>4, <2>7, <2>9, Moves
<1>5. CASE put.key = "group" /\ op' = [op EXCEPT ![n] = Writing(b, Tail(b.todo))]
  <2> DEFINE todo == Tail(b.todo)
             o == Writing(b, todo)
  <2>1. todo \in Seq(Upsert)
        BY <1>1, TailIs
  <2> HIDE DEF todo
  <2>2. /\ o \in Request /\ o.pc \in {"put", "sweep", "done"} /\ o.todo = todo /\ o.kind = b.kind
        /\ o.ok = b.ok /\ (o.pc \in {"put", "sweep"} => o.found = b.found)
        /\ o.pc = "done" => b.kind # "reconcile"
        BY <1>1, <2>1, WritingIs
  <2> HIDE DEF o
  <2>3. op' = [op EXCEPT ![n] = o]
        BY <1>5 DEF o, todo
  <2>4. ASSUME NEW m \in Ops \ {n}, op[m].kind = "config", op[m].ok, met[m] = {}, op[m].pc = "done"
        PROVE  m \in attrs'[op[m].device].config /\ Keeps(o, m, op[m].device)
    <3>1. m \in attrs[op[m].device].config /\ Keeps(b, m, op[m].device)
          BY <2>4 DEF IInv, SavesKept
    <3>2. Keeps(o, m, op[m].device)
          BY <1>1, <3>1, TailKeeps DEF o, todo
    <3> QED BY <1>3, <3>1, <3>2
  <2>5. ~(o.kind = "config" /\ o.ok /\ met[n] = {})
        BY <1>1, <1>2, <1>5, <2>2 DEF IInv, SavesKept, WritesItself
  <2>6. SavesKept'
        BY <1>1, <1>3, <2>2, <2>3, <2>4, <2>5, SavesMove
  <2>7. ASSUME Reconciles(b, active, attrs) PROVE Reconciles(o, active, attrs)
    <3>1. \A d, key, w : key # "group" /\ WillBe(b.todo, attrs, d, key, w)
                           => WillBe(todo, attrs, d, key, w)
          BY <1>1, <1>5, SettlesTail DEF WillBe, todo
    <3>2. \A d, w : Labelled(b.todo, attrs, d, w) => Labelled(todo, attrs, d, w)
          BY <3>1 DEF Labelled
    <3>3. o.kind = "reconcile" => \A d : Expected(o, d) = Expected(b, d)
          BY <2>2 DEF Expected
    <3>4. o.kind = "reconcile" =>
            /\ active = {o.found[i] : i \in DOMAIN o.found}
            /\ \A r \in active : Labelled(o.todo, attrs, r.device, Expected(o, r.device))
          BY <1>1, <2>2, <2>7, <3>2, <3>3 DEF Reconciles
    <3>5. o.kind = "swept" => \A d \in Device :
             \/ (\A r \in active : r.device # d) /\ WillBe(o.todo, attrs, d, "id", Absent)
             \/ \E r \in active : r.device = d /\ Labelled(o.todo, attrs, d, r.vehicle)
          BY <2>2, <2>7, <3>1, <3>2 DEF Reconciles
    <3> QED BY <2>2, <3>4, <3>5 DEF Reconciles
  <2>8. ReconcilesAlone'
    <3>1. ASSUME o.kind \in {"reconcile", "swept"}, o.ok, met[n] = {},
                 \A k \in Ops : k > n => op[k].pc = "idle"
          PROVE  Reconciles(o, active', attrs')
      <4>1. Reconciles(b, active, attrs)
            BY <2>2, <3>1 DEF IInv, ReconcilesAlone, Alone
      <4> QED BY <1>3, <2>7, <4>1
    <3> QED BY <1>1, <1>3, <2>2, <2>3, <3>1, ReconcilesMove
  <2>9. op' = [op EXCEPT ![n] = Writing(b, todo)] /\ (b.kind = "config" => b.device \in Device)
        /\ attrs' \in [Device -> Attributes] /\ faults' \in Nat
        BY <1>1, <1>3, <2>3 DEF o, Staged
  <2> QED BY <1>1, <1>3, <2>1, <2>6, <2>8, <2>9, WritingMoves
<1> QED BY <1>4, <1>5 DEF Read, Goes

LEMMA ChangedIs ==
  ASSUME NEW json \in Attributes, NEW put \in Upsert
  PROVE  /\ Changed(json, put) \in Attributes /\ put.device \in Device
         /\ Changed(json, put).id = IF put.key = "id" THEN put.value ELSE json.id
         /\ Changed(json, put).name = IF put.key = "name" THEN put.value ELSE json.name
         /\ Changed(json, put).config = IF put.key = "config" THEN put.value ELSE json.config
<1>1. CASE put \in [device : Device, key : {"name"}, value : Vehicle \cup {Absent}, part : Nat]
      BY <1>1 DEF Changed, Attributes
<1>2. CASE put \in [device : Device, key : {"id"}, value : Vehicle \cup {Absent, NaN}, part : Nat]
      BY <1>2 DEF Changed, Attributes
<1>3. CASE put \in [device : Device, key : {"config"}, value : SUBSET Ops, part : Nat]
      BY <1>3 DEF Changed, Attributes
<1>4. CASE put \in [device : Device, key : {"group"}, value : {Absent}, part : Nat]
      BY <1>4 DEF Changed, Attributes
<1> QED BY <1>1, <1>2, <1>3, <1>4 DEF Upsert

\* Writing the head over the JSON that is there leaves what the list was going to leave.
LEMMA WriteSettles ==
  ASSUME NEW todo \in Seq(Upsert), todo # <<>>, NEW json \in [Device -> Attributes],
         NEW after, after = [json EXCEPT ![Head(todo).device] = Changed(json[Head(todo).device], Head(todo))],
         NEW d \in Device, NEW w
  PROVE  /\ WillBe(todo, json, d, "id", w) => WillBe(Tail(todo), after, d, "id", w)
         /\ WillBe(todo, json, d, "name", w) => WillBe(Tail(todo), after, d, "name", w)
<1> DEFINE put == Head(todo)
           new == Changed(json[put.device], put)
<1>1. put \in Upsert
      BY TailIs
<1> HIDE DEF put
<1>2. put.device \in Device
      BY <1>1, ChangedIs DEF Upsert
<1>3. json[put.device] \in Attributes
      BY <1>2
<1>4. /\ new.id = IF put.key = "id" THEN put.value ELSE json[put.device].id
      /\ new.name = IF put.key = "name" THEN put.value ELSE json[put.device].name
      BY <1>1, <1>3, ChangedIs
<1> HIDE DEF new
<1>5. after[d] = IF d = put.device THEN new ELSE json[d]
      BY <1>2 DEF put, new
<1>6. /\ after[d].id = IF put.device = d /\ put.key = "id" THEN put.value ELSE json[d].id
      /\ after[d].name = IF put.device = d /\ put.key = "name" THEN put.value ELSE json[d].name
      BY <1>4, <1>5
<1>7. ASSUME WillBe(todo, json, d, "id", w) PROVE WillBe(Tail(todo), after, d, "id", w)
  <2>1. CASE Untouched(todo, d, "id") /\ json[d]["id"] = w
    <3>1. Untouched(Tail(todo), d, "id") /\ ~(put.device = d /\ put.key = "id")
          BY <2>1, SettlesTail DEF put
    <3> QED BY <1>6, <2>1, <3>1 DEF WillBe
  <2>2. CASE Settles(todo, d, "id", w)
    <3>1. \/ Settles(Tail(todo), d, "id", w)
          \/ Untouched(Tail(todo), d, "id") /\ put.device = d /\ put.key = "id" /\ put.value = w
          BY <2>2, SettlesTail DEF put
    <3> QED BY <1>6, <3>1 DEF WillBe
  <2> QED BY <1>7, <2>1, <2>2 DEF WillBe
<1>8. ASSUME WillBe(todo, json, d, "name", w) PROVE WillBe(Tail(todo), after, d, "name", w)
  <2>1. CASE Untouched(todo, d, "name") /\ json[d]["name"] = w
    <3>1. Untouched(Tail(todo), d, "name") /\ ~(put.device = d /\ put.key = "name")
          BY <2>1, SettlesTail DEF put
    <3> QED BY <1>6, <2>1, <3>1 DEF WillBe
  <2>2. CASE Settles(todo, d, "name", w)
    <3>1. \/ Settles(Tail(todo), d, "name", w)
          \/ Untouched(Tail(todo), d, "name") /\ put.device = d /\ put.key = "name" /\ put.value = w
          BY <2>2, SettlesTail DEF put
    <3> QED BY <1>6, <3>1 DEF WillBe
  <2> QED BY <1>8, <2>1, <2>2 DEF WillBe
<1> QED BY <1>7, <1>8

\* The UPDATE: the whole JSON that was read, with the attribute changed.
LEMMA WriteInv ==
  ASSUME IInv, NEW n \in Ops, Write(n)
  PROVE  IInv'
<1> DEFINE b == op[n]
           put == Head(b.todo)
           q == [b EXCEPT !.copy = Blank]
           todo == Tail(b.todo)
           o == Writing(q, todo)
<1>1. /\ b.pc = "write" /\ b \in Request /\ Staged(b) /\ n \in Busy /\ faults \in Nat
      /\ b.todo # <<>> /\ b.todo \in Seq(Upsert) /\ b.copy \in Attributes
      /\ attrs \in [Device -> Attributes]
      BY Types DEF Write, Busy, Staged, Request
<1>2. /\ put \in Upsert /\ put = b.todo[1] /\ 1 \in DOMAIN b.todo /\ todo \in Seq(Upsert)
      BY <1>1, TailIs
<1>3. /\ put.device \in Device /\ Changed(b.copy, put) \in Attributes
      /\ Changed(b.copy, put).config = IF put.key = "config" THEN put.value ELSE b.copy.config
      BY <1>1, <1>2, ChangedIs
<1>4. /\ met' = met /\ faults' = faults /\ fleet' = fleet /\ rows' = rows /\ active' = active
      /\ attrs' = [attrs EXCEPT ![put.device] = Changed(b.copy, put)]
      /\ op' = [op EXCEPT ![n] = o]
      BY DEF Write, Goes
<1>5. /\ attrs' \in [Device -> Attributes]
      /\ \A d \in Device : attrs'[d].config =
            IF d # put.device THEN attrs[d].config
            ELSE IF put.key = "config" THEN put.value ELSE b.copy.config
  <2> DEFINE new == Changed(b.copy, put)
  <2> HIDE DEF new
  <2>1. attrs' = [attrs EXCEPT ![put.device] = new] /\ new \in Attributes
        /\ new.config = IF put.key = "config" THEN put.value ELSE b.copy.config
        BY <1>3, <1>4 DEF new
  <2> QED BY <1>1, <1>3, <2>1
<1>6. /\ q \in Request /\ q.pc = "write" /\ q.kind = b.kind /\ q.device = b.device /\ q.ok = b.ok
      /\ q.found = b.found
  <2>1. Blank \in Attributes
        BY DEF Blank, Attributes
  <2> QED BY <1>1, <2>1 DEF Request
<1> HIDE DEF put, q, todo
<1>7. /\ o \in Request /\ o.pc \in {"put", "sweep", "done"} /\ o.todo = todo /\ o.kind = b.kind
      /\ o.ok = b.ok /\ o.device = b.device
      /\ (o.pc \in {"put", "sweep"} => o.found = b.found)
      /\ (o.pc = "done" => b.kind # "reconcile")
      /\ (todo # <<>> => o.pc = "put") /\ (todo = <<>> => o.pc # "put")
      BY <1>2, <1>6, WritingIs
<1> HIDE DEF o
<1>8. ASSUME NEW m \in Ops \ {n}, op[m].kind = "config", op[m].ok, met[m] = {}, op[m].pc = "done"
      PROVE  m \in attrs'[op[m].device].config /\ Keeps(o, m, op[m].device)
  <2>1. /\ m \in attrs[op[m].device].config /\ Keeps(b, m, op[m].device)
        /\ op[m].device \in Device
        BY <1>8, Types DEF IInv, SavesKept, Staged
  <2>2. Keeps(o, m, op[m].device)
        BY <1>1, <1>6, <2>1, TailKeeps DEF o, todo
  <2>3. put.device = op[m].device =>
          m \in b.copy.config /\ (put.key = "config" => m \in put.value)
        BY <1>1, <1>2, <2>1 DEF Keeps, put
  <2> QED BY <1>5, <2>1, <2>2, <2>3
<1>9. ASSUME o.kind = "config", o.ok, met[n] = {}
      PROVE  /\ WritesItself(o, n)
             /\ o.pc = "done" => n \in attrs'[o.device].config /\ Keeps(o, n, o.device)
  <2>1. /\ Len(b.todo) = 1 /\ put.key = "config" /\ put.device = b.device /\ n \in put.value
        BY <1>1, <1>2, <1>7, <1>9 DEF IInv, SavesKept, WritesItself
  <2>2. todo = <<>>
    <3>1. DOMAIN todo = 1..0 /\ todo \in Seq(Upsert)
          BY <1>1, <2>1, TailIs DEF todo
    <3>2. DOMAIN todo = {}
          BY <3>1
    <3> QED BY <3>1, <3>2, EmptySeq, LenProperties
  <2>3. WritesItself(o, n) /\ Keeps(o, n, o.device)
        BY <1>7, <2>2 DEF WritesItself, Keeps
  <2> QED BY <1>3, <1>5, <1>7, <2>1, <2>3
<1>10. SavesKept'
       BY <1>1, <1>4, <1>7, <1>8, <1>9, SavesMove
<1>11. ASSUME Reconciles(b, active, attrs) PROVE Reconciles(o, active, attrs')
  <2>1. attrs' = [attrs EXCEPT ![put.device] = Changed(attrs[put.device], put)]
        BY <1>1, <1>4, <1>11 DEF Reconciles, put
  <2>2. \A d \in Device : \A w :
          /\ WillBe(b.todo, attrs, d, "id", w) => WillBe(todo, attrs', d, "id", w)
          /\ WillBe(b.todo, attrs, d, "name", w) => WillBe(todo, attrs', d, "name", w)
        BY <1>1, <2>1, WriteSettles DEF put, todo
  <2>3. \A d \in Device : \A w : Labelled(b.todo, attrs, d, w) => Labelled(todo, attrs', d, w)
        BY <2>2 DEF Labelled
  <2>4. o.kind = "reconcile" => o.found = b.found /\ \A d : Expected(o, d) = Expected(b, d)
        BY <1>7 DEF Expected
  <2>5. \A r \in active : r.device \in Device
        BY Types DEF Row
  <2>6. o.kind = "reconcile" =>
          /\ active = {o.found[i] : i \in DOMAIN o.found}
          /\ \A r \in active : Labelled(o.todo, attrs', r.device, Expected(o, r.device))
        BY <1>1, <1>7, <1>11, <2>3, <2>4, <2>5 DEF Reconciles
  <2>7. o.kind = "swept" => \A d \in Device :
           \/ (\A r \in active : r.device # d) /\ WillBe(o.todo, attrs', d, "id", Absent)
           \/ \E r \in active : r.device = d /\ Labelled(o.todo, attrs', d, r.vehicle)
        BY <1>7, <1>11, <2>2, <2>3 DEF Reconciles
  <2> QED BY <1>7, <2>6, <2>7 DEF Reconciles
<1>12. ReconcilesAlone'
  <2>1. ASSUME o.kind \in {"reconcile", "swept"}, o.ok, met[n] = {},
               \A k \in Ops : k > n => op[k].pc = "idle"
        PROVE  Reconciles(o, active', attrs')
    <3>1. Reconciles(b, active, attrs)
          BY <1>7, <2>1 DEF IInv, ReconcilesAlone, Alone
    <3> QED BY <1>4, <1>11, <3>1
  <2> QED BY <1>1, <1>4, <1>7, <2>1, ReconcilesMove
<1>13. op' = [op EXCEPT ![n] = Writing(q, todo)] /\ (q.kind = "config" => q.device \in Device)
       /\ faults' \in Nat
       BY <1>1, <1>4, <1>6 DEF o, Staged
<1> QED BY <1>1, <1>2, <1>4, <1>5, <1>6, <1>10, <1>12, <1>13, WritingMoves

-----------------------------------------------------------------------------
(* Requests begin, the process dies, and the whole.                        *)

\* A request that begins meets those that are in progress, and the table and the JSON
\* are as they were.
LEMMA BeginInv ==
  ASSUME IInv, NEW n \in Ops, NEW o \in Request, Begin(n, o),
         o.pc \notin {"idle", "done"}, o.todo = <<>>, Staged(o),
         o.pc \in Assigning => o.pc = "deactivateVehicle" /\ Held(o.vehicle) \subseteq o.sees,
         o.kind \in {"reconcile", "swept"} => Reconciles(o, active, attrs)
  PROVE  IInv'
<1>1. /\ op[n].pc = "idle" /\ (\A k \in 1..(n - 1) : op[k].pc # "idle")
      /\ op' = [op EXCEPT ![n] = o]
      /\ met' = [k \in Ops |-> IF k = n THEN Busy ELSE IF k \in Busy THEN met[k] \cup {n} ELSE met[k]]
      /\ fleet' = fleet /\ rows' = rows /\ active' = active /\ attrs' = attrs /\ faults' = faults
      BY DEF Begin
<1>2. op'[n] = o /\ op' \in [Ops -> Request] /\ \A k \in Ops \ {n} : op'[k] = op[k]
      BY <1>1, Types
<1>3. /\ Busy \subseteq Ops /\ n \notin Busy /\ Busy' = Busy \cup {n}
      BY <1>1, <1>2 DEF Busy
<1>4. /\ met'[n] = Busy /\ met' \in [Ops -> SUBSET Ops]
      /\ \A k \in Ops \ {n} : met[k] \subseteq met'[k] /\ (k \in Busy => n \in met'[k])
      /\ \A k \in Ops \ {n} : met'[k] = {} => k \notin Busy /\ met[k] = {}
  <2>1. \A k \in Ops : met[k] \in SUBSET Ops
        BY Types
  <2>2. \A k \in Ops : met'[k] = IF k = n THEN Busy ELSE IF k \in Busy THEN met[k] \cup {n} ELSE met[k]
        BY <1>1
  <2>3. \A k \in Ops : met'[k] \in SUBSET Ops
        BY <1>3, <2>1, <2>2
  <2> QED BY <1>1, <1>3, <2>2, <2>3
<1>5. TypeOK'
      BY <1>1, <1>2, <1>4, Types DEF TypeOK
<1>6. Stages'
  <2>1. \A k \in Ops : Staged(op'[k])
        BY <1>2, Types
  <2> QED BY <2>1 DEF Stages, Staged
<1>7. Meetings'
  <2>1. \A m, k \in Busy \cup {n} : m # k => m \in met'[k]
        BY <1>3, <1>4 DEF IInv, Meetings
  <2>2. ASSUME NEW k \in Ops, op'[k].pc # "idle", met'[k] = {}
        PROVE  \A m \in 1..(k - 1) : op'[m].pc = "done"
    <3>1. CASE k = n
      <4>1. \A m \in 1..(n - 1) : m \in Ops /\ m # n
            BY Bounds
      <4> QED BY <1>1, <1>2, <1>4, <2>2, <3>1, <4>1 DEF Busy
    <3>2. CASE k # n
      <4>1. op[k].pc # "idle" /\ met[k] = {}
            BY <1>2, <1>4, <2>2, <3>2
      <4>2. \A m \in 1..(k - 1) : op[m].pc = "done"
            BY <4>1 DEF IInv, Meetings
      <4>3. \A m \in 1..(k - 1) : m \in Ops
            BY Bounds
      <4> QED BY <1>1, <1>2, <4>2, <4>3
    <3> QED BY <3>1, <3>2
  <2> QED BY <1>3, <2>1, <2>2 DEF Meetings
\* Those that knew of each other still do.
<1>8. \A r \in rows : r.by # 0 => r.by \in Ops /\ r.by # n
      BY <1>1, Types, Bounds DEF Row, IInv, RowsOnce
<1>9. \A k, m \in Ops \ {n} : Overlapped(k, m) => Overlapped(k, m)'
      BY <1>4 DEF Overlapped
<1>10. RowsOnce'
  <2>1. \A r \in rows : r.by # 0 => op'[r.by].pc \notin Assigning \cup {"idle"}
        BY <1>2, <1>8 DEF IInv, RowsOnce
  <2> QED BY <1>1, <2>1 DEF IInv, RowsOnce
<1>11. OnlyLateMissed'
  <2>1. ASSUME NEW k \in Ops, k # n PROVE MissesLate(op[k], k)'
    <3>1. MissesLate(op[k], k) /\ op'[k] = op[k]
          BY <1>2, <2>1 DEF IInv, OnlyLateMissed
    <3>2. (\A v : Held(v)' = Held(v)) /\ (\A d : In(d)' = In(d))
          BY <1>1 DEF Held, In
    <3>3. \A s \in active : Late(s, k) => Late(s, k)'
          BY <1>8, <1>9, <2>1, Types DEF Late
    <3>4. (\A v : Held(v) \subseteq active) /\ (\A d : In(d) \subseteq active)
          BY DEF Held, In
    <3> QED BY <3>1, <3>2, <3>3, <3>4 DEF MissesLate
  <2>2. MissesLate(op[n], n)'
    <3>1. Held(o.vehicle)' = Held(o.vehicle)
          BY <1>1 DEF Held
    <3> QED BY <1>2, <3>1 DEF MissesLate, Assigning
  <2> QED BY <2>1, <2>2 DEF OnlyLateMissed
<1>12. OneActiveUnlessOverlapped'
  <2>1. ASSUME NEW r \in active, NEW s \in active, r # s,
               r.vehicle = s.vehicle \/ r.device = s.device
        PROVE  r.by # 0 /\ s.by # 0 /\ Overlapped(r.by, s.by)'
    <3>1. r.by # 0 /\ s.by # 0 /\ Overlapped(r.by, s.by)
          BY <2>1 DEF IInv, OneActiveUnlessOverlapped
    <3>2. r \in rows /\ s \in rows
          BY Types
    <3> QED BY <1>8, <1>9, <3>1, <3>2
  <2>2. \A r \in rows : r.vehicle \in fleet
        BY DEF IInv, RowsOnce
  <2>3. \A r, s \in active :
          r # s /\ (r.vehicle = s.vehicle \/ r.device = s.device) =>
            r.by # 0 /\ s.by # 0 /\ Overlapped(r.by, s.by)'
        BY <2>1
  <2> QED BY <1>1, <2>2, <2>3 DEF OneActiveUnlessOverlapped
<1>13. SavesKept'
  <2>1. \A m, d : Keeps(o, m, d)
    <3>1. o.pc # "write" /\ DOMAIN o.todo = {}
          BY DEF Staged
    <3> QED BY <3>1 DEF Keeps
  <2>2. ASSUME NEW m \in Ops, op'[m].kind = "config", op'[m].ok, met'[m] = {}
        PROVE  /\ WritesItself(op'[m], m)
               /\ op'[m].pc = "done" => /\ m \in attrs[op'[m].device].config
                                        /\ \A k \in Ops : Keeps(op'[k], m, op'[m].device)
    <3>1. CASE m = n
          BY <1>2, <3>1 DEF WritesItself, Staged
    <3>2. CASE m # n
          BY <1>2, <1>4, <2>1, <2>2, <3>2 DEF IInv, SavesKept
    <3> QED BY <3>1, <3>2
  <2> QED BY <1>1, <2>2 DEF SavesKept, WritesItself, Keeps
<1>14. ReconcilesAlone'
  <2>1. ASSUME NEW m \in Ops, op'[m].kind \in {"reconcile", "swept"}, met'[m] = {},
               \A k \in Ops : k > m => op'[k].pc = "idle"
        PROVE  Reconciles(op'[m], active, attrs)
    <3>1. CASE m = n
          BY <1>2, <2>1, <3>1
    <3>2. CASE m # n
      <4>1. op'[m].pc # "idle"
            BY <1>2, <2>1, <3>2, Types, IdleIs DEF Staged
      <4>2. n \in 1..(m - 1)
            BY <1>2, <2>1, <3>2, Bounds
      <4>3. op'[n].pc = "done"
            BY <1>7, <2>1, <4>1, <4>2 DEF Meetings
      <4> QED BY <1>2, <4>3
    <3> QED BY <3>1, <3>2
  <2>2. ASSUME NEW m \in Ops, op'[m].kind \in {"reconcile", "swept"}, Alone(m)'
        PROVE  Reconciles(op'[m], active, attrs)
        BY <2>1, <2>2 DEF Alone
  <2>3. ASSUME NEW m \in Ops, op'[m].kind \in {"reconcile", "swept"}, Alone(m)'
        PROVE  Reconciles(op[m], active, attrs)'
        BY <1>1, <2>2, <2>3 DEF Reconciles
  <2> QED BY <2>3 DEF ReconcilesAlone
<1> QED BY <1>5, <1>6, <1>7, <1>10, <1>11, <1>12, <1>13, <1>14 DEF IInv

LEMMA AssignInv ==
  ASSUME IInv, NEW n \in Ops, Assign(n)
  PROVE  IInv'
<1>1. PICK v \in fleet, d \in Device :
        \E p \in IF Held(v) = {} THEN {Absent} ELSE {r.device : r \in Held(v)} :
          Begin(n, [Idle EXCEPT !.kind = "assign", !.pc = "deactivateVehicle", !.vehicle = v,
                                !.device = d, !.previous = p, !.sees = Held(v)])
      BY DEF Assign
<1>2. PICK p \in IF Held(v) = {} THEN {Absent} ELSE {r.device : r \in Held(v)} :
        Begin(n, [Idle EXCEPT !.kind = "assign", !.pc = "deactivateVehicle", !.vehicle = v,
                              !.device = d, !.previous = p, !.sees = Held(v)])
      BY <1>1
<1> DEFINE o == [Idle EXCEPT !.kind = "assign", !.pc = "deactivateVehicle", !.vehicle = v,
                             !.device = d, !.previous = p, !.sees = Held(v)]
<1>3. v \in Vehicle /\ p \in Device \cup {Absent} /\ Held(v) \in SUBSET Row
      BY Types DEF Held, Row
<1>4. /\ o \in Request /\ o.pc = "deactivateVehicle" /\ o.kind = "assign" /\ o.todo = <<>>
      /\ o.vehicle = v /\ o.device = d /\ o.sees = Held(v)
      BY <1>3, IdleIs DEF Request, Kind, Stage
<1>5. Begin(n, o)
      BY <1>2
<1> HIDE DEF o
<1>6. Staged(o)
      BY <1>3, <1>4 DEF Staged, Assigning
<1> QED BY <1>4, <1>5, <1>6, BeginInv

LEMMA DeleteInv ==
  ASSUME IInv, NEW n \in Ops, Delete(n)
  PROVE  IInv'
<1>1. PICK v \in fleet :
        \E p \in IF Held(v) = {} THEN {Absent} ELSE {r.device : r \in Held(v)} :
          Begin(n, [Idle EXCEPT !.kind = "delete", !.pc = "destroyRows", !.vehicle = v,
                                !.previous = p, !.sees = {r \in rows : r.vehicle = v}])
      BY DEF Delete
<1>2. PICK p \in IF Held(v) = {} THEN {Absent} ELSE {r.device : r \in Held(v)} :
        Begin(n, [Idle EXCEPT !.kind = "delete", !.pc = "destroyRows", !.vehicle = v,
                              !.previous = p, !.sees = {r \in rows : r.vehicle = v}])
      BY <1>1
<1> DEFINE o == [Idle EXCEPT !.kind = "delete", !.pc = "destroyRows", !.vehicle = v,
                             !.previous = p, !.sees = {r \in rows : r.vehicle = v}]
<1>3. v \in Vehicle /\ p \in Device \cup {Absent} /\ {r \in rows : r.vehicle = v} \in SUBSET Row
      BY Types DEF Held, Row
<1>4. o \in Request /\ o.pc = "destroyRows" /\ o.kind = "delete" /\ o.todo = <<>>
      BY <1>3, IdleIs DEF Request, Kind, Stage
<1>5. Begin(n, o)
      BY <1>2
<1> HIDE DEF o
<1>6. Staged(o) /\ o.pc \notin Assigning
      BY <1>4 DEF Staged, Assigning
<1> QED BY <1>4, <1>5, <1>6, BeginInv

LEMMA ConfigureInv ==
  ASSUME IInv, NEW n \in Ops, Configure(n)
  PROVE  IInv'
<1>1. PICK v \in fleet : \E r \in Held(v) :
        Begin(n, [Idle EXCEPT !.kind = "config", !.pc = "merge", !.vehicle = v, !.device = r.device])
      BY DEF Configure
<1>2. PICK r \in Held(v) :
        Begin(n, [Idle EXCEPT !.kind = "config", !.pc = "merge", !.vehicle = v, !.device = r.device])
      BY <1>1
<1> DEFINE o == [Idle EXCEPT !.kind = "config", !.pc = "merge", !.vehicle = v, !.device = r.device]
<1>3. v \in Vehicle /\ r.device \in Device
      BY Types DEF Held, Row
<1>4. o \in Request /\ o.pc = "merge" /\ o.kind = "config" /\ o.todo = <<>> /\ o.device \in Device
      BY <1>3, IdleIs DEF Request, Kind, Stage
<1>5. Begin(n, o)
      BY <1>2
<1> HIDE DEF o
<1>6. Staged(o) /\ o.pc \notin Assigning
      BY <1>4 DEF Staged, Assigning
<1> QED BY <1>4, <1>5, <1>6, BeginInv

LEMMA ReconcileInv ==
  ASSUME IInv, NEW n \in Ops, Reconcile(n)
  PROVE  IInv'
<1>1. PICK all \in SetToSeqs(active) :
        Begin(n, [Idle EXCEPT !.kind = "reconcile", !.pc = "vehicles", !.found = all])
      BY DEF Reconcile
<1> DEFINE o == [Idle EXCEPT !.kind = "reconcile", !.pc = "vehicles", !.found = all]
<1>2. all \in Seq(active) /\ active = {all[i] : i \in DOMAIN all}
      BY OrderedAre DEF IInv, RowsOnce
<1>3. all \in Seq(Row)
      BY <1>2, Types, SeqMonotonic
<1>4. /\ o \in Request /\ o.pc = "vehicles" /\ o.kind = "reconcile" /\ o.todo = <<>>
      /\ o.found = all
      BY <1>3, IdleIs DEF Request, Kind, Stage
<1>5. Begin(n, o)
      BY <1>1
<1> HIDE DEF o
<1>6. Staged(o) /\ o.pc \notin Assigning /\ Reconciles(o, active, attrs)
      BY <1>2, <1>4 DEF Staged, Assigning, Reconciles
<1> QED BY <1>4, <1>5, <1>6, BeginInv

\* Transactions roll back, and what was still to be written is lost.
LEMMA CrashInv ==
  ASSUME IInv, Crash
  PROVE  IInv'
<1>1. /\ op' = [n \in Ops |-> IF n \in Busy THEN Failed(op[n]) ELSE op[n]]
      /\ faults' = faults + 1 /\ met' = met
      /\ fleet' = fleet /\ rows' = rows /\ active' = active /\ attrs' = attrs
      BY DEF Crash, Faulty
<1>2. \A k \in Ops : /\ k \in Busy => op'[k] = Failed(op[k])
                     /\ k \notin Busy => op'[k] = op[k] /\ op[k].pc \in {"idle", "done"}
  <2>1. \A k \in Ops : k \notin Busy => op[k].pc \in {"idle", "done"}
        BY DEF Busy
  <2> QED BY <1>1, <2>1
<1>3. \A k \in Ops : op'[k] \in Request /\ Staged(op'[k]) /\ op'[k].pc \in {"idle", "done"}
  <2> TAKE k \in Ops
  <2>1. CASE k \in Busy
        BY <1>2, <2>1, FailedIs, Types
  <2>2. CASE k \notin Busy
        BY <1>2, <2>2, Types
  <2> QED BY <2>1, <2>2
<1>4. \A k \in Ops : op'[k].pc = "idle" <=> op[k].pc = "idle"
  <2> TAKE k \in Ops
  <2>1. CASE k \in Busy
        BY <1>2, <2>1, FailedIs, Types DEF Busy
  <2>2. CASE k \notin Busy
        BY <1>2, <2>2
  <2> QED BY <2>1, <2>2
<1>5. \A k \in Ops : op'[k].ok => k \notin Busy /\ op'[k] = op[k]
  <2> TAKE k \in Ops
  <2>1. CASE k \in Busy
        BY <1>2, <2>1, FailedIs, Types
  <2>2. CASE k \notin Busy
        BY <1>2, <2>2
  <2> QED BY <2>1, <2>2
<1>6. TypeOK'
  <2>1. op' \in [Ops -> Request]
        BY <1>1, <1>3
  <2> QED BY <1>1, <2>1, Types DEF TypeOK
<1>7. Stages'
      BY <1>3 DEF Stages, Staged
<1>8. Meetings'
  <2>1. Busy' = {}
        BY <1>3 DEF Busy
  <2>2. ASSUME NEW k \in Ops, op'[k].pc # "idle", met[k] = {}, NEW m \in 1..(k - 1)
        PROVE  op'[m].pc = "done"
    <3>1. m \in Ops /\ op[k].pc # "idle"
          BY <1>4, <2>2, Bounds
    <3>2. op[m].pc = "done"
          BY <2>2, <3>1 DEF IInv, Meetings
    <3> QED BY <1>2, <3>1, <3>2 DEF Busy
  <2> QED BY <1>1, <2>1, <2>2 DEF Meetings
<1>9. RowsOnce'
  <2>1. \A r \in rows : r.by # 0 => r.by \in Ops
        BY Types, Bounds DEF Row
  <2>2. \A r \in rows : r.by # 0 => op'[r.by].pc \notin Assigning \cup {"idle"}
        BY <1>3, <1>4, <2>1 DEF IInv, RowsOnce, Assigning
  <2> QED BY <1>1, <2>2 DEF IInv, RowsOnce
<1>10. OnlyLateMissed'
       BY <1>3 DEF OnlyLateMissed, MissesLate
<1>11. OneActiveUnlessOverlapped'
       BY <1>1 DEF IInv, OneActiveUnlessOverlapped, Overlapped
<1>12. SavesKept'
  <2>1. ASSUME NEW m \in Ops, op'[m].kind = "config", op'[m].ok, met[m] = {}
        PROVE  /\ WritesItself(op'[m], m)
               /\ op'[m].pc = "done" => /\ m \in attrs[op'[m].device].config
                                        /\ \A k \in Ops : Keeps(op'[k], m, op'[m].device)
    <3>1. op'[m] = op[m]
          BY <1>5, <2>1
    <3>2. \A k \in Ops : op'[k].pc # "write" /\ DOMAIN op'[k].todo = {}
          BY <1>3 DEF Staged
    <3> QED BY <2>1, <3>1, <3>2 DEF IInv, SavesKept, Keeps
  <2> QED BY <1>1, <2>1 DEF SavesKept, WritesItself, Keeps
<1>13. ReconcilesAlone'
  <2>1. ASSUME NEW m \in Ops, op'[m].kind \in {"reconcile", "swept"}, op'[m].ok, met[m] = {},
               \A k \in Ops : k > m => op'[k].pc = "idle"
        PROVE  Reconciles(op'[m], active, attrs)
    <3>1. op'[m] = op[m]
          BY <1>5, <2>1
    <3>2. \A k \in Ops : k > m => op[k].pc = "idle"
          BY <1>4, <2>1
    <3>3. Alone(m)
          BY <2>1, <3>1, <3>2 DEF Alone
    <3> QED BY <2>1, <3>1, <3>3 DEF IInv, ReconcilesAlone
  <2>2. ASSUME NEW m \in Ops, op'[m].kind \in {"reconcile", "swept"}, Alone(m)'
        PROVE  Reconciles(op[m], active, attrs)'
    <3>1. Reconciles(op'[m], active', attrs')
          BY <1>1, <2>1, <2>2 DEF Alone
    <3> QED BY <3>1 DEF Reconciles, Labelled, WillBe, Settles, Untouched
  <2> QED BY <2>2 DEF ReconcilesAlone
<1> QED BY <1>6, <1>7, <1>8, <1>9, <1>10, <1>11, <1>12, <1>13 DEF IInv

LEMMA InitInv == Init => IInv
<1> SUFFICES ASSUME Init PROVE IInv
    OBVIOUS
<1>1. /\ fleet = Vehicle /\ rows \in SUBSET [vehicle : Vehicle, device : Device, by : {0}]
      /\ (\A r, s \in rows : r.vehicle = s.vehicle \/ r.device = s.device => r = s)
      /\ active = rows
      /\ attrs = [d \in Device |-> [name |-> OwnerOf(d), id |-> OwnerOf(d), config |-> {}]]
      /\ op = [n \in Ops |-> Idle] /\ faults = 0 /\ met = [n \in Ops |-> {}]
      BY DEF Init
<1>2. \A r \in rows : r \in Row /\ r.vehicle \in Vehicle /\ r.by = 0
      BY <1>1, Bounds DEF Row
<1>3. \A n \in Ops : op[n] = Idle /\ op[n].pc = "idle" /\ op[n].kind = "none"
      BY <1>1, IdleIs
<1>4. TypeOK
  <2>1. \A d \in Device : OwnerOf(d) \in Vehicle \cup {Absent}
    <3> TAKE d \in Device
    <3>1. CASE In(d) = {}
          BY <3>1 DEF OwnerOf
    <3>2. CASE In(d) # {}
      <4> DEFINE r == CHOOSE r \in In(d) : TRUE
      <4>1. r \in In(d)
            BY <3>2
      <4>2. OwnerOf(d) = r.vehicle
            BY <3>2 DEF OwnerOf
      <4> HIDE DEF r
      <4> QED BY <1>1, <1>2, <4>1, <4>2 DEF In
    <3> QED BY <3>1, <3>2
  <2>2. attrs \in [Device -> Attributes]
        BY <1>1, <2>1 DEF Attributes
  <2>3. op \in [Ops -> Request] /\ met \in [Ops -> SUBSET Ops]
        BY <1>1, IdleIs
  <2> QED BY <1>1, <1>2, <2>2, <2>3 DEF TypeOK
<1>5. Stages
  <2>1. Staged(Idle)
        BY IdleIs DEF Staged, Assigning
  <2> QED BY <1>3, <2>1 DEF Stages
<1>6. Meetings
      BY <1>3 DEF Meetings, Busy
<1>7. RowsOnce
  <2>1. IsFiniteSet(Vehicle \X Device)
        BY ConstantsAssumption, FS_Product
  <2> DEFINE RowOf(p) == [vehicle |-> p[1], device |-> p[2], by |-> 0]
             all == {RowOf(p) : p \in Vehicle \X Device}
             table == [p \in Vehicle \X Device |-> RowOf(p)]
  <2>2. IsFiniteSet(all)
    <3>1. table \in Surjection(Vehicle \X Device, all)
          BY DEF Surjection
    <3> HIDE DEF table, all
    <3> QED BY <2>1, <3>1, FS_Surjection
  <2>3. rows \subseteq all
    <3>1. ASSUME NEW r \in rows PROVE r \in all
      <4>1. <<r.vehicle, r.device>> \in Vehicle \X Device /\ r = RowOf(<<r.vehicle, r.device>>)
            BY <1>1
      <4> QED BY <4>1
    <3> QED BY <3>1
  <2> HIDE DEF all
  <2>4. IsFiniteSet(active)
        BY <1>1, <2>2, <2>3, FS_Subset
  <2> QED BY <1>1, <1>2, <2>4 DEF RowsOnce
<1>8. OnlyLateMissed
      BY <1>3 DEF OnlyLateMissed, MissesLate
<1>9. OneActiveUnlessOverlapped
      BY <1>1, <1>2 DEF OneActiveUnlessOverlapped
<1>10. SavesKept
       BY <1>3 DEF SavesKept
<1>11. ReconcilesAlone
       BY <1>3 DEF ReconcilesAlone
<1> QED BY <1>4, <1>5, <1>6, <1>7, <1>8, <1>9, <1>10, <1>11 DEF IInv

LEMMA NextInv == IInv /\ [Next]_vars => IInv'
<1> SUFFICES ASSUME IInv, [Next]_vars PROVE IInv'
    OBVIOUS
<1>1. CASE \E n \in Ops : Assign(n) \/ Delete(n) \/ Configure(n) \/ Reconcile(n)
      BY <1>1, AssignInv, DeleteInv, ConfigureInv, ReconcileInv
<1>2. CASE \E n \in Ops : Step(n) \/ PutFails(n)
      BY <1>2, DeactivateVehicleInv, FreeDeviceInv, DeactivateDeviceInv, InsertInv, DestroyRowsInv,
         DestroyVehicleInv, MergeInv, SyncAllInv, SweepInv, ReadInv, WriteInv, DeadlockInv, PutFailsInv
         DEF Step
<1>3. CASE Crash
      BY <1>3, CrashInv
<1>4. CASE UNCHANGED vars
  <2> USE <1>4 DEF vars
  <2>1. TypeOK' /\ Stages'
        BY DEF IInv, TypeOK, Stages, Staged
  <2>2. Meetings' /\ RowsOnce'
        BY DEF IInv, Meetings, RowsOnce, Busy
  <2>3. OnlyLateMissed' /\ OneActiveUnlessOverlapped'
        BY DEF IInv, OnlyLateMissed, MissesLate, Held, In, Late, Overlapped, OneActiveUnlessOverlapped
  <2>4. SavesKept'
        BY DEF IInv, SavesKept, WritesItself, Keeps
  <2>5. ASSUME NEW n \in Ops, op'[n].kind \in {"reconcile", "swept"}, Alone(n)'
        PROVE  Reconciles(op'[n], active', attrs')
        BY <2>5 DEF IInv, ReconcilesAlone, Alone
  <2>6. ReconcilesAlone'
        BY <2>5 DEF ReconcilesAlone, Reconciles, Labelled, WillBe, Settles, Untouched
  <2> QED BY <2>1, <2>2, <2>3, <2>4, <2>6 DEF IInv
<1> QED BY <1>1, <1>2, <1>3, <1>4 DEF Next, Rest

\* The inductive invariant holds of every behaviour: the requests of assignDevice,
\* deleteVehicle, updateVehicleMergedConfig and the reconciliation of startup, in any
\* number, interleaved, failing and crashing.
THEOREM Invariance == Spec => []IInv
BY InitInv, NextInv, PTL DEF Spec

\* Tables, attributes and requests keep their types.
THEOREM TypeCorrect == Spec => []TypeOK
<1>1. IInv => TypeOK
      BY DEF IInv
<1> QED BY <1>1, Invariance, PTL

\* Two active rows of one vehicle or of one device are the work of two assignments
\* that were in progress together, whatever ran before them; and no row outlives its vehicle.
THEOREM OneActive == Spec => []OneActiveUnlessOverlapped
<1>1. IInv => OneActiveUnlessOverlapped
      BY DEF IInv
<1> QED BY <1>1, Invariance, PTL

\* The settings of a save that met no other request are never lost: every later write of
\* the whole JSON has read them.
THEOREM SavesStay == Spec => []SettingsKept
<1>1. IInv => SettingsKept
      BY DEF IInv, SavesKept, SettingsKept
<1> QED BY <1>1, Invariance, PTL

\* A reconciliation that ran alone and completed leaves every device labelled as its
\* assignments say, whatever came before it.
THEOREM ReconciliationLabels == Spec => []ReconciledLabels
<1>1. ASSUME IInv PROVE ReconciledLabels
  <2> SUFFICES ASSUME NEW n \in Ops, op[n].kind = "swept", Undisturbed(n), NEW d \in Device
               PROVE  IF In(d) = {} THEN attrs[d].id = Absent
                      ELSE \E r \in In(d) : attrs[d].id = r.vehicle /\ attrs[d].name = r.vehicle
      BY DEF ReconciledLabels
  <2>1. Reconciles(op[n], active, attrs)
        BY <1>1 DEF IInv, ReconcilesAlone, Alone, Undisturbed
  <2>2. op[n].todo = <<>>
        BY <1>1, Types DEF Undisturbed, Staged
  <2>3. \/ (\A r \in active : r.device # d) /\ attrs[d].id = Absent
        \/ \E r \in active : r.device = d /\ attrs[d].id = r.vehicle /\ attrs[d].name = r.vehicle
        BY <2>1, <2>2, NothingLeft DEF Reconciles, Labelled
  <2> QED BY <2>3 DEF In
<1> QED BY <1>1, Invariance, PTL
=============================================================================
