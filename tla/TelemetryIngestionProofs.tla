---------------------- MODULE TelemetryIngestionProofs ----------------------
(***************************************************************************)
(* The ledger is true, the cursor leaves nothing behind and the vehicle    *)
(* lock never fills the pool, for any executions, connections and events.  *)
(* IInv falls into what the actors' steps do to ledger and scan            *)
(* (ActorStep) and what they do to the sessions (FewerWaiters, TakenApart, *)
(* WaitApart).                                                             *)
(***************************************************************************)
EXTENDS TelemetryIngestion, FiniteSetTheorems, TLAPS

Step == {"idle", "skip", "lock", "wait", "ledger", "row", "persist", "record", "error", "unlock"}

LEMMA IdleTyped == Idle \in Op /\ Idle.pc = "idle" /\ Idle.event = 0 /\ Idle.conn \in Conn
<1>1. PICK d \in Conn : TRUE
  BY ConstantsAssumption
<1>2. (CHOOSE c \in Conn : TRUE) \in Conn
  BY <1>1
<1>3. MaxTime \in Nat /\ MaxEvents \in Nat
  BY ConstantsAssumption
<1>4. Silent \in Telemetry /\ NoRow \in Row
  BY <1>3 DEF Silent, Telemetry, NoRow, Row, Time
<1>. QED
  BY <1>2, <1>3, <1>4 DEF Idle, Op, Time

LEMMA ActorsApart ==
  /\ "job" \in Handler /\ "job" \in Actor /\ Slot \subseteq Handler /\ "job" \notin Slot
  /\ Handler \subseteq Locker /\ Sweeper \subseteq Locker /\ Locker \subseteq Actor
  /\ Reader \subseteq Actor /\ Handler \cap Evaluator = {}
  /\ \A a \in Actor : a \in Handler \/ a \in Evaluator
BY ConstantsAssumption DEF Handler, Locker, Actor, Evaluator

\* An actor's record replaced as a whole.
LEMMA OpStep ==
  ASSUME op \in [Actor -> Op], NEW a \in Actor, NEW r \in Op, op' = [op EXCEPT ![a] = r]
  PROVE  /\ op' \in [Actor -> Op] /\ op'[a] = r
         /\ \A b \in Actor \ {a} : op'[b] = op[b]
OBVIOUS

LEMMA GotoStep ==
  ASSUME op \in [Actor -> Op], NEW a \in Actor, NEW step \in Step, Goto(a, step)
  PROVE  /\ op' \in [Actor -> Op]
         /\ op'[a].pc = step /\ op'[a].event = op[a].event /\ op'[a].conn = op[a].conn
         /\ \A b \in Actor \ {a} : op'[b] = op[b]
<1>. DEFINE r == [op[a] EXCEPT !.pc = step]
<1>1. op[a] \in Op
  OBVIOUS
<1>2. r \in Op /\ r.pc = step /\ r.event = op[a].event /\ r.conn = op[a].conn
  BY <1>1 DEF Op, Step
<1>3. op' = [op EXCEPT ![a] = r]
  BY DEF Goto
<1>. HIDE DEF r
<1>. QED
  BY <1>2, <1>3, OpStep

LEMMA FinishStep ==
  ASSUME op \in [Actor -> Op], NEW a \in Actor, Finish(a)
  PROVE  /\ op' \in [Actor -> Op] /\ op'[a].pc = "idle"
         /\ \A b \in Actor \ {a} : op'[b] = op[b]
         /\ handed \subseteq handed' /\ (a = "job" => op[a].event \in handed')
         /\ handed' \subseteq handed \cup {op[a].event}
BY IdleTyped, OpStep DEF Finish

LEMMA LockTypes ==
  ASSUME holds \in Lock!Holds, NEW c \in Conn
  PROVE  /\ Lock!Taken(holds, "fuel-api", c) \in Lock!Holds
         /\ Lock!GivenBack(holds, "fuel-api", c) \in Lock!Holds
         /\ Lock!Closed(holds, "fuel-api", c) \in Lock!Holds
         /\ Lock!Gone(holds, "fuel-api") \in Lock!Holds
BY DEF Process, Lock!Holds, Lock!Taken, Lock!GivenBack, Lock!Closed, Lock!Gone

\* Nothing but Taken makes a session a holder.
LEMMA OnlyTakenAdds ==
  ASSUME holds \in Lock!Holds, NEW c \in Conn,
         holds' \in {Lock!GivenBack(holds, "fuel-api", c), Lock!Closed(holds, "fuel-api", c),
                     Lock!Gone(holds, "fuel-api")}
  PROVE  \A d \in Conn : held'[d] > 0 => held[d] > 0
BY DEF held, Process, Lock!Holds, Lock!GivenBack, Lock!Closed, Lock!Gone

-----------------------------------------------------------------------------
(* Ledger and scan.                                                        *)

\* What every step of an actor does that can disturb the ledger or the scan.
ActorMoves(a) ==
  /\ op' \in [Actor -> Op] /\ \A b \in Actor \ {a} : op'[b] = op[b]
  /\ UNCHANGED <<scan, cursor, aged>> /\ handed \subseteq handed' /\ applied \subseteq applied'
  /\ a = "job" => /\ op[a].pc # "idle"
                  /\ op'[a].pc = "idle" => op[a].event \in handed'
                  /\ op'[a].pc # "idle" => op'[a].event = op[a].event
  /\ a \in Handler => /\ op'[a].pc # "idle" => op'[a].event \in EventId
                      /\ op'[a].pc = "record" => op'[a].event \in applied'
  /\ \A e \in EventId : ledger'[e] = "processed" => ledger[e] = "processed" \/ e \in applied'

LEMMA ActorStep ==
  ASSUME IInv, NEW a \in Actor, ActorMoves(a)
  PROVE  HandlingsOwnEvents' /\ ProcessedMeansPersisted' /\ ScanInOrder' /\ CursorBehindScan'
<1>1. HandlingsOwnEvents'
  BY ActorsApart DEF ActorMoves, IInv, HandlingsOwnEvents
<1>2. ProcessedMeansPersisted'
  BY DEF ActorMoves, IInv, ProcessedMeansPersisted
<1>3. handed \cup InHand \subseteq handed' \cup InHand'
  BY ActorsApart DEF ActorMoves, InHand
<1>4. ~scan.on => op'["job"].pc = "idle"
  BY ActorsApart DEF ActorMoves, IInv, ScanInOrder
<1>5. UNCHANGED <<scan, cursor, aged>> /\ handed \subseteq handed'
  BY DEF ActorMoves
<1>6. CursorBehindScan'
  BY <1>5 DEF IInv, CursorBehindScan
<1>7. ScanInOrder'
  BY <1>3, <1>4, <1>5 DEF IInv, ScanInOrder
<1>. QED
  BY <1>1, <1>2, <1>6, <1>7

-----------------------------------------------------------------------------
(* Sessions.                                                               *)

\* No one begins to wait and no session becomes a holder.
LEMMA FewerWaiters ==
  ASSUME IInv, holds' \in Lock!Holds,
         \A b \in Actor : op'[b].pc = "wait" => op[b].pc = "wait" /\ op'[b].conn = op[b].conn,
         \A c \in Conn : held'[c] > 0 => held[c] > 0
  PROVE  SessionsApart' /\ PoolNeverFull'
<1>1. \A c \in Conn : held[c] \in Nat /\ held'[c] \in Nat
  BY DEF IInv, TypeOK, held, Process, Lock!Holds
<1>2. \A b \in Actor : op[b].pc = "wait" => op[b].conn \in Conn
  BY DEF IInv, TypeOK, Op
<1>3. SessionsApart'
  BY <1>1, <1>2 DEF IInv, SessionsApart
<1>4. PoolNeverFull'
  BY DEF IInv, PoolNeverFull, Connected, Free
<1>. QED
  BY <1>3, <1>4

\* The lock is granted to a on connection c.
LEMMA TakenApart ==
  ASSUME IInv, NEW a \in Actor, NEW c \in Conn, LockFreeFor(c),
         holds' = Lock!Taken(holds, "fuel-api", c),
         op'[a].pc # "wait", \A b \in Actor \ {a} : op'[b] = op[b],
         \A b \in Actor \ {a} : op[b].pc = "wait" => op[b].conn # c
  PROVE  SessionsApart' /\ PoolNeverFull'
<1>1. \A d \in Conn : held[d] \in Nat /\ held'[d] = IF d = c THEN held[d] + 1 ELSE held[d]
  BY DEF IInv, TypeOK, held, Process, Lock!Holds, Lock!Taken
<1>2. \A d \in Conn : held[d] > 0 => d = c
  BY DEF LockFreeFor, Lock!CanTake, Process, held
<1>3. \A b \in Actor : op'[b].pc = "wait" => b # a /\ op'[b] = op[b] /\ op[b].conn # c /\ op[b].conn \in Conn
  BY DEF IInv, TypeOK, Op
<1>4. SessionsApart'
  <2>1. \A d, f \in Conn : held'[d] > 0 /\ held'[f] > 0 => d = f
    BY <1>1, <1>2
  <2>2. \A b \in Actor : op'[b].pc = "wait" => held'[op'[b].conn] = 0
    BY <1>1, <1>3 DEF IInv, SessionsApart
  <2>3. \A b, d \in Actor : op'[b].pc = "wait" /\ op'[d].pc = "wait" /\ op'[b].conn = op'[d].conn => b = d
    BY <1>3 DEF IInv, SessionsApart
  <2>. QED
    BY <2>1, <2>2, <2>3 DEF SessionsApart
<1>5. PoolNeverFull'
  BY <1>3 DEF IInv, PoolNeverFull, Connected, Free
<1>. QED
  BY <1>4, <1>5

\* a begins to wait on c: the session of the holder, which is another one, is
\* a connection nobody waits on.
LEMMA WaitApart ==
  ASSUME IInv, NEW a \in Actor, NEW c \in Conn, Free(c), ~LockFreeFor(c), UNCHANGED holds,
         op'[a].pc = "wait", op'[a].conn = c, \A b \in Actor \ {a} : op'[b] = op[b]
  PROVE  SessionsApart' /\ PoolNeverFull'
<1>1. PICK d \in Conn : held[d] > 0 /\ d # c
  BY DEF LockFreeFor, Lock!CanTake, Process, held
<1>2. \A f \in Conn : held[f] \in Nat /\ held'[f] = held[f]
  BY DEF IInv, TypeOK, held, Process, Lock!Holds
<1>3. held[c] = 0
  BY <1>1, <1>2 DEF IInv, SessionsApart
<1>4. \A b \in Actor \ {a} : op'[b].pc = "wait" => op'[b].conn # c /\ op'[b] = op[b]
  BY DEF Free
<1>5. SessionsApart'
  <2>1. \A f, g \in Conn : held'[f] > 0 /\ held'[g] > 0 => f = g
    BY <1>2 DEF IInv, SessionsApart
  <2>2. \A b \in Actor : op'[b].pc = "wait" => held'[op'[b].conn] = 0
    BY <1>2, <1>3, <1>4 DEF IInv, TypeOK, Op, SessionsApart
  <2>3. \A b, f \in Actor : op'[b].pc = "wait" /\ op'[f].pc = "wait" /\ op'[b].conn = op'[f].conn => b = f
    BY <1>4 DEF IInv, SessionsApart
  <2>. QED
    BY <2>1, <2>2, <2>3 DEF SessionsApart
<1>6. \A b \in Actor : op'[b].pc = "wait" => op'[b].conn # d
  BY <1>1, <1>2, <1>5 DEF SessionsApart
<1>7. PoolNeverFull'
  BY <1>6 DEF PoolNeverFull, Connected, Free
<1>. QED
  BY <1>5, <1>7

-----------------------------------------------------------------------------
(* Types of what is computed.                                              *)

LEMMA AfterTyped == ASSUME TypeOK, NEW kind \in Kinds PROVE After(kind) \in Telemetry
BY ConstantsAssumption DEF TypeOK, After, Telemetry

LEMMA ImpliedTyped == ASSUME TypeOK, NEW e \in EventId PROVE Implied(e) \in Telemetry
<1>1. ev[e].at \in Time
  BY DEF TypeOK, Event
<1>. QED
  BY <1>1 DEF Implied, Telemetry

LEMMA EvaluatedTyped ==
  ASSUME TypeOK, NEW copy \in Row, NEW tele \in Telemetry, NEW at \in Time
  PROVE  Evaluated(copy, tele, at) \subseteq Row
<1>. DEFINE s == Activity(tele, at)
<1>1. s \in State
  BY DEF Activity, State
<1>2. \A e \in 1..count : e \in EventId /\ ev[e].at \in Time
  BY ConstantsAssumption DEF TypeOK, EventId, Event
<1>3. Newest(Matching(s, at)) \subseteq Time
  BY <1>2 DEF Newest, Matching
<1>4. tele.seen \in Time
  BY DEF Telemetry
<1>5. Entered(s, tele, at) \subseteq Row
  BY <1>1, <1>3, <1>4 DEF Entered, Row
<1>. HIDE DEF s
<1>6. \A f \in Entered(s, tele, at) : (IF f.at = copy.at THEN copy ELSE f) \in Row
  BY <1>5
<1>. QED
  BY <1>5, <1>6 DEF Evaluated, s

\* A handling begins.
LEMMA BeginStep ==
  ASSUME TypeOK, NEW a \in Actor, NEW e \in EventId, NEW tele \in Telemetry, Begin(a, e, tele)
  PROVE  /\ op' \in [Actor -> Op]
         /\ op'[a].pc \in {"lock", "skip"} /\ op'[a].event = e
         /\ \A b \in Actor \ {a} : op'[b] = op[b]
<1>. DEFINE r == [Idle EXCEPT !.pc = IF mapped THEN "lock" ELSE "skip",
                              !.event = e, !.tele = tele, !.at = ev[e].at]
<1>1. ev[e].at \in Time /\ e \in 0..MaxEvents
  BY ConstantsAssumption DEF TypeOK, Event, EventId
<1>2. r \in Op /\ r.pc \in {"lock", "skip"} /\ r.event = e
  BY <1>1, IdleTyped DEF Op
<1>3. op' = [op EXCEPT ![a] = r]
  BY DEF Begin
<1>. HIDE DEF r
<1>. QED
  BY <1>2, <1>3, OpStep DEF TypeOK

-----------------------------------------------------------------------------
(* The steps.                                                              *)

LEMMA InitInv == Init => IInv
<1>. SUFFICES ASSUME Init PROVE IInv
  OBVIOUS
<1>1. \A b \in Actor : op[b] = Idle
  BY DEF Init
<1>2. MaxTime \in Nat /\ MaxEvents \in Nat
  BY ConstantsAssumption
<1>3. Silent \in Telemetry /\ NoRow \in Row
  BY <1>2 DEF Silent, Telemetry, NoRow, Row, Time
<1>4. holds \in Lock!Holds /\ \A c \in Conn : held[c] = 0
  BY DEF Init, Lock!Holds, Lock!Unheld, held, Process
<1>5. ev \in [EventId -> Event]
  BY <1>2, <1>3 DEF Init, Event, Time
<1>6. TypeOK
  BY <1>2, <1>3, <1>4, <1>5, IdleTyped DEF Init, TypeOK, Time, Outcome
<1>7. HandlingsOwnEvents
  BY <1>1, IdleTyped, ActorsApart DEF HandlingsOwnEvents
<1>8. ProcessedMeansPersisted /\ ScanInOrder /\ CursorBehindScan
  BY <1>1, IdleTyped, ActorsApart DEF Init, ProcessedMeansPersisted, ScanInOrder, CursorBehindScan, EventId
<1>9. SessionsApart /\ PoolNeverFull
  BY <1>1, <1>4, IdleTyped, ConstantsAssumption DEF SessionsApart, PoolNeverFull, Connected, Free
<1>. QED
  BY <1>6, <1>7, <1>8, <1>9 DEF IInv

\* An actor's step keeps IInv if what it does to types, ledger, scan and
\* sessions is as the lemmas above ask.
LEMMA KeptBy ==
  ASSUME IInv, NEW a \in Actor, TypeOK', ActorMoves(a), SessionsApart' /\ PoolNeverFull'
  PROVE  IInv'
BY ActorStep DEF IInv

LEMMA SameHolds ==
  ASSUME IInv, NEW a \in Actor, \A b \in Actor \ {a} : op'[b] = op[b],
         op'[a].pc # "wait", UNCHANGED holds
  PROVE  SessionsApart' /\ PoolNeverFull'
BY FewerWaiters DEF IInv, TypeOK, held

LEMMA HandlerSteps ==
  ASSUME IInv, NEW h \in Handler, RecordSkip(h) \/ CheckLedger(h) \/ Record(h)
  PROVE  IInv'
<1>1. h \in Actor /\ op[h] \in Op
  BY ActorsApart DEF IInv, TypeOK
<1>2. op[h].pc # "idle" => op[h].event \in EventId
  BY DEF IInv, HandlingsOwnEvents
<1>3. CASE RecordSkip(h)
  <2>1. /\ Finish(h) /\ op[h].event \in EventId
        /\ ledger' = [ledger EXCEPT ![op[h].event] = "skipped_unmapped_device"]
        /\ UNCHANGED <<traccarVars, mapped, row, cursor, holds, scan, faults, applied, aged>>
        /\ op[h].pc # "idle"
    BY <1>2, <1>3 DEF RecordSkip
  <2>2. /\ op' \in [Actor -> Op] /\ op'[h].pc = "idle" /\ \A b \in Actor \ {h} : op'[b] = op[b]
        /\ handed \subseteq handed' /\ (h = "job" => op[h].event \in handed')
        /\ handed' \subseteq handed \cup {op[h].event}
    BY <1>1, <2>1, FinishStep DEF IInv, TypeOK
  <2>3. ledger' \in [EventId -> Outcome] /\ \A e \in EventId : ledger'[e] = "processed" => ledger[e] = "processed"
    BY <2>1 DEF IInv, TypeOK, Outcome
  <2>4. op[h].event \in 0..MaxEvents
    BY <1>1 DEF Op
  <2>5. TypeOK'
    BY <2>1, <2>2, <2>3, <2>4 DEF IInv, TypeOK, traccarVars
  <2>6. ActorMoves(h)
    BY <2>1, <2>2, <2>3 DEF ActorMoves
  <2>. QED
    BY <1>1, <2>1, <2>2, <2>5, <2>6, KeptBy, SameHolds
<1>4. CASE CheckLedger(h)
  <2>1. PICK step \in {"unlock", "row"} : Goto(h, step)
    BY <1>4 DEF CheckLedger
  <2>2. UNCHANGED <<traccarVars, storeVars, scan, faults, history>> /\ op[h].pc = "ledger"
    BY <1>4 DEF CheckLedger
  <2>3. /\ op' \in [Actor -> Op] /\ op'[h].pc = step /\ op'[h].event = op[h].event
        /\ \A b \in Actor \ {h} : op'[b] = op[b]
    BY <1>1, <2>1, GotoStep DEF Step, IInv, TypeOK
  <2>4. TypeOK'
    BY <2>2, <2>3 DEF IInv, TypeOK, traccarVars, storeVars, history
  <2>5. ActorMoves(h)
    BY <1>2, <2>2, <2>3 DEF ActorMoves, storeVars, history
  <2>. QED
    BY <1>1, <2>2, <2>3, <2>4, <2>5, KeptBy, SameHolds DEF storeVars
<1>5. CASE Record(h)
  <2>1. /\ Goto(h, "unlock") /\ op[h].pc \in {"record", "error"} /\ op[h].event \in EventId
        /\ UNCHANGED <<traccarVars, mapped, row, cursor, holds, scan, faults, history>>
    BY <1>2, <1>5 DEF Record
  <2>2. PICK outcome \in {"processed", "error"} :
          /\ ledger' = [ledger EXCEPT ![op[h].event] = outcome]
          /\ outcome = "processed" => op[h].pc = "record"
    BY <1>5 DEF Record
  <2>3. /\ op' \in [Actor -> Op] /\ op'[h].pc = "unlock" /\ op'[h].event = op[h].event
        /\ \A b \in Actor \ {h} : op'[b] = op[b]
    BY <1>1, <2>1, GotoStep DEF Step, IInv, TypeOK
  <2>4. op[h].pc = "record" => op[h].event \in applied
    BY DEF IInv, HandlingsOwnEvents
  <2>5. /\ ledger' \in [EventId -> Outcome]
        /\ \A e \in EventId : ledger'[e] = "processed" => ledger[e] = "processed" \/ e \in applied
    BY <2>1, <2>2, <2>4 DEF IInv, TypeOK, Outcome
  <2>6. TypeOK'
    BY <2>1, <2>3, <2>5 DEF IInv, TypeOK, traccarVars, history
  <2>7. ActorMoves(h)
    BY <2>1, <2>3, <2>5 DEF ActorMoves, history
  <2>. QED
    BY <1>1, <2>1, <2>3, <2>6, <2>7, KeptBy, SameHolds
<1>. QED
  BY <1>3, <1>4, <1>5

LEMMA TakeLockInv == ASSUME IInv, NEW l \in Locker, NEW c \in Conn, TakeLock(l, c) PROVE IInv'
<1>1. l \in Actor /\ op[l] \in Op /\ op[l].pc = "lock" /\ Free(c)
  BY ActorsApart DEF IInv, TypeOK, TakeLock
<1>2. l \in Handler => op[l].event \in EventId
  BY <1>1 DEF IInv, HandlingsOwnEvents
<1>3. UNCHANGED <<traccarVars, mapped, row, ledger, cursor, scan, faults, history>>
  BY DEF TakeLock
<1>4. CASE LockFreeFor(c)
  <2>1. holds' = Lock!Taken(holds, "fuel-api", c) /\ Goto(l, AfterLock(l))
    BY <1>4 DEF TakeLock
  <2>2. AfterLock(l) \in {"persist", "ledger"}
    BY DEF AfterLock
  <2>3. /\ op' \in [Actor -> Op] /\ op'[l].pc \in {"persist", "ledger"} /\ op'[l].event = op[l].event
        /\ \A b \in Actor \ {l} : op'[b] = op[b]
    BY <1>1, <2>1, <2>2, GotoStep DEF Step, IInv, TypeOK
  <2>4. TypeOK'
    BY <1>3, <2>1, <2>3, LockTypes DEF IInv, TypeOK, traccarVars, history
  <2>5. ActorMoves(l)
    BY <1>1, <1>2, <1>3, <2>3 DEF ActorMoves, history
  <2>6. SessionsApart' /\ PoolNeverFull'
    <3>1. \A b \in Actor \ {l} : op[b].pc = "wait" => op[b].conn # c
      BY <1>1 DEF Free
    <3>. QED
      BY <1>1, <1>4, <2>1, <2>3, <3>1, TakenApart
  <2>. QED
    BY <1>1, <2>4, <2>5, <2>6, KeptBy
<1>5. CASE ~LockFreeFor(c)
  <2>. DEFINE r == [op[l] EXCEPT !.pc = "wait", !.conn = c]
  <2>1. op' = [op EXCEPT ![l].pc = "wait", ![l].conn = c] /\ UNCHANGED holds
    BY <1>5 DEF TakeLock
  <2>2. r \in Op /\ r.pc = "wait" /\ r.conn = c /\ r.event = op[l].event
    BY <1>1 DEF Op
  <2>3. op' = [op EXCEPT ![l] = r]
    BY <1>1, <2>1 DEF IInv, TypeOK
  <2>. HIDE DEF r
  <2>4. /\ op' \in [Actor -> Op] /\ op'[l].pc = "wait" /\ op'[l].conn = c /\ op'[l].event = op[l].event
        /\ \A b \in Actor \ {l} : op'[b] = op[b]
    BY <1>1, <2>2, <2>3, OpStep DEF IInv, TypeOK
  <2>5. TypeOK'
    BY <1>3, <2>1, <2>4 DEF IInv, TypeOK, traccarVars, history
  <2>6. ActorMoves(l)
    BY <1>1, <1>2, <1>3, <2>4 DEF ActorMoves, history
  <2>7. SessionsApart' /\ PoolNeverFull'
    BY <1>1, <1>5, <2>1, <2>4, WaitApart
  <2>. QED
    BY <1>1, <2>5, <2>6, <2>7, KeptBy
<1>. QED
  BY <1>4, <1>5

LEMMA GetLockInv == ASSUME IInv, NEW l \in Locker, GetLock(l) PROVE IInv'
<1>. DEFINE r == [op[l] EXCEPT !.pc = AfterLock(l), !.conn = Idle.conn]
            c == op[l].conn
<1>1. l \in Actor /\ op[l] \in Op /\ op[l].pc = "wait" /\ c \in Conn /\ LockFreeFor(c)
  BY ActorsApart DEF IInv, TypeOK, GetLock, Op
<1>2. l \in Handler => op[l].event \in EventId
  BY <1>1 DEF IInv, HandlingsOwnEvents
<1>3. /\ holds' = Lock!Taken(holds, "fuel-api", c)
      /\ op' = [op EXCEPT ![l].pc = AfterLock(l), ![l].conn = Idle.conn]
      /\ UNCHANGED <<traccarVars, mapped, row, ledger, cursor, scan, faults, history>>
  BY DEF GetLock
<1>4. AfterLock(l) \in {"persist", "ledger"}
  BY DEF AfterLock
<1>5. r \in Op /\ r.pc \in {"persist", "ledger"} /\ r.event = op[l].event
  BY <1>1, <1>4, IdleTyped DEF Op
<1>6. op' = [op EXCEPT ![l] = r]
  BY <1>1, <1>3 DEF IInv, TypeOK
<1>7. \A b \in Actor \ {l} : op[b].pc = "wait" => op[b].conn # c
  BY <1>1 DEF IInv, SessionsApart
<1>. HIDE DEF r, c
<1>8. /\ op' \in [Actor -> Op] /\ op'[l].pc \in {"persist", "ledger"} /\ op'[l].event = op[l].event
      /\ \A b \in Actor \ {l} : op'[b] = op[b]
  BY <1>1, <1>5, <1>6, OpStep DEF IInv, TypeOK
<1>9. TypeOK'
  BY <1>1, <1>3, <1>8, LockTypes DEF IInv, TypeOK, traccarVars, history
<1>10. ActorMoves(l)
  BY <1>1, <1>2, <1>3, <1>8 DEF ActorMoves, history
<1>11. SessionsApart' /\ PoolNeverFull'
  BY <1>1, <1>3, <1>7, <1>8, TakenApart
<1>. QED
  BY <1>1, <1>9, <1>10, <1>11, KeptBy

LEMMA UnlockInv == ASSUME IInv, NEW l \in Locker, NEW c \in Conn, Unlock(l, c) PROVE IInv'
<1>1. l \in Actor /\ op[l] \in Op /\ op[l].pc = "unlock" /\ op[l].event \in 0..MaxEvents
  BY ActorsApart DEF IInv, TypeOK, Unlock, Op
<1>2. /\ holds' = Lock!GivenBack(holds, "fuel-api", c) /\ Finish(l)
      /\ UNCHANGED <<traccarVars, mapped, row, ledger, cursor, scan, faults, applied, aged>>
  BY DEF Unlock
<1>3. /\ op' \in [Actor -> Op] /\ op'[l].pc = "idle" /\ \A b \in Actor \ {l} : op'[b] = op[b]
      /\ handed \subseteq handed' /\ (l = "job" => op[l].event \in handed')
      /\ handed' \subseteq handed \cup {op[l].event}
  BY <1>1, <1>2, FinishStep DEF IInv, TypeOK
<1>4. holds' \in Lock!Holds /\ \A d \in Conn : held'[d] > 0 => held[d] > 0
  BY <1>2, LockTypes, OnlyTakenAdds DEF IInv, TypeOK
<1>5. TypeOK'
  BY <1>1, <1>2, <1>3, <1>4 DEF IInv, TypeOK, traccarVars
<1>6. ActorMoves(l)
  BY <1>1, <1>2, <1>3 DEF ActorMoves
<1>7. SessionsApart' /\ PoolNeverFull'
  BY <1>3, <1>4, FewerWaiters
<1>. QED
  BY <1>1, <1>5, <1>6, <1>7, KeptBy

LEMMA ReadRowInv == ASSUME IInv, NEW a \in Actor, ReadRow(a) PROVE IInv'
<1>. DEFINE step == IF a \in Sweeper THEN "lock" ELSE "persist"
            at   == IF a \in Handler THEN op[a].at ELSE now
            r    == [op[a] EXCEPT !.pc = step, !.copy = row, !.at = at]
<1>1. op[a] \in Op /\ op[a].pc = "row" /\ UNCHANGED <<traccarVars, storeVars, scan, faults, history>>
  BY DEF IInv, TypeOK, ReadRow
<1>2. a \in Handler => op[a].event \in EventId
  BY <1>1 DEF IInv, HandlingsOwnEvents
<1>3. step \in {"lock", "persist"} /\ at \in Time /\ row \in Row
  BY <1>1 DEF IInv, TypeOK, Op
<1>4. op' = [op EXCEPT ![a] = r]
  BY <1>1 DEF ReadRow, IInv, TypeOK
<1>. HIDE DEF step, at
<1>5. r \in Op /\ r.pc \in {"lock", "persist"} /\ r.event = op[a].event
  BY <1>1, <1>3 DEF Op
<1>. HIDE DEF r
<1>6. /\ op' \in [Actor -> Op] /\ op'[a].pc \in {"lock", "persist"} /\ op'[a].event = op[a].event
      /\ \A b \in Actor \ {a} : op'[b] = op[b]
  BY <1>4, <1>5, OpStep DEF IInv, TypeOK
<1>7. TypeOK'
  BY <1>1, <1>6 DEF IInv, TypeOK, traccarVars, storeVars, history
<1>8. ActorMoves(a)
  BY <1>1, <1>2, <1>6 DEF ActorMoves, storeVars, history
<1>. QED
  BY <1>1, <1>6, <1>7, <1>8, KeptBy, SameHolds DEF storeVars

LEMMA PersistInv == ASSUME IInv, NEW a \in Actor, Persist(a) PROVE IInv'
<1>. DEFINE r == [Idle EXCEPT !.pc = AfterPersist(a), !.event = op[a].event]
<1>1. /\ op[a] \in Op /\ op[a].pc = "persist" /\ op[a].event \in 0..MaxEvents
      /\ op[a].copy \in Row /\ op[a].tele \in Telemetry /\ op[a].at \in Time
  BY DEF IInv, TypeOK, Persist, Op
<1>2. /\ op' = [op EXCEPT ![a] = r]
      /\ applied' = IF a \in Handler THEN applied \cup {op[a].event} ELSE applied
      /\ UNCHANGED <<traccarVars, mapped, ledger, cursor, holds, scan, faults, handed, aged>>
  BY DEF Persist
<1>3. row' \in Row
  BY <1>1, EvaluatedTyped DEF Persist, IInv, TypeOK
<1>4. /\ AfterPersist(a) \in {"record", "unlock", "idle"}
      /\ a \in Handler => AfterPersist(a) = "record"
  BY DEF AfterPersist
<1>5. r \in Op /\ r.pc = AfterPersist(a) /\ r.event = op[a].event
  BY <1>1, <1>4, IdleTyped DEF Op
<1>. HIDE DEF r
<1>6. /\ op' \in [Actor -> Op] /\ op'[a].pc = AfterPersist(a) /\ op'[a].event = op[a].event
      /\ \A b \in Actor \ {a} : op'[b] = op[b]
  BY <1>2, <1>5, OpStep DEF IInv, TypeOK
<1>7. a \in Handler => op[a].event \in EventId
  BY <1>1 DEF IInv, HandlingsOwnEvents
<1>8. TypeOK'
  BY <1>2, <1>3, <1>6, <1>7 DEF IInv, TypeOK, traccarVars
<1>9. ActorMoves(a)
  BY <1>1, <1>2, <1>4, <1>6, <1>7, ActorsApart DEF ActorMoves
<1>. QED
  BY <1>2, <1>4, <1>6, <1>8, <1>9, KeptBy, SameHolds

LEMMA ReadDeviceInv == ASSUME IInv, NEW a \in Evaluator, ReadDevice(a) PROVE IInv'
<1>. DEFINE r == [op[a] EXCEPT !.pc = "row", !.tele = device]
<1>1. a \in Actor /\ a \notin Handler /\ a # "job" /\ op[a] \in Op
  BY ActorsApart DEF IInv, TypeOK, Evaluator
<1>2. UNCHANGED <<traccarVars, storeVars, scan, faults, history>> /\ device \in Telemetry
  BY DEF ReadDevice, IInv, TypeOK
<1>3. op' = [op EXCEPT ![a] = r]
  BY <1>1 DEF ReadDevice, IInv, TypeOK
<1>4. r \in Op /\ r.pc = "row"
  BY <1>1, <1>2 DEF Op
<1>. HIDE DEF r
<1>5. op' \in [Actor -> Op] /\ op'[a].pc = "row" /\ \A b \in Actor \ {a} : op'[b] = op[b]
  BY <1>1, <1>3, <1>4, OpStep DEF IInv, TypeOK
<1>6. TypeOK'
  BY <1>2, <1>5 DEF IInv, TypeOK, traccarVars, storeVars, history
<1>7. ActorMoves(a)
  BY <1>1, <1>2, <1>5 DEF ActorMoves, storeVars, history
<1>. QED
  BY <1>1, <1>2, <1>5, <1>6, <1>7, KeptBy, SameHolds DEF storeVars

LEMMA DeliverInv ==
  ASSUME IInv, NEW a \in Slot, NEW e \in 1..count, Deliver(a, e)
  PROVE  IInv'
<1>1. a \in Actor /\ a \in Handler /\ a # "job"
  BY ActorsApart
<1>2. e \in EventId
  BY ConstantsAssumption DEF IInv, TypeOK, EventId
<1>3. ev[e].device \in Telemetry
  BY <1>2 DEF IInv, TypeOK, Event
<1>4. Begin(a, e, ev[e].device) /\ posts' = posts + 1
      /\ UNCHANGED <<now, device, ev, count, storeVars, scan, faults, history>>
  BY DEF Deliver
<1>5. /\ op' \in [Actor -> Op]
      /\ op'[a].pc \in {"lock", "skip"} /\ op'[a].event = e
      /\ \A b \in Actor \ {a} : op'[b] = op[b]
  BY <1>1, <1>2, <1>3, <1>4, BeginStep DEF IInv
<1>6. TypeOK'
  BY <1>4, <1>5 DEF IInv, TypeOK, storeVars, history
<1>7. ActorMoves(a)
  BY <1>1, <1>2, <1>4, <1>5 DEF ActorMoves, storeVars, history
<1>. QED
  BY <1>1, <1>4, <1>5, <1>6, <1>7, KeptBy, SameHolds DEF storeVars

\* A statement of an actor throws.
LEMMA ThrowsInv == ASSUME IInv, NEW a \in Actor, Throws(a) PROVE IInv'
<1>1. op[a] \in Op /\ op[a].event \in 0..MaxEvents
  BY DEF IInv, TypeOK, Op
<1>2. faults' = faults + 1 /\ UNCHANGED <<traccarVars, storeVars, scan, applied, aged>>
  BY DEF Throws, Faulty
<1>3. op[a].pc # "idle"
  BY DEF Throws
<1>4. a \in Handler => op[a].event \in EventId
  BY <1>3 DEF IInv, HandlingsOwnEvents
<1>5. CASE Finish(a)
  <2>1. /\ op' \in [Actor -> Op] /\ op'[a].pc = "idle" /\ \A b \in Actor \ {a} : op'[b] = op[b]
        /\ handed \subseteq handed' /\ (a = "job" => op[a].event \in handed')
        /\ handed' \subseteq handed \cup {op[a].event}
    BY <1>5, FinishStep DEF IInv, TypeOK
  <2>2. TypeOK'
    BY <1>1, <1>2, <2>1 DEF IInv, TypeOK, traccarVars, storeVars
  <2>3. ActorMoves(a)
    BY <1>2, <1>3, <2>1 DEF ActorMoves, storeVars
  <2>. QED
    BY <1>2, <2>1, <2>2, <2>3, KeptBy, SameHolds DEF storeVars
<1>6. ASSUME NEW step \in {"error", "unlock"}, Goto(a, step), UNCHANGED handed PROVE IInv'
  <2>1. /\ op' \in [Actor -> Op] /\ op'[a].pc = step /\ op'[a].event = op[a].event
        /\ \A b \in Actor \ {a} : op'[b] = op[b]
    BY <1>6, GotoStep DEF Step, IInv, TypeOK
  <2>2. TypeOK'
    BY <1>2, <1>6, <2>1 DEF IInv, TypeOK, traccarVars, storeVars
  <2>3. ActorMoves(a)
    BY <1>2, <1>3, <1>4, <1>6, <2>1 DEF ActorMoves, storeVars
  <2>. QED
    BY <1>2, <2>1, <2>2, <2>3, KeptBy, SameHolds DEF storeVars
<1>. QED
  BY <1>5, <1>6 DEF Throws

\* The steps that leave every actor where it is, or end them all.
LEMMA WorldInv ==
  ASSUME IInv,
         \/ \E kind \in Kinds : Happen(kind)
         \/ TimePasses \/ Reassign
         \/ UNCHANGED vars
  PROVE  IInv'
<1>1. UNCHANGED <<op, holds, ledger, applied, handed, aged, scan, cursor>>
  BY DEF Happen, TimePasses, Reassign, storeVars, history, vars
<1>2. TypeOK'
  <2>1. ASSUME NEW kind \in Kinds, Happen(kind) PROVE TypeOK'
    <3>1. After(kind) \in Telemetry /\ now \in Time
      BY AfterTyped DEF IInv, TypeOK
    <3>2. [kind |-> kind, at |-> now, device |-> After(kind)] \in Event
      BY <3>1 DEF Event
    <3>3. /\ device' = After(kind) /\ count' = count + 1 /\ count < MaxEvents
          /\ ev' = [ev EXCEPT ![count + 1] = [kind |-> kind, at |-> now, device |-> After(kind)]]
          /\ UNCHANGED <<now, posts, storeVars, op, scan, faults, history>>
      BY <2>1 DEF Happen
    <3>4. count' \in 0..MaxEvents
      BY <3>3, ConstantsAssumption DEF IInv, TypeOK
    <3>5. ev' \in [EventId -> Event]
      BY <3>2, <3>3 DEF IInv, TypeOK
    <3>. QED
      BY <3>1, <3>3, <3>4, <3>5 DEF IInv, TypeOK, storeVars, history
  <2>2. CASE TimePasses
    BY <2>2, ConstantsAssumption DEF TimePasses, IInv, TypeOK, storeVars, history, Time
  <2>3. CASE Reassign
    BY <2>3 DEF Reassign, Faulty, IInv, TypeOK, traccarVars, history
  <2>4. CASE UNCHANGED vars
    BY <2>4 DEF vars, IInv, TypeOK, traccarVars, storeVars, history
  <2>. QED
    BY <2>1, <2>2, <2>3, <2>4
<1>3. HandlingsOwnEvents' /\ ProcessedMeansPersisted'
  BY <1>1 DEF IInv, HandlingsOwnEvents, ProcessedMeansPersisted
<1>4. ScanInOrder' /\ CursorBehindScan'
  BY <1>1 DEF IInv, ScanInOrder, CursorBehindScan, InHand
<1>5. SessionsApart' /\ PoolNeverFull'
  BY <1>1 DEF IInv, SessionsApart, PoolNeverFull, Connected, Free, held
<1>. QED
  BY <1>2, <1>3, <1>4, <1>5 DEF IInv

LEMMA CloseConnectionInv == ASSUME IInv, NEW c \in Conn, CloseConnection(c) PROVE IInv'
<1>1. /\ holds' = Lock!Closed(holds, "fuel-api", c)
      /\ UNCHANGED <<traccarVars, mapped, row, ledger, cursor, op, scan, faults, history>>
  BY DEF CloseConnection
<1>2. holds' \in Lock!Holds /\ \A d \in Conn : held'[d] > 0 => held[d] > 0
  BY <1>1, LockTypes, OnlyTakenAdds DEF IInv, TypeOK
<1>3. TypeOK'
  BY <1>1, <1>2 DEF IInv, TypeOK, traccarVars, history
<1>4. HandlingsOwnEvents' /\ ProcessedMeansPersisted'
  BY <1>1 DEF IInv, HandlingsOwnEvents, ProcessedMeansPersisted, history
<1>5. ScanInOrder' /\ CursorBehindScan'
  BY <1>1 DEF IInv, ScanInOrder, CursorBehindScan, InHand, history
<1>6. SessionsApart' /\ PoolNeverFull'
  BY <1>1, <1>2, FewerWaiters
<1>. QED
  BY <1>3, <1>4, <1>5, <1>6 DEF IInv

LEMMA CrashInv == ASSUME IInv, Crash PROVE IInv'
<1>1. PICK c \in Conn : TRUE
  BY ConstantsAssumption
<1>2. /\ holds' = Lock!Gone(holds, "fuel-api") /\ faults' = faults + 1
      /\ op' = [a \in Actor |-> Idle] /\ scan' = [on |-> FALSE, todo |-> {}, last |-> 0]
      /\ UNCHANGED <<traccarVars, mapped, row, ledger, cursor, history>>
  BY DEF Crash, Faulty
<1>3. holds' \in Lock!Holds /\ \A d \in Conn : held'[d] > 0 => held[d] > 0
  BY <1>1, <1>2, LockTypes, OnlyTakenAdds DEF IInv, TypeOK
<1>4. \A a \in Actor : op'[a].pc = "idle"
  BY <1>2, IdleTyped
<1>5. op' \in [Actor -> Op]
  BY <1>2, IdleTyped
<1>6. TypeOK'
  BY <1>2, <1>3, <1>5, ConstantsAssumption DEF IInv, TypeOK, traccarVars, history
<1>7. HandlingsOwnEvents' /\ ProcessedMeansPersisted'
  BY <1>2, <1>4, ActorsApart DEF IInv, HandlingsOwnEvents, ProcessedMeansPersisted, history
<1>8. ScanInOrder' /\ CursorBehindScan'
  BY <1>2, <1>4, ActorsApart DEF IInv, ScanInOrder, CursorBehindScan, history
<1>9. SessionsApart' /\ PoolNeverFull'
  BY <1>3, <1>4, FewerWaiters
<1>. QED
  BY <1>6, <1>7, <1>8, <1>9 DEF IInv

-----------------------------------------------------------------------------
(* The job.                                                                *)

\* What a scan fetches is closed downwards, but for what is too old.
LEMMA FetchedFromBelow ==
  ASSUME TypeOK, NEW e \in Fetched, NEW d \in EventId, d < e, Recent(d)
  PROVE  d \in Fetched
<1>. DEFINE Below(x) == {y \in EventId : Recent(y) /\ y < x}
<1>1. e \in EventId /\ Cardinality(Below(e)) < Batch
  BY DEF Fetched
<1>2. Below(d) \subseteq Below(e)
  BY <1>1 DEF EventId
<1>3. IsFiniteSet(EventId)
  <2>1. 1 \in Int /\ MaxEvents \in Int
    BY ConstantsAssumption
  <2>. QED
    BY <2>1, FS_Interval DEF EventId
<1>4. IsFiniteSet(Below(e))
  BY <1>3, FS_Subset
<1>5. Cardinality(Below(d)) <= Cardinality(Below(e))
  BY <1>2, <1>4, FS_Subset
<1>6. Cardinality(Below(d)) \in Nat /\ Cardinality(Below(e)) \in Nat /\ Batch \in Nat
  BY <1>2, <1>4, FS_Subset, FS_CardinalityType, ConstantsAssumption
<1>7. Cardinality(Below(d)) < Batch
  BY <1>1, <1>5, <1>6
<1>. QED
  BY <1>7 DEF Fetched

LEMMA ScanInv == ASSUME IInv, Scan PROVE IInv'
<1>1. /\ ~scan.on /\ scan' = [on |-> TRUE, todo |-> Fetched, last |-> cursor]
      /\ aged' = aged \cup {e \in 1..count : e > cursor /\ ~Recent(e)}
      /\ UNCHANGED <<traccarVars, storeVars, op, faults, applied, handed>>
  BY DEF Scan
<1>2. op["job"].pc = "idle" /\ InHand = {} /\ InHand' = {}
  BY <1>1 DEF IInv, ScanInOrder, InHand
<1>3. Fetched \subseteq EventId /\ \A e \in Fetched : e > cursor /\ e \in 1..count
  BY DEF Fetched, Recent
<1>4. 1..count \subseteq EventId
  BY ConstantsAssumption DEF IInv, TypeOK, EventId
<1>5. TypeOK'
  BY <1>1, <1>3, <1>4 DEF IInv, TypeOK, traccarVars, storeVars
<1>6. HandlingsOwnEvents' /\ ProcessedMeansPersisted'
  BY <1>1 DEF IInv, HandlingsOwnEvents, ProcessedMeansPersisted, storeVars
<1>7. CursorBehindScan'
  BY <1>1 DEF IInv, CursorBehindScan, storeVars
<1>8. ScanInOrder'
  <2>1. \A e \in EventId : e <= cursor => e \in handed' \cup aged' \cup InHand'
    BY <1>1 DEF IInv, CursorBehindScan
  <2>2. ASSUME NEW e \in Fetched, NEW d \in EventId, d > cursor, d < e
        PROVE  d \in Fetched \cup aged'
    <3>1. d \in 1..count
      BY <1>3, <2>2 DEF EventId, IInv, TypeOK
    <3>2. CASE Recent(d)
      BY <2>2, <3>2, FetchedFromBelow DEF IInv
    <3>3. CASE ~Recent(d)
      BY <1>1, <2>2, <3>1, <3>3
    <3>. QED
      BY <3>2, <3>3
  <2>. QED
    BY <1>1, <1>3, <2>1, <2>2 DEF ScanInOrder
<1>9. SessionsApart' /\ PoolNeverFull'
  BY <1>1, FewerWaiters DEF IInv, TypeOK, storeVars, held
<1>. QED
  BY <1>5, <1>6, <1>7, <1>8, <1>9 DEF IInv

LEMMA HandOverInv == ASSUME IInv, NEW e \in EventId, HandOver(e) PROVE IInv'
<1>1. /\ scan.on /\ op["job"].pc = "idle" /\ e \in scan.todo /\ \A d \in scan.todo : e <= d
      /\ Begin("job", e, Implied(e))
      /\ scan' = [scan EXCEPT !.todo = scan.todo \ {e}, !.last = e]
      /\ UNCHANGED <<traccarVars, storeVars, faults, history>>
  BY DEF HandOver, Between
<1>2. /\ op' \in [Actor -> Op]
      /\ op'["job"].pc \in {"lock", "skip"} /\ op'["job"].event = e
      /\ \A b \in Actor \ {"job"} : op'[b] = op[b]
  BY <1>1, BeginStep, ImpliedTyped, ActorsApart DEF IInv
<1>3. InHand = {} /\ InHand' = {e}
  BY <1>1, <1>2 DEF InHand
<1>4. /\ scan \in [on : BOOLEAN, todo : SUBSET EventId, last : 0..MaxEvents]
      /\ scan'.on /\ scan'.todo = scan.todo \ {e} /\ scan'.last = e /\ e \in 0..MaxEvents
      /\ scan' \in [on : BOOLEAN, todo : SUBSET EventId, last : 0..MaxEvents]
  <2>1. scan \in [on : BOOLEAN, todo : SUBSET EventId, last : 0..MaxEvents]
    BY DEF IInv, TypeOK
  <2>2. e \in 0..MaxEvents
    BY ConstantsAssumption DEF EventId
  <2>3. scan.todo \ {e} \in SUBSET EventId
    BY <2>1
  <2>. QED
    BY <1>1, <2>1, <2>2, <2>3
<1>5. TypeOK'
  BY <1>1, <1>2, <1>4 DEF IInv, TypeOK, traccarVars, storeVars, history
<1>6. HandlingsOwnEvents' /\ ProcessedMeansPersisted'
  BY <1>1, <1>2, ActorsApart DEF IInv, HandlingsOwnEvents, ProcessedMeansPersisted, storeVars, history
<1>7. CursorBehindScan'
  BY <1>1 DEF IInv, CursorBehindScan, storeVars, history
<1>8. UNCHANGED <<handed, aged>>
  BY <1>1 DEF history
<1>9. /\ \A d \in EventId : d <= scan.last => d \in handed \cup aged
      /\ \A d \in scan.todo : d > scan.last
      /\ \A f \in scan.todo : \A d \in EventId : d > scan.last /\ d < f => d \in scan.todo \cup aged
  BY <1>1, <1>3 DEF IInv, ScanInOrder
<1>10. ScanInOrder'
  <2>1. ASSUME NEW d \in EventId, d <= e PROVE d \in handed \cup aged \cup {e}
    <3>1. CASE d <= scan.last
      BY <1>9, <3>1
    <3>2. CASE d = e
      BY <3>2
    <3>3. scan.last \in Int /\ e \in Int /\ d \in Int
      BY <1>4 DEF EventId
    <3>4. CASE d > scan.last /\ d < e
      <4>1. d \in scan.todo \cup aged
        BY <1>1, <1>9, <3>4
      <4>2. d \notin scan.todo
        BY <1>1, <3>3, <3>4
      <4>. QED
        BY <4>1, <4>2
    <3>. QED
      BY <2>1, <3>1, <3>2, <3>3, <3>4
  <2>2. \A d \in scan.todo \ {e} : d > e
    BY <1>1, <1>4 DEF EventId
  <2>3. ASSUME NEW f \in scan.todo \ {e}, NEW d \in EventId, d > e, d < f
        PROVE  d \in (scan.todo \ {e}) \cup aged
    <3>1. d > scan.last /\ d # e
      BY <1>1, <1>4, <1>9, <2>3 DEF EventId
    <3>. QED
      BY <1>9, <2>3, <3>1
  <2>. QED
    BY <1>3, <1>4, <1>8, <2>1, <2>2, <2>3 DEF ScanInOrder
<1>11. SessionsApart' /\ PoolNeverFull'
  BY <1>1, <1>2, ActorsApart, SameHolds DEF storeVars
<1>. QED
  BY <1>5, <1>6, <1>7, <1>10, <1>11 DEF IInv

\* The scan ends, with or without its cursor.
LEMMA ScanEndInv == ASSUME IInv, SaveCursor \/ ScanThrows PROVE IInv'
<1>1. /\ scan.on /\ op["job"].pc = "idle" /\ scan.todo = {}
      /\ scan' = [scan EXCEPT !.on = FALSE]
      /\ cursor' = scan.last \/ cursor' = cursor
      /\ faults' = faults \/ faults' = faults + 1
      /\ UNCHANGED <<traccarVars, mapped, row, ledger, holds, op, history>>
  BY DEF SaveCursor, ScanThrows, Between, Faulty, storeVars
<1>2. TypeOK'
  <2>1. scan \in [on : BOOLEAN, todo : SUBSET EventId, last : 0..MaxEvents] /\ cursor \in 0..MaxEvents
    BY DEF IInv, TypeOK
  <2>2. scan' \in [on : BOOLEAN, todo : SUBSET EventId, last : 0..MaxEvents]
    BY <1>1, <2>1
  <2>3. cursor' \in 0..MaxEvents
    BY <1>1, <2>1
  <2>4. faults' \in Nat
    BY <1>1 DEF IInv, TypeOK
  <2>. QED
    BY <1>1, <2>2, <2>3, <2>4 DEF IInv, TypeOK, traccarVars, history
<1>3. HandlingsOwnEvents' /\ ProcessedMeansPersisted'
  BY <1>1 DEF IInv, HandlingsOwnEvents, ProcessedMeansPersisted, history
<1>4. \A e \in EventId : e <= scan.last => e \in handed \cup aged
  BY <1>1 DEF IInv, ScanInOrder, InHand
<1>5. CursorBehindScan'
  BY <1>1, <1>4 DEF IInv, CursorBehindScan, history
<1>6. ScanInOrder'
  BY <1>1 DEF IInv, TypeOK, ScanInOrder
<1>7. SessionsApart' /\ PoolNeverFull'
  BY <1>1 DEF IInv, SessionsApart, PoolNeverFull, Connected, Free, held
<1>. QED
  BY <1>2, <1>3, <1>5, <1>6, <1>7 DEF IInv

-----------------------------------------------------------------------------
(* The theorems.                                                           *)

LEMMA NextInv == IInv /\ [Next]_vars => IInv'
<1>. SUFFICES ASSUME IInv, [Next]_vars PROVE IInv'
  OBVIOUS
<1>1. ASSUME NEW a \in Actor, Continue(a) PROVE IInv'
  BY <1>1, HandlerSteps, GetLockInv, TakeLockInv, UnlockInv, ReadRowInv, PersistInv DEF Continue
<1>2. CASE Job
  BY <1>2, ScanInv, ScanEndInv, HandOverInv DEF Job
<1>. QED
  BY <1>1, <1>2, WorldInv, ScanEndInv, CrashInv, DeliverInv, ReadDeviceInv, ThrowsInv,
     CloseConnectionInv, ActorsApart DEF Next, Evaluator, Actor, Locker

\* Handlings own their events, the scan works off an unbroken interval of ids,
\* one session holds the vehicle lock and nobody waits on its connection.
THEOREM Invariance == Spec => []IInv
  BY InitInv, NextInv, PTL DEF Spec

\* Every variable keeps its type.
THEOREM TypeCorrect == Spec => []TypeOK
<1>1. IInv => TypeOK
  BY DEF IInv
<1>. QED
  BY <1>1, Invariance, PTL

\* "processed" in the ledger means persisted, whatever fails or overlaps.
THEOREM LedgerIsTrue == Spec => []ProcessedMeansPersisted
<1>1. IInv => ProcessedMeansPersisted
  BY DEF IInv
<1>. QED
  BY <1>1, Invariance, PTL

\* The job's cursor leaves nothing behind but what was too old for its lookback.
THEOREM CursorLeavesNothing == Spec => []CursorBehindScan
<1>1. IInv => CursorBehindScan
  BY DEF IInv
<1>. QED
  BY <1>1, Invariance, PTL

\* Those who wait for the lock of one vehicle never block the whole pool.
THEOREM OneConnectionLeft == Spec => []PoolNeverFull
<1>1. IInv => PoolNeverFull
  BY DEF IInv
<1>. QED
  BY <1>1, Invariance, PTL

=============================================================================
