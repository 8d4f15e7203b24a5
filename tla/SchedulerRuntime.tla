-------------------------- MODULE SchedulerRuntime --------------------------
(***************************************************************************)
(* runIntervalJob, the loop every background job of fuel-api runs in, for  *)
(* one job that names a lock key: at each interval a replica takes the     *)
(* key's advisory lock, runs the task if it got it, and gives it back.     *)
(* The three statements go through the connection pool, so the lock may be *)
(* taken on one connection and given back on another, and the pool may     *)
(* close the connection that holds it while the task still runs.           *)
(***************************************************************************)
EXTENDS Naturals

CONSTANTS
  Replica,   \* fuel-api processes running the job
  Conn,      \* the connections of one process's pool (pool.max)
  MaxHolds,  \* bound: how often one session may hold the lock
  MaxFaults  \* bound: how many failed queries and restarts happen

ASSUME JobAssumption == Conn # {} /\ MaxHolds \in Nat /\ MaxFaults \in Nat

VARIABLES
  holds,    \* the lock, per replica and connection (AdvisoryLock)
  pc,       \* per replica: tickInFlight, and where the tick is
  lockConn, \* per replica: the connection its tick took the lock on (history)
  severed,  \* per replica: was that connection closed since? (history)
  faults    \* failed queries and restarts so far

jobVars == <<holds, pc, lockConn, severed, faults>>

Lock == INSTANCE AdvisoryLock WITH Process <- Replica

JobInit ==
  /\ holds = Lock!Unheld
  /\ pc = [r \in Replica |-> "idle"]
  /\ lockConn = [r \in Replica |-> CHOOSE c \in Conn : TRUE]
  /\ severed = [r \in Replica |-> FALSE]
  /\ faults = 0

Goto(r, step) == pc' = [pc EXCEPT ![r] = step]

Faulty == faults < MaxFaults /\ faults' = faults + 1

-----------------------------------------------------------------------------
\* The timer fires and no tick of this process is in flight.
StartTick(r) ==
  /\ pc[r] = "idle"
  /\ Goto(r, "acquire")
  /\ UNCHANGED <<holds, lockConn, severed, faults>>

\* Mutant: the task runs whether or not the lock was got.
AcquireOrRunAnyway(r, c) ==
  /\ pc[r] = "acquire"
  /\ Goto(r, "task")
  /\ holds' = IF Lock!CanTake(holds, r, c) THEN Lock!Taken(holds, r, c) ELSE holds
  /\ lockConn' = [lockConn EXCEPT ![r] = c]
  /\ severed' = [severed EXCEPT ![r] = FALSE]
  /\ UNCHANGED faults

\* Mutant: a skipped tick leaves tickInFlight set.
AcquireOrHang(r, c) ==
  /\ pc[r] = "acquire"
  /\ IF Lock!CanTake(holds, r, c)
     THEN /\ holds' = Lock!Taken(holds, r, c)
          /\ lockConn' = [lockConn EXCEPT ![r] = c]
          /\ severed' = [severed EXCEPT ![r] = FALSE]
          /\ Goto(r, "task")
     ELSE Goto(r, "hung") /\ UNCHANGED <<holds, lockConn, severed>>
  /\ UNCHANGED faults

\* tryAcquireAdvisoryLock on a free connection; a tick that does not get the
\* lock is over.
Acquire(r, c) ==
  /\ pc[r] = "acquire"
  /\ IF Lock!CanTake(holds, r, c)
     THEN /\ holds[r][c] < MaxHolds
          /\ holds' = Lock!Taken(holds, r, c)
          /\ lockConn' = [lockConn EXCEPT ![r] = c]
          /\ severed' = [severed EXCEPT ![r] = FALSE]
          /\ Goto(r, "task")
     ELSE Goto(r, "idle") /\ UNCHANGED <<holds, lockConn, severed>>
  /\ UNCHANGED faults

\* The task returned or threw: either way the finally block follows.
EndTask(r) ==
  /\ pc[r] = "task"
  /\ Goto(r, "release")
  /\ UNCHANGED <<holds, lockConn, severed, faults>>

\* releaseAdvisoryLock on a free connection, whichever that is.
Release(r, c) ==
  /\ pc[r] = "release"
  /\ holds' = Lock!GivenBack(holds, r, c)
  /\ Goto(r, "idle")
  /\ UNCHANGED <<lockConn, severed, faults>>

\* The lock query or the unlock query throws: caught, and the tick is over.
QueryThrows(r) ==
  /\ pc[r] \in {"acquire", "release"} /\ Faulty
  /\ Goto(r, "idle")
  /\ UNCHANGED <<holds, lockConn, severed>>

\* The pool closes a connection that was idle (pool.idle), or it breaks.
CloseConnection(r, c) ==
  /\ holds[r][c] > 0
  /\ holds' = Lock!Closed(holds, r, c)
  /\ severed' = [severed EXCEPT ![r] = @ \/ (pc[r] \in {"task", "release"} /\ c = lockConn[r])]
  /\ UNCHANGED <<pc, lockConn, faults>>

\* The process is killed and starts again.
Restart(r) ==
  /\ Faulty
  /\ holds' = Lock!Gone(holds, r)
  /\ Goto(r, "idle")
  /\ UNCHANGED <<lockConn, severed>>

-----------------------------------------------------------------------------
JobTick(r) ==
  \/ StartTick(r) \/ EndTask(r) \/ QueryThrows(r)
  \/ \E c \in Conn : Acquire(r, c) \/ Release(r, c)

JobNext ==
  \E r \in Replica :
    \/ JobTick(r) \/ Restart(r)
    \/ \E c \in Conn : CloseConnection(r, c)

JobSpec == JobInit /\ [][JobNext]_jobVars

\* The interval timer fires again and again, every task settles, and a quiet
\* pool closes its connections after pool.idle.
FairJobSpec ==
  /\ JobSpec
  /\ \A r \in Replica : WF_jobVars(JobTick(r))
  /\ \A r \in Replica, c \in Conn : WF_jobVars(CloseConnection(r, c))

-----------------------------------------------------------------------------
JobTypeOK ==
  /\ holds \in Lock!Holds
  /\ pc \in [Replica -> {"idle", "acquire", "task", "release"}]
  /\ lockConn \in [Replica -> Conn]
  /\ severed \in [Replica -> BOOLEAN]
  /\ faults \in Nat

\* Two replicas run the task at once only if the pool of one of them closed the
\* connection its lock was on in the middle of the tick: whatever connections
\* locks were leaked on, and wherever they were given back, the lock excludes.
TasksExclude ==
  \A r, s \in Replica :
    pc[r] = "task" /\ pc[s] = "task" /\ r # s => severed[r] \/ severed[s]

\* As long as connections that hold a leaked lock do get closed, the job runs
\* again and again on some replica.
JobKeepsRunning == []<>(\E r \in Replica : pc[r] = "task")

\* What makes the lock exclude: one session holds it, and a tick whose
\* connection is still open holds it on that connection.
OneSession ==
  \A r, s \in Replica : \A c, d \in Conn :
    holds[r][c] > 0 /\ holds[s][d] > 0 => r = s /\ c = d

TickHoldsLock ==
  \A r \in Replica :
    pc[r] \in {"task", "release"} /\ ~severed[r] => holds[r][lockConn[r]] > 0

JobInv == JobTypeOK /\ OneSession /\ TickHoldsLock

-----------------------------------------------------------------------------
(* What the documentation says; SchedulerExcludeDoc.cfg refutes it.        *)

\* jobs/schedulerRuntime.js:30: a lockKey is for "cross-process locking".
LockedTasksExclude ==
  \A r, s \in Replica : pc[r] = "task" /\ pc[s] = "task" => r = s

=============================================================================
