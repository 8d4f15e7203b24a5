---------------------------- MODULE AdvisoryLock ----------------------------
(***************************************************************************)
(* A Postgres session-level advisory lock as fuel-api meets it: every      *)
(* statement is sent through the Sequelize pool of its process, over       *)
(* whichever connection is free, and the lock belongs to the connection    *)
(* (the session), not to the process.  A session that holds the lock takes *)
(* it again at once and must give it back as often; giving it back from    *)
(* another session is a warning and does nothing; a closed session holds   *)
(* nothing.  One key; `holds' counts, per process and connection, how      *)
(* often the session holds it.                                             *)
(***************************************************************************)
EXTENDS Naturals

CONSTANTS Process, Conn

Holds == [Process -> [Conn -> Nat]]

Unheld == [p \in Process |-> [c \in Conn |-> 0]]

\* No session other than connection c of process p holds the lock.
CanTake(holds, p, c) ==
  \A q \in Process, d \in Conn : holds[q][d] > 0 => q = p /\ d = c

\* pg_try_advisory_lock returned true.
Taken(holds, p, c) == [holds EXCEPT ![p][c] = @ + 1]

\* pg_advisory_unlock.
GivenBack(holds, p, c) == IF holds[p][c] > 0 THEN [holds EXCEPT ![p][c] = @ - 1] ELSE holds

\* The session ended: the pool closed the connection, or it broke.
Closed(holds, p, c) == [holds EXCEPT ![p][c] = 0]

\* The process ended, and all its sessions with it.
Gone(holds, p) == [holds EXCEPT ![p] = [c \in Conn |-> 0]]

=============================================================================
