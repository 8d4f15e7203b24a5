----------------------------- MODULE JobProofs -----------------------------
(***************************************************************************)
(* Proofs about two parts of the background jobs.  The acknowledgement     *)
(* probe: what it may and may not attribute, for any number of intents,    *)
(* probers and events and any windows.  The loop that runs the jobs: whom  *)
(* its advisory lock excludes, for any number of replicas and connections. *)
(***************************************************************************)
EXTENDS AckProbe, SchedulerRuntime, TLAPS

-----------------------------------------------------------------------------
(* The acknowledgement probe.                                              *)

\* An intent has a delivery time once it is recorded, and none before.
Stamped(i) ==
  /\ cmd[i].at <= now
  /\ cmd[i].at = -1 <=> cmd[i].stage \in {"none", "posted", "lost"}

\* Intent i was delivered, and event k came after that.
Follows(i, k) == cmd[i].at # -1 /\ cmd[i].at <= results[k].at

\* Every other delivery is recorded outside of the time from i's to event k, or
\* was not recorded when this was looked up.
Cleared(i, k) ==
  \A j \in Intent \ {i} :
    \/ j \in unrecorded[i]
    \/ cmd[j].at # -1 /\ (cmd[j].at <= cmd[i].at \/ results[k].at < cmd[j].at)

\* A prober has read events after the delivery, and checked the one it claims.
ProbeSound(p) ==
  \A k \in probe[p].todo :
    /\ probe[p].intent \in Intent /\ Follows(probe[p].intent, k)
    /\ probe[p].pc = "claim" => Cleared(probe[p].intent, k)

ClaimSound(i) == claimed[i] # None => Follows(i, claimed[i]) /\ Cleared(i, claimed[i])

IInv ==
  /\ TypeOK
  /\ \A k \in DOMAIN results : results[k].at <= now
  /\ \A i \in Intent : Stamped(i) /\ ClaimSound(i)
  /\ \A p \in Prober : ProbeSound(p)

-----------------------------------------------------------------------------
LEMMA InitIInv == Init => IInv
<1> SUFFICES ASSUME Init PROVE IInv
  OBVIOUS
<1>1. TypeOK
  BY ConstantsAssumption DEF Init, TypeOK, Idle, None, Command, Stage, Intent
<1>2. \A k \in DOMAIN results : results[k].at <= now
  BY DEF Init
<1>3. \A i \in Intent : Stamped(i) /\ ClaimSound(i)
  BY DEF Init, Stamped, ClaimSound, None
<1>4. \A p \in Prober : ProbeSound(p)
  BY DEF Init, ProbeSound, Idle
<1> QED BY <1>1, <1>2, <1>3, <1>4 DEF IInv

\* A delivery time that is known never changes, and events and what was noted
\* of the unrecorded stay: so what a prober has found out stays true.
Grows ==
  /\ \A i \in Intent : cmd[i].at # -1 => cmd'[i].at = cmd[i].at
  /\ \A i \in Intent : unrecorded[i] \subseteq unrecorded'[i]
  /\ DOMAIN results \subseteq DOMAIN results'
  /\ \A k \in DOMAIN results : results'[k] = results[k]

LEMMA FindingsStay ==
  ASSUME Grows, NEW i \in Intent, NEW k \in DOMAIN results
  PROVE  /\ Follows(i, k) => Follows(i, k)'
         /\ Follows(i, k) /\ Cleared(i, k) => Cleared(i, k)'
BY DEF Grows, Follows, Cleared

LEMMA ClaimsStay ==
  ASSUME IInv, Grows, NEW i \in Intent, claimed'[i] = claimed[i]
  PROVE  ClaimSound(i)'
<1> SUFFICES ASSUME claimed[i] # None
             PROVE  Follows(i, claimed[i])' /\ Cleared(i, claimed[i])'
  BY DEF ClaimSound
<1>1. PICK k \in DOMAIN results : k = claimed[i]
  BY DEF IInv, TypeOK
<1>2. Follows(i, k) /\ Cleared(i, k)
  BY <1>1 DEF IInv, ClaimSound
<1>3. Follows(i, k)' /\ Cleared(i, k)'
  BY <1>2, FindingsStay
<1> QED BY <1>1, <1>3 DEF Follows, Cleared

LEMMA ProberStays ==
  ASSUME IInv, Grows, NEW p \in Prober, probe'[p] = probe[p]
  PROVE  ProbeSound(p)'
<1> SUFFICES ASSUME NEW k \in probe[p].todo
             PROVE  /\ probe[p].intent \in Intent /\ Follows(probe[p].intent, k)'
                    /\ probe[p].pc = "claim" => Cleared(probe[p].intent, k)'
  BY DEF ProbeSound, Follows, Cleared
<1>1. k \in DOMAIN results
  BY DEF IInv, TypeOK
<1> QED BY <1>1, FindingsStay DEF IInv, ProbeSound

\* A step that grows what is known keeps the invariant, if the types, the times
\* and the claims and findings it makes itself are right.
LEMMA Assemble ==
  ASSUME IInv, Grows, TypeOK',
         \A k \in DOMAIN results' : results'[k].at <= now',
         \A i \in Intent : Stamped(i)',
         \A i \in Intent : claimed'[i] = claimed[i] \/ ClaimSound(i)',
         \A p \in Prober : probe'[p] = probe[p] \/ ProbeSound(p)'
  PROVE  IInv'
<1>1. \A i \in Intent : ClaimSound(i)'
  BY ClaimsStay
<1>2. \A p \in Prober : ProbeSound(p)'
  BY ProberStays
<1> QED BY <1>1, <1>2 DEF IInv

LEMMA TickStep == ASSUME IInv, Tick PROVE IInv'
<1> USE DEF Tick, history
<1>1. TypeOK'
  BY ConstantsAssumption DEF IInv, TypeOK
<1>2. Grows
  BY DEF Grows
<1>3. \A i \in Intent : Stamped(i)'
  BY DEF IInv, TypeOK, Stamped, Command
<1>4. \A k \in DOMAIN results : results[k].at \in 0..MaxTime
  <2>1. results \in Seq(Result)
    BY DEF IInv, TypeOK
  <2>2. \A k \in DOMAIN results : results[k] \in Result
    BY <2>1
  <2> QED BY <2>2 DEF Result
<1>5. \A k \in DOMAIN results' : results'[k].at <= now'
  BY <1>4, ConstantsAssumption DEF IInv, TypeOK
<1> QED BY <1>1, <1>2, <1>3, <1>5, Assemble

\* Post, Record and Lose: row i changes, and its delivery time only from none.
LEMMA RowStep ==
  ASSUME IInv, NEW i \in Intent, Post(i) \/ Record(i) \/ Lose(i)
  PROVE  IInv'
<1> USE DEF Post, Record, Lose, history
<1>1. cmd \in [Intent -> Command] /\ now \in 0..MaxTime /\ Stamped(i)
  BY DEF IInv, TypeOK
<1>2. UNCHANGED <<now, results, probe, claimed, unrecorded>>
  OBVIOUS
<1>3. cmd[i].at = -1
  BY <1>1 DEF Stamped
<1>4. /\ cmd' \in [Intent -> Command] /\ Stamped(i)'
      /\ \A j \in Intent \ {i} : cmd'[j] = cmd[j]
  BY <1>1, <1>2, <1>3, ConstantsAssumption DEF Stamped, Command, Stage
<1> HIDE DEF Post, Record, Lose
<1>5. TypeOK'
  BY <1>2, <1>4 DEF IInv, TypeOK
<1>6. Grows
  BY <1>2, <1>3, <1>4 DEF Grows
<1>7. \A j \in Intent : Stamped(j)'
  BY <1>2, <1>4 DEF IInv, Stamped
<1> QED BY <1>2, <1>5, <1>6, <1>7, Assemble DEF IInv

LEMMA AnswerStep ==
  ASSUME IInv, NEW of \in Intent \cup {None}, Answer(of)
  PROVE  IInv'
<1> USE DEF Answer, history
<1>1. PICK ack \in BOOLEAN : results' = Append(results, [at |-> now, ack |-> ack, of |-> of])
  OBVIOUS
<1> DEFINE r == [at |-> now, ack |-> ack, of |-> of]
<1>2. r \in Result /\ r.at = now
  BY DEF Result, IInv, TypeOK
<1>3. results' = Append(results, r)
  BY <1>1
<1> HIDE DEF r
<1>4. /\ results' \in Seq(Result) /\ DOMAIN results' = 1..(Len(results) + 1)
      /\ DOMAIN results = 1..Len(results) /\ Len(results) \in Nat
      /\ \A k \in DOMAIN results : results'[k] = results[k]
      /\ results'[Len(results) + 1] = r
  BY <1>2, <1>3 DEF IInv, TypeOK
<1>5. DOMAIN results \subseteq DOMAIN results'
  BY <1>4
<1>6. TypeOK'
  BY <1>4, <1>5 DEF IInv, TypeOK
<1>7. Grows
  BY <1>4, <1>5 DEF Grows
<1>8. \A k \in DOMAIN results' : results'[k].at <= now'
  BY <1>2, <1>4 DEF IInv, TypeOK
<1>9. \A i \in Intent : Stamped(i)'
  BY DEF IInv, Stamped
<1> QED BY <1>6, <1>7, <1>8, <1>9, Assemble

LEMMA ProbeStep ==
  ASSUME IInv, NEW p \in Prober, NEW i \in Intent, Probe(p, i)
  PROVE  IInv'
<1> USE DEF Probe, history
<1>1. /\ probe \in [Prober -> [pc : {"idle", "check", "claim"},
                     intent : Intent \cup {None}, todo : SUBSET DOMAIN results]]
      /\ cmd[i].stage = "sent" /\ Stamped(i)
  BY DEF IInv, TypeOK
<1> DEFINE o == [pc |-> "check", intent |-> i, todo |-> Plausible(i)]
<1>2. \A k \in Plausible(i) : k \in DOMAIN results /\ Follows(i, k)
  BY <1>1 DEF Plausible, Newest, Follows, Stamped
<1>3. /\ o \in [pc : {"idle", "check", "claim"}, intent : Intent \cup {None},
                todo : SUBSET DOMAIN results]
      /\ o.pc = "check" /\ o.intent = i /\ o.todo = Plausible(i)
  BY <1>2
<1>4. probe' = [probe EXCEPT ![p] = o]
  OBVIOUS
<1> HIDE DEF o
<1>5. /\ probe'[p] = o /\ \A q \in Prober \ {p} : probe'[q] = probe[q]
      /\ probe' \in [Prober -> [pc : {"idle", "check", "claim"},
                      intent : Intent \cup {None}, todo : SUBSET DOMAIN results]]
  BY <1>1, <1>3, <1>4
<1>6. UNCHANGED <<now, cmd, results, claimed, unrecorded>>
  OBVIOUS
<1> HIDE DEF Probe
<1>7. TypeOK'
  BY <1>5, <1>6 DEF IInv, TypeOK
<1>8. Grows
  BY <1>6 DEF Grows
<1>9. ProbeSound(p)'
  BY <1>2, <1>3, <1>5, <1>6 DEF ProbeSound, Follows
<1>10. \A j \in Intent : Stamped(j)'
  BY <1>6 DEF IInv, Stamped
<1> QED BY <1>5, <1>6, <1>7, <1>8, <1>9, <1>10, Assemble DEF IInv

\* A candidate is dropped: what is left was found out before.
LEMMA DropStep ==
  ASSUME IInv, NEW p \in Prober, NEW k \in DOMAIN results,
         probe' = [probe EXCEPT ![p] = Without(@, k)],
         UNCHANGED <<now, cmd, results, claimed, unrecorded>>
  PROVE  IInv'
<1> DEFINE o == Without(probe[p], k)
<1>1. probe \in [Prober -> [pc : {"idle", "check", "claim"},
                  intent : Intent \cup {None}, todo : SUBSET DOMAIN results]]
  BY DEF IInv, TypeOK
<1>2. /\ o \in [pc : {"idle", "check", "claim"}, intent : Intent \cup {None},
                todo : SUBSET DOMAIN results]
      /\ o = Idle \/ (o.pc = probe[p].pc /\ o.intent = probe[p].intent
                      /\ o.todo \subseteq probe[p].todo)
  BY <1>1 DEF Without, Idle
<1>3. probe' = [probe EXCEPT ![p] = o]
  OBVIOUS
<1> HIDE DEF o
<1>4. /\ probe'[p] = o /\ \A q \in Prober \ {p} : probe'[q] = probe[q]
      /\ probe' \in [Prober -> [pc : {"idle", "check", "claim"},
                      intent : Intent \cup {None}, todo : SUBSET DOMAIN results]]
  BY <1>1, <1>2, <1>3
<1>5. TypeOK'
  BY <1>4 DEF IInv, TypeOK
<1>6. Grows
  BY DEF Grows
<1>7. ProbeSound(p)'
  BY <1>2, <1>4 DEF IInv, ProbeSound, Follows, Cleared, Idle
<1>8. \A j \in Intent : Stamped(j)'
  BY DEF IInv, Stamped
<1> QED BY <1>4, <1>5, <1>6, <1>7, <1>8, Assemble DEF IInv

LEMMA CheckRivalsStep ==
  ASSUME IInv, NEW p \in Prober, NEW k \in DOMAIN results, CheckRivals(p, k)
  PROVE  IInv'
<1> USE DEF CheckRivals, IsNext
<1>0. PICK i \in Intent : i = probe[p].intent
  BY DEF IInv, ProbeSound
<1> DEFINE o == [pc |-> "claim", intent |-> i, todo |-> {k}]
<1>1. /\ probe \in [Prober -> [pc : {"idle", "check", "claim"},
                     intent : Intent \cup {None}, todo : SUBSET DOMAIN results]]
      /\ cmd \in [Intent -> Command] /\ unrecorded \in [Intent -> SUBSET Intent]
      /\ Follows(i, k)
  BY <1>0 DEF IInv, TypeOK, ProbeSound
<1>2. CASE Competing(i, results[k].at) # {}
  BY <1>0, <1>2, DropStep
<1>3. CASE Competing(i, results[k].at) = {}
  <2>1. /\ UNCHANGED <<now, cmd, results, claimed>>
        /\ unrecorded' = [unrecorded EXCEPT ![i] =
                            unrecorded[i] \cup {j \in Intent : cmd[j].at = -1}]
    BY <1>0, <1>3
  <2>2. probe' = [probe EXCEPT ![p] = o]
    BY <1>0, <1>3
  <2>3. /\ o \in [pc : {"idle", "check", "claim"}, intent : Intent \cup {None},
                  todo : SUBSET DOMAIN results]
        /\ o.pc = "claim" /\ o.intent = i /\ o.todo = {k}
    BY <1>1
  <2> HIDE DEF o, CheckRivals
  <2>4. /\ probe'[p] = o /\ \A q \in Prober \ {p} : probe'[q] = probe[q]
        /\ probe' \in [Prober -> [pc : {"idle", "check", "claim"},
                        intent : Intent \cup {None}, todo : SUBSET DOMAIN results]]
    BY <1>1, <2>2, <2>3
  <2>5. /\ unrecorded' \in [Intent -> SUBSET Intent]
        /\ \A j \in Intent : unrecorded[j] \subseteq unrecorded'[j]
        /\ {j \in Intent : cmd[j].at = -1} \subseteq unrecorded'[i]
    BY <1>1, <2>1
  <2>6. TypeOK'
    BY <2>1, <2>4, <2>5 DEF IInv, TypeOK
  <2>7. Grows
    BY <2>1, <2>5 DEF Grows
  <2>8. Cleared(i, k)'
    <3> SUFFICES ASSUME NEW j \in Intent \ {i}, cmd[j].at # -1
                 PROVE  cmd[j].at <= cmd[i].at \/ results[k].at < cmd[j].at
      BY <2>1, <2>5 DEF Cleared
    <3>1. cmd[i].at < cmd[j].at => ~(cmd[j].at <= results[k].at)
      BY <1>3 DEF Competing
    <3>2. cmd[i].at \in Int /\ cmd[j].at \in Int
      BY <1>1, ConstantsAssumption DEF Command
    <3>3. results[k].at \in Int
      <4>1. results \in Seq(Result)
        BY DEF IInv, TypeOK
      <4>2. results[k] \in Result
        BY <4>1
      <4> QED BY <4>2 DEF Result
    <3> QED BY <3>1, <3>2, <3>3
  <2>9. ProbeSound(p)'
    BY <1>1, <2>1, <2>3, <2>4, <2>8 DEF ProbeSound, Follows
  <2>10. \A j \in Intent : Stamped(j)'
    BY <2>1 DEF IInv, Stamped
  <2> QED BY <2>1, <2>4, <2>6, <2>7, <2>9, <2>10, Assemble DEF IInv
<1> QED BY <1>2, <1>3

LEMMA ClaimStep ==
  ASSUME IInv, NEW p \in Prober, NEW k \in DOMAIN results, Claim(p, k)
  PROVE  IInv'
<1> USE DEF Claim
<1>0. PICK i \in Intent : i = probe[p].intent
  BY DEF IInv, ProbeSound
<1>1. /\ probe \in [Prober -> [pc : {"idle", "check", "claim"},
                     intent : Intent \cup {None}, todo : SUBSET DOMAIN results]]
      /\ cmd \in [Intent -> Command]
      /\ claimed \in [Intent -> {None} \cup DOMAIN results]
      /\ Follows(i, k) /\ Cleared(i, k)
  BY <1>0 DEF IInv, TypeOK, ProbeSound
<1>2. /\ UNCHANGED <<now, results, unrecorded>>
      /\ probe' = [probe EXCEPT ![p] = Idle]
  OBVIOUS
<1>3. /\ cmd' \in [Intent -> Command]
      /\ \A j \in Intent : cmd'[j].at = cmd[j].at
      /\ \A j \in Intent \ {i} : cmd'[j] = cmd[j]
      /\ cmd'[i] = cmd[i] \/ (cmd[i].stage = "sent" /\ cmd'[i].stage = "relay_reported")
  <2>1. CASE cmd[i].stage = "sent"
    <3> DEFINE c == [stage |-> "relay_reported", at |-> cmd[i].at]
    <3>1. c \in Command /\ c.at = cmd[i].at /\ c.stage = "relay_reported"
      BY <1>1 DEF Command, Stage
    <3>2. [cmd[i] EXCEPT !.stage = "relay_reported"] = c
      BY <1>1 DEF Command
    <3>3. cmd' = [cmd EXCEPT ![i] = c]
      BY <1>0, <2>1, <3>2
    <3> HIDE DEF c
    <3> QED BY <1>1, <2>1, <3>1, <3>3
  <2>2. CASE cmd[i].stage # "sent"
    BY <1>0, <1>1, <2>2
  <2> QED BY <2>1, <2>2
<1>4. /\ claimed' \in [Intent -> {None} \cup DOMAIN results]
      /\ \A j \in Intent \ {i} : claimed'[j] = claimed[j]
      /\ claimed'[i] = claimed[i] \/ claimed'[i] = k
  BY <1>0, <1>1
<1> HIDE DEF Claim
<1>5. /\ probe' \in [Prober -> [pc : {"idle", "check", "claim"},
                      intent : Intent \cup {None}, todo : SUBSET DOMAIN results]]
      /\ probe'[p] = Idle /\ \A q \in Prober \ {p} : probe'[q] = probe[q]
  <2>1. Idle \in [pc : {"idle", "check", "claim"}, intent : Intent \cup {None},
                  todo : SUBSET DOMAIN results]
    BY DEF Idle
  <2> QED BY <1>1, <1>2, <2>1
<1>6. TypeOK'
  BY <1>2, <1>3, <1>4, <1>5 DEF IInv, TypeOK
<1>7. Grows
  BY <1>2, <1>3 DEF Grows
<1>8. \A j \in Intent : Stamped(j)'
  BY <1>1, <1>2, <1>3 DEF IInv, Stamped
<1>9. Follows(i, k)' /\ Cleared(i, k)'
  BY <1>1, <1>7, FindingsStay
<1>10. \A j \in Intent : claimed'[j] = claimed[j] \/ ClaimSound(j)'
  BY <1>4, <1>9 DEF ClaimSound, Follows, Cleared
<1>11. ProbeSound(p)'
  BY <1>5 DEF ProbeSound, Idle
<1> QED BY <1>2, <1>5, <1>6, <1>7, <1>8, <1>10, <1>11, Assemble DEF IInv

-----------------------------------------------------------------------------
LEMMA NextStep == IInv /\ [Next]_vars => IInv'
<1> SUFFICES ASSUME IInv, [Next]_vars PROVE IInv'
  OBVIOUS
<1>1. CASE Tick
  BY <1>1, TickStep
<1>2. CASE \E i \in Intent : Post(i) \/ Record(i) \/ Lose(i)
  BY <1>2, RowStep
<1>3. CASE \E of \in Intent \cup {None} : Answer(of)
  BY <1>3, AnswerStep
<1>4. CASE \E p \in Prober, i \in Intent : Probe(p, i)
  BY <1>4, ProbeStep
<1>5. ASSUME NEW p \in Prober, NEW k \in DOMAIN results, SkipFailure(p, k)
      PROVE  IInv'
  BY <1>5, DropStep DEF SkipFailure, history
<1>6. CASE \E p \in Prober, k \in DOMAIN results :
             SkipFailure(p, k) \/ CheckRivals(p, k) \/ Claim(p, k)
  BY <1>5, <1>6, CheckRivalsStep, ClaimStep
<1>7. CASE UNCHANGED vars
  BY <1>7 DEF vars, IInv, TypeOK, Stamped, ClaimSound, ProbeSound, Follows, Cleared
<1> QED BY <1>1, <1>2, <1>3, <1>4, <1>6, <1>7 DEF Next

\* What the probers have found out is true: a candidate is an event after the
\* delivery, and one that is being claimed or was claimed has no other recorded
\* delivery between it and the intent's, except such as were not recorded when
\* the rivals were looked up.
THEOREM ProbeInvariance == Spec => []IInv
BY InitIInv, NextStep, PTL DEF Spec

\* Types of the rows, the events and the probers.
THEOREM TypeCorrect == Spec => []TypeOK
<1>1. IInv => TypeOK
  BY DEF IInv
<1> QED BY <1>1, ProbeInvariance, PTL

\* An answer is credited to the wrong intent only where its own delivery is not
\* recorded between the intent's delivery and the answer.
THEOREM BlindMistakes == Spec => []OnlyBlindMistakes
<1>1. IInv => OnlyBlindMistakes
  <2> SUFFICES ASSUME IInv, NEW i \in Intent, claimed[i] # None,
                      AnswerTo(claimed[i]) \notin {i, None}
               PROVE  LET j == AnswerTo(claimed[i])
                      IN \/ cmd[j].at <= cmd[i].at
                         \/ results[claimed[i]].at < cmd[j].at
                         \/ j \in unrecorded[i]
    BY DEF OnlyBlindMistakes
  <2>1. results \in Seq(Result) /\ claimed[i] \in DOMAIN results
    BY DEF IInv, TypeOK
  <2>2. results[claimed[i]] \in Result
    BY <2>1
  <2>3. AnswerTo(claimed[i]) \in Intent \ {i}
    BY <2>2 DEF Result, AnswerTo
  <2> QED BY <2>3 DEF IInv, ClaimSound, Cleared
<1> QED BY <1>1, ProbeInvariance, PTL

\* Two intents share an event only if they were delivered at one instant, or one
\* was not recorded when the rivals of the other were looked up.
THEOREM OneIntent == Spec => []OneResultOneIntent
<1>1. IInv => OneResultOneIntent
  <2> SUFFICES ASSUME IInv, NEW i \in Intent, NEW j \in Intent, i # j,
                      claimed[i] # None, claimed[i] = claimed[j],
                      j \notin unrecorded[i], i \notin unrecorded[j]
               PROVE  cmd[i].at = cmd[j].at
    BY DEF OneResultOneIntent
  <2> DEFINE at == results[claimed[i]].at
  <2>1. cmd[i].at <= at /\ cmd[j].at <= at
    BY DEF IInv, ClaimSound, Follows
  <2>2. /\ cmd[j].at <= cmd[i].at \/ at < cmd[j].at
        /\ cmd[i].at <= cmd[j].at \/ at < cmd[i].at
    BY DEF IInv, ClaimSound, Cleared
  <2>3. cmd[i].at \in Int /\ cmd[j].at \in Int
    BY ConstantsAssumption DEF IInv, TypeOK, Command
  <2>4. at \in Int
    <3>1. results \in Seq(Result) /\ claimed[i] \in DOMAIN results
      BY DEF IInv, TypeOK
    <3>2. results[claimed[i]] \in Result
      BY <3>1
    <3> QED BY <3>2 DEF Result
  <2> QED BY <2>1, <2>2, <2>3, <2>4
<1> QED BY <1>1, ProbeInvariance, PTL

-----------------------------------------------------------------------------
(* The loop of the jobs.                                                   *)

\* How each lock statement changes the table of holds.
LEMMA LockTypes ==
  ASSUME holds \in Lock!Holds, NEW r \in Replica, NEW c \in Conn
  PROVE  /\ Lock!Taken(holds, r, c) \in Lock!Holds
         /\ Lock!GivenBack(holds, r, c) \in Lock!Holds
         /\ Lock!Closed(holds, r, c) \in Lock!Holds
         /\ Lock!Gone(holds, r) \in Lock!Holds
BY DEF Lock!Holds, Lock!Taken, Lock!GivenBack, Lock!Closed, Lock!Gone

\* Nothing but Taken makes a session a holder.
LEMMA OnlyTakenAdds ==
  ASSUME holds \in Lock!Holds, NEW r \in Replica, NEW c \in Conn,
         NEW after \in {Lock!GivenBack(holds, r, c), Lock!Closed(holds, r, c), Lock!Gone(holds, r)},
         NEW s \in Replica, NEW d \in Conn
  PROVE  /\ after[s][d] > 0 => holds[s][d] > 0
         /\ s # r => after[s][d] = holds[s][d]
BY DEF Lock!Holds, Lock!GivenBack, Lock!Closed, Lock!Gone

LEMMA JobInitInv == JobInit => JobInv
<1>. SUFFICES ASSUME JobInit PROVE JobInv
  OBVIOUS
<1>1. (CHOOSE c \in Conn : TRUE) \in Conn
  BY JobAssumption
<1>. QED
  BY <1>1 DEF JobInit, JobInv, JobTypeOK, OneSession, TickHoldsLock, Lock!Unheld, Lock!Holds

LEMMA AcquireInv ==
  ASSUME JobInv, NEW r \in Replica, NEW c \in Conn, Acquire(r, c)
  PROVE  JobInv'
<1>1. CASE Lock!CanTake(holds, r, c)
  <2>1. /\ holds' = [holds EXCEPT ![r][c] = holds[r][c] + 1]
        /\ lockConn' = [lockConn EXCEPT ![r] = c]
        /\ severed' = [severed EXCEPT ![r] = FALSE]
        /\ pc' = [pc EXCEPT ![r] = "task"] /\ UNCHANGED faults
    BY <1>1 DEF Acquire, Lock!Taken, Goto
  <2>2. JobTypeOK'
    BY <2>1, LockTypes DEF JobInv, JobTypeOK, Lock!Taken
  <2>3. ASSUME NEW s \in Replica, NEW d \in Conn
        PROVE  holds'[s][d] = IF s = r /\ d = c THEN holds[s][d] + 1 ELSE holds[s][d]
    BY <2>1 DEF JobInv, JobTypeOK, Lock!Holds
  <2>4. ASSUME NEW s \in Replica, NEW d \in Conn, holds'[s][d] > 0 PROVE s = r /\ d = c
    BY <1>1, <2>3, <2>4 DEF Lock!CanTake
  <2>5. OneSession'
    BY <2>4 DEF OneSession
  <2>6. TickHoldsLock'
    <3>1. holds[r][c] \in Nat /\ \A s \in Replica : lockConn[s] \in Conn
      BY DEF JobInv, JobTypeOK, Lock!Holds
    <3>. QED
      BY <2>1, <2>3, <3>1 DEF JobInv, JobTypeOK, TickHoldsLock
  <2>. QED
    BY <2>2, <2>5, <2>6 DEF JobInv
<1>2. CASE ~Lock!CanTake(holds, r, c)
  BY <1>2 DEF Acquire, Goto, JobInv, JobTypeOK, OneSession, TickHoldsLock
<1>. QED
  BY <1>1, <1>2

\* A step in which holders only become fewer, and only by r's doing.
LEMMA JobNextInv == JobInv /\ [JobNext]_jobVars => JobInv'
<1>. SUFFICES ASSUME JobInv, [JobNext]_jobVars PROVE JobInv'
  OBVIOUS
<1>1. ASSUME NEW r \in Replica, StartTick(r) \/ EndTask(r) \/ QueryThrows(r) PROVE JobInv'
  BY <1>1 DEF StartTick, EndTask, QueryThrows, Faulty, Goto, JobInv, JobTypeOK, OneSession, TickHoldsLock
<1>2. ASSUME NEW r \in Replica, NEW c \in Conn, Release(r, c) PROVE JobInv'
  <2>1. /\ holds' = Lock!GivenBack(holds, r, c) /\ pc' = [pc EXCEPT ![r] = "idle"]
        /\ UNCHANGED <<lockConn, severed, faults>>
    BY <1>2 DEF Release, Goto
  <2>2. JobTypeOK'
    BY <2>1, LockTypes DEF JobInv, JobTypeOK
  <2>3. OneSession'
    BY <2>1, OnlyTakenAdds DEF JobInv, JobTypeOK, OneSession
  <2>4. ASSUME NEW s \in Replica, pc'[s] \in {"task", "release"}
        PROVE  pc[s] = pc'[s] /\ \A d \in Conn : holds'[s][d] = holds[s][d]
    <3>1. s # r /\ pc[s] = pc'[s]
      BY <2>1, <2>4 DEF JobInv, JobTypeOK
    <3>. QED
      BY <2>1, <3>1, OnlyTakenAdds DEF JobInv, JobTypeOK
  <2>5. TickHoldsLock'
    BY <2>1, <2>4 DEF JobInv, JobTypeOK, TickHoldsLock
  <2>. QED
    BY <2>2, <2>3, <2>5 DEF JobInv
<1>3. ASSUME NEW r \in Replica, NEW c \in Conn, CloseConnection(r, c) PROVE JobInv'
  <2>1. /\ holds' = Lock!Closed(holds, r, c) /\ UNCHANGED <<pc, lockConn, faults>>
        /\ severed' = [severed EXCEPT ![r] = severed[r] \/
                          (pc[r] \in {"task", "release"} /\ c = lockConn[r])]
    BY <1>3 DEF CloseConnection
  <2>2. JobTypeOK'
    BY <2>1, LockTypes DEF JobInv, JobTypeOK
  <2>3. OneSession'
    BY <2>1, OnlyTakenAdds DEF JobInv, JobTypeOK, OneSession
  <2>4. ASSUME NEW s \in Replica, NEW d \in Conn, s # r \/ d # c
        PROVE  holds'[s][d] = holds[s][d]
    BY <2>1, <2>4 DEF JobInv, JobTypeOK, Lock!Holds, Lock!Closed
  <2>5. ASSUME NEW s \in Replica, pc[s] \in {"task", "release"}, ~severed'[s]
        PROVE  ~severed[s] /\ (s # r \/ lockConn[s] # c)
    BY <2>1, <2>5, ZenonT(30) DEF JobInv, JobTypeOK
  <2>6. TickHoldsLock'
    BY <2>1, <2>4, <2>5 DEF JobInv, JobTypeOK, TickHoldsLock
  <2>. QED
    BY <2>2, <2>3, <2>6 DEF JobInv
<1>4. ASSUME NEW r \in Replica, Restart(r) PROVE JobInv'
  <2>1. /\ holds' = Lock!Gone(holds, r) /\ pc' = [pc EXCEPT ![r] = "idle"]
        /\ UNCHANGED <<lockConn, severed>> /\ faults' = faults + 1
    BY <1>4 DEF Restart, Faulty, Goto
  <2>2. PICK c \in Conn : TRUE
    BY JobAssumption
  <2>3. JobTypeOK'
    BY <2>1, <2>2, LockTypes DEF JobInv, JobTypeOK
  <2>4. OneSession'
    BY <2>1, <2>2, OnlyTakenAdds DEF JobInv, JobTypeOK, OneSession
  <2>5. TickHoldsLock'
    BY <2>1, <2>2, OnlyTakenAdds DEF JobInv, JobTypeOK, TickHoldsLock
  <2>. QED
    BY <2>3, <2>4, <2>5 DEF JobInv
<1>5. CASE UNCHANGED jobVars
  BY <1>5 DEF jobVars, JobInv, JobTypeOK, OneSession, TickHoldsLock
<1>. QED
  BY <1>1, <1>2, <1>3, <1>4, <1>5, AcquireInv DEF JobNext, JobTick

THEOREM JobInvariance == JobSpec => []JobInv
  BY JobInitInv, JobNextInv, PTL DEF JobSpec

\* A lock leaked or lost by the pool never lets two ticks with open lock
\* connections run the task at once.
THEOREM Exclusion == JobSpec => []TasksExclude
<1>1. JobInv => TasksExclude
  BY DEF JobInv, JobTypeOK, OneSession, TickHoldsLock, TasksExclude
<1>. QED
  BY <1>1, JobInvariance, PTL
=============================================================================
