---------------------- MODULE NotificationInboxProofs ----------------------
(***************************************************************************)
(* Proofs about NotificationInbox.  The place of the bridge in tc_events   *)
(* only moves forward unless it is lost, so an event is emitted once, and  *)
(* what is on its way to the page (ahead of the bridge, on the wire, shown *)
(* and not delivered) is in one of these places only.  A sync's answer     *)
(* covers what is older than the mark it carries, and inserts behind it    *)
(* are excused when they happen.                                           *)
(***************************************************************************)
EXTENDS NotificationInbox, FiniteSetTheorems, SequenceTheorems, TLAPS

\* The last event the bridge is done with.
Place == IF upTo = None THEN cursor ELSE upTo - Len(todo)

\* The event may still be emitted.
Ahead(e) == IF e \in Direct THEN pub[e].stage # "done" ELSE e > Place

OnWire(e)  == \E i \in 1..Len(wire) : wire[i] = e
ToToast(e) == store[e].shown /\ ~store[e].delivered

\* The batch is the run of events up to its last, and the bridge publishes its head.
BatchInOrder ==
  /\ upTo = None => todo = <<>>
  /\ \A i \in 1..Len(todo) : todo[i] = Place + i
  /\ \A e \in Event : pub[e].stage = "stamped" => pub[e].at # None
  /\ \A e \in Tracked :
       pub[e].stage \in {"stamped", "inserted"} => todo # <<>> /\ Head(todo) = e /\ e \notin Dull

\* The answer of a sync, applied or on its way, is newer only than rows it brought.
AnswersCover ==
  \A e \in Event : row[e].at # None =>
    /\ row[e].at < since => e \in seen \cup excused
    /\ row[e].at < sync.next => e \in seen \cup excused \cup sync.items

\* A notification has one future toast, or has had its only one.
OneFuture ==
  /\ \A i, j \in 1..Len(wire) : wire[i] = wire[j] => i = j
  /\ \A e \in Event :
       /\ Ahead(e) => ~OnWire(e)
       /\ Ahead(e) \/ OnWire(e) => ~ToToast(e)
       /\ Ahead(e) \/ OnWire(e) \/ ToToast(e) => toasts[e] = 0
       /\ toasts[e] <= 1

\* The inductive invariant.
IInv ==
  /\ TypeOK
  /\ BatchInOrder
  /\ AnswersCover
  /\ ~replayed => OneFuture

-----------------------------------------------------------------------------
\* What the actions that write many variables do to those of interest.
LEMMA Ids ==
  /\ Cardinality(Tracked) \in Nat /\ Tracked = 1..Cardinality(Tracked)
  /\ Tracked \subseteq Nat /\ Tracked \cap Direct = {}
  /\ Batch \in Nat \ {0} /\ Limit \in Nat \ {0} /\ MaxTime \in Nat
  /\ MaxLosses \in Nat /\ MaxFaults \in Nat
BY ConstantsAssumption, FS_CardinalityType

\* The batch of a poll: consecutive events, the first of them after the cursor.
LEMMA PollBatch ==
  ASSUME TypeOK, Poll
  PROVE  /\ upTo' \in Tracked /\ cursor < upTo' /\ upTo = None
         /\ todo' \in Seq(Tracked) /\ Len(todo') = upTo' - cursor
         /\ \A i \in 1..Len(todo') : todo'[i] = cursor + i
<1> DEFINE last == IF happened < cursor + Batch THEN happened ELSE cursor + Batch
<1>1. /\ last \in Tracked /\ cursor < last /\ cursor \in Nat
      /\ todo' = [i \in 1..(last - cursor) |-> cursor + i] /\ upTo' = last /\ upTo = None
      BY Ids DEF Poll, TypeOK
<1>2. last - cursor \in Nat /\ \A i \in 1..(last - cursor) : cursor + i \in Tracked
      BY <1>1, Ids
<1> QED BY <1>1, <1>2

LEMMA NextTypes == TypeOK /\ BatchInOrder /\ [Next]_vars => TypeOK'
<1> SUFFICES ASSUME TypeOK, BatchInOrder, [Next]_vars PROVE TypeOK'
    OBVIOUS
<1> USE Ids DEF TypeOK
<1>1. CASE Tick \/ Happen
      BY <1>1 DEF Tick, Happen, bridge, socket, page, history, Time
<1>17. CASE SaveCursor
      BY <1>17 DEF SaveCursor, socket, page, history
<1>18. CASE SaveCursorFails
      BY <1>18 DEF SaveCursorFails, Faulty, socket, page
<1>15. CASE Skip
  <2>1. todo' \in Seq(Tracked)
        BY <1>15, HeadTailProperties DEF Skip
  <2> QED BY <1>15, <2>1 DEF Skip, socket, page, history
<1>2. CASE Poll
      BY <1>2, PollBatch DEF Poll, socket, page, history
<1>3. CASE Crash
  <2>1. pub' \in [Event -> Publication]
        BY <1>3 DEF Crash, Publication
  <2>2. /\ todo' = <<>> /\ wire' = <<>> /\ upTo' = None /\ connected' = FALSE
        /\ replayed' \in BOOLEAN /\ dropped' \subseteq Event /\ sync' \in SyncState
        BY <1>3 DEF Crash, SyncState, NoSync, Event
  <2>3. faults' \in 0..MaxFaults
        BY <1>3 DEF Crash, Faulty
  <2>4. todo' \in Seq(Tracked) /\ wire' \in Seq(Event)
        BY <2>2, EmptySeq
  <2> QED BY <1>3, <2>1, <2>2, <2>3, <2>4 DEF Crash
<1>4. ASSUME NEW e \in Event, Stamp(e) PROVE TypeOK'
      BY <1>4 DEF Stamp, bridge, socket, page, history, Publication
<1>5. ASSUME NEW e \in Event, Insert(e) PROVE TypeOK'
      BY <1>5 DEF Insert, Behind, NoRow, bridge, socket, page, Publication
<1>6. ASSUME NEW e \in Event, Emit(e) PROVE TypeOK'
  <2>1. pub' \in [Event -> Publication]
        BY <1>6 DEF Emit, Ended, Publication
  <2>2. wire' \in Seq(Event)
        BY <1>6 DEF Emit
  <2>3. todo' \in Seq(Tracked)
        BY <1>6, HeadTailProperties DEF Emit, Ended, BatchInOrder, Event
  <2> QED BY <1>6, <2>1, <2>2, <2>3 DEF Emit, page, history
<1>7. ASSUME NEW e \in Event, PublishFails(e) PROVE TypeOK'
      BY <1>7 DEF PublishFails, Ended, Faulty, page, socket, Due, Publication
<1>8. ASSUME NEW e \in Event, Toast(e) PROVE TypeOK'
  <2>1. toasts' \in [Event -> 0..2]
        BY <1>8 DEF Toast
  <2>2. store' \in [Event -> [shown : BOOLEAN, delivered : BOOLEAN]]
        BY <1>8, Zenon DEF Toast
  <2> QED BY <1>8, <2>1, <2>2 DEF Toast, server, bridge, socket, history
<1>9. CASE Connect
      BY <1>9 DEF Connect, Requested, Asked, SyncState, server, bridge, history
<1>16. CASE Disconnect
  <2>1. wire' \in Seq(Event) /\ losses' \in 0..MaxLosses
        BY <1>16, EmptySeq DEF Disconnect
  <2>2. connected' \in BOOLEAN
        BY <1>16, Zenon DEF Disconnect
  <2> QED BY <1>16, <2>1, <2>2 DEF Disconnect, server, bridge, page, history
<1>19. CASE Reload
  <2>1. wire' \in Seq(Event) /\ losses' \in 0..MaxLosses
        BY <1>19, EmptySeq DEF Reload
  <2>3. connected' \in BOOLEAN
        BY <1>19, Zenon DEF Reload
  <2>2. sync' \in SyncState /\ store' \in [Event -> [shown : BOOLEAN, delivered : BOOLEAN]]
        BY <1>19 DEF Reload, Asked, NoItem, SyncState
  <2> QED BY <1>19, <2>1, <2>2, <2>3 DEF Reload, server, bridge, history
<1>20. CASE Resync
      BY <1>20 DEF Resync, Asked, SyncState, server, bridge, socket, history
<1>21. CASE SyncFails
      BY <1>21 DEF SyncFails, NoSync, SyncState, Faulty, server, bridge, socket, history
<1>10. CASE AnswerSync
      BY <1>10 DEF AnswerSync, Inserted, SyncState, server, bridge, socket, history
<1>11. CASE ApplySync
      BY <1>11 DEF ApplySync, Hydrated, NoSync, SyncState, server, bridge, socket, history
<1>12. CASE OpenBell
      BY <1>12 DEF OpenBell, Hydrated, Inserted, server, bridge, socket, history
<1>13. CASE Receive
      BY <1>13 DEF Receive, server, bridge, history
<1>14. CASE UNCHANGED vars
      BY <1>14 DEF vars, server, bridge, socket, page, history
<1> QED BY <1>1, <1>2, <1>3, <1>4, <1>5, <1>6, <1>7, <1>8, <1>9, <1>10, <1>11, <1>12, <1>13,
           <1>14, <1>15, <1>16, <1>17, <1>18, <1>19, <1>20, <1>21 DEF Next

LEMMA NextBatch == TypeOK /\ BatchInOrder /\ [Next]_vars => BatchInOrder'
<1> SUFFICES ASSUME TypeOK, BatchInOrder, [Next]_vars PROVE BatchInOrder'
    OBVIOUS
<1> USE Ids DEF TypeOK, BatchInOrder
<1>0. upTo = None \/ upTo \in Nat
      BY DEF None
<1>1. CASE Skip
  <2>1. Len(todo') = Len(todo) - 1 /\ \A i \in 1..Len(todo') : todo'[i] = todo[i + 1]
        BY <1>1, HeadTailProperties DEF Skip
  <2>2. upTo # None /\ upTo' = upTo /\ Place' = Place + 1
        BY <1>0, <1>1, <2>1 DEF Skip, Place
  <2>3. \A e \in Tracked : pub[e].stage \notin {"stamped", "inserted"}
        BY <1>1 DEF Skip
  <2> QED BY <1>1, <2>1, <2>2, <2>3 DEF Skip, Place
<1>2. CASE SaveCursor \/ SaveCursorFails
      BY <1>2, EmptySeq DEF SaveCursor, SaveCursorFails
<1>3. CASE Poll
  <2>1. Place' = cursor /\ Place = cursor
        BY <1>3, PollBatch DEF Place, None
  <2>2. upTo' # None /\ pub' = pub
        BY <1>3, PollBatch DEF Poll, None
  <2>3. todo = <<>>
        BY <1>3 DEF Poll
  <2> QED BY <1>3, <2>1, <2>2, <2>3, PollBatch
<1>4. CASE Crash
  <2>1. todo' = <<>> /\ Len(todo') = 0
        BY <1>4, EmptySeq DEF Crash
  <2>2. \A e \in Event : pub'[e].stage \notin {"stamped", "inserted"}
        BY <1>4 DEF Crash
  <2> QED BY <2>1, <2>2 DEF Event
<1>5. ASSUME NEW e \in Event, Stamp(e) PROVE BatchInOrder'
      BY <1>5 DEF Stamp, Due, bridge, Publication, Time, None, Place, Event
<1>6. ASSUME NEW e \in Event, Insert(e) PROVE BatchInOrder'
      BY <1>6 DEF Insert, bridge, Publication, Place, Event
<1>7. ASSUME NEW e \in Event, Emit(e) \/ PublishFails(e) PROVE BatchInOrder'
  <2>1. /\ pub' = [pub EXCEPT ![e] = [stage |-> IF e \in Direct THEN "done" ELSE "none", at |-> None]]
        /\ todo' = IF e \in Direct THEN todo ELSE Tail(todo)
        /\ upTo' = upTo /\ cursor' = cursor
        BY <1>7 DEF Emit, PublishFails, Ended
  <2>2. CASE e \in Direct
        BY <2>1, <2>2 DEF Publication, Place, Event
  <2>3. CASE e \in Tracked
    <3>1. todo # <<>> /\ Head(todo) = e
          BY <1>7, <2>3 DEF Emit, PublishFails, Due
    <3>2. Len(todo') = Len(todo) - 1 /\ \A i \in 1..Len(todo') : todo'[i] = todo[i + 1]
          BY <2>1, <2>3, <3>1, HeadTailProperties
    <3>3. upTo # None /\ Place' = Place + 1
          BY <1>0, <2>1, <3>1, <3>2 DEF Place
    <3>4. \A f \in Tracked : pub'[f].stage \notin {"stamped", "inserted"}
          BY <2>1, <2>3, <3>1
    <3> QED BY <1>0, <2>1, <3>2, <3>3, <3>4 DEF Place, Event
  <2> QED BY <2>2, <2>3 DEF Event
<1>8. CASE UNCHANGED <<bridge, pub>>
      BY <1>8 DEF bridge, Place
<1> QED BY <1>1, <1>2, <1>3, <1>4, <1>5, <1>6, <1>7, <1>8 DEF Next, Tick, Happen, Toast, Connect,
           Resync, AnswerSync, ApplySync, SyncFails, OpenBell, Receive, Disconnect, Reload, vars,
           server, bridge

LEMMA NextCover == TypeOK /\ AnswersCover /\ [Next]_vars => AnswersCover'
<1> SUFFICES ASSUME TypeOK, AnswersCover, [Next]_vars PROVE AnswersCover'
    OBVIOUS
<1> USE DEF TypeOK, AnswersCover
<1>1. ASSUME NEW e \in Event, Insert(e) PROVE AnswersCover'
      BY <1>1 DEF Insert, Behind, NoRow, page
<1>2. CASE AnswerSync
  <2> DEFINE found == {e \in Inserted : row[e].at >= since}
  <2>1. PICK items \in SUBSET found, next \in Time :
          /\ IF items = {} THEN next = clock ELSE \A e \in items : row[e].at <= next
          /\ sync' = [stage |-> "answered", items |-> items, next |-> next]
          /\ excused' = excused \cup (found \ items)
        BY <1>2 DEF AnswerSync
  <2>2. row' = row /\ since' = since /\ seen' = seen
        BY <1>2 DEF AnswerSync, server, page
  <2>3. ASSUME NEW e \in Event, row[e].at # None
        PROVE  row[e].at < since \/ e \in items \/ e \in excused'
        BY <2>1, <2>3 DEF Inserted, NoRow, Time, None
  <2> QED BY <2>1, <2>2, <2>3
<1>3. CASE ApplySync
      BY <1>3 DEF ApplySync, NoSync, server, history, None, Time
<1>4. CASE SyncFails \/ Connect \/ Resync \/ Reload \/ Crash
  <2>1. /\ row' = row /\ since' = since /\ seen' = seen /\ excused' = excused
        /\ sync' = sync \/ sync'.next = None
        BY <1>4 DEF SyncFails, Connect, Resync, Reload, Crash, Requested, Asked, NoSync, server, history
  <2> QED BY <2>1 DEF None, Time
<1>5. CASE OpenBell \/ Receive
      BY <1>5 DEF OpenBell, Receive, server, history
<1>6. CASE UNCHANGED <<row, since, sync, seen, excused>>
      BY <1>6
<1> QED BY <1>1, <1>2, <1>3, <1>4, <1>5, <1>6 DEF Next, Tick, Happen, Poll, Skip, SaveCursor,
           SaveCursorFails, Stamp, Emit, PublishFails, Toast, Disconnect, vars, server, page, history

-----------------------------------------------------------------------------
\* A step that puts nothing on the wire and moves nobody back: what is ahead
\* of the bridge was ahead, what is on the wire was, what is to toast was.
LEMMA FutureShrinks ==
  ASSUME OneFuture, UNCHANGED toasts, wire' = wire \/ Len(wire') = 0,
         \A e \in Event : Ahead(e)' => Ahead(e),
         \A e \in Event : ToToast(e)' => ToToast(e)
  PROVE  OneFuture'
<1>1. \A e \in Event : OnWire(e)' => OnWire(e)
      BY DEF OnWire
<1>2. \A i, j \in 1..Len(wire') : wire'[i] = wire'[j] => i = j
      BY DEF OneFuture
<1> QED BY <1>1, <1>2 DEF OneFuture

\* What is ahead of the bridge after a step that goes on by one event.
LEMMA OneLessAhead ==
  ASSUME TypeOK, BatchInOrder, NEW e \in Event, pub[e].stage # "done", Ended(e),
         UNCHANGED <<cursor, upTo>>, e \in Tracked => todo # <<>> /\ Head(todo) = e
  PROVE  ~Ahead(e)' /\ Ahead(e) /\ \A f \in Event : Ahead(f)' => Ahead(f)
<1>1. CASE e \in Direct
      BY <1>1, Ids DEF Ended, Ahead, Place, TypeOK, Publication, Event
<1>2. CASE e \in Tracked
  <2>1. todo # <<>> /\ Head(todo) = e /\ todo' = Tail(todo) /\ e \notin Direct
        BY <1>2, Ids DEF Ended
  <2>2. upTo # None /\ upTo \in Nat /\ Len(todo) \in Nat /\ Len(todo') = Len(todo) - 1
        BY <2>1, HeadTailProperties, EmptySeq, Ids DEF TypeOK, BatchInOrder
  <2>3. Place' = Place + 1 /\ Place \in Int /\ e = Place + 1
        BY <2>1, <2>2, EmptySeq DEF Place, BatchInOrder, TypeOK
  <2>4. \A f \in Direct : pub'[f] = pub[f]
        BY <1>2, Ids DEF Ended, TypeOK
  <2> QED BY <2>1, <2>3, <2>4, Ids DEF Ahead, Event
<1> QED BY <1>1, <1>2 DEF Event

LEMMA NextFuture ==
  ASSUME IInv, [Next]_vars, ~replayed'
  PROVE  OneFuture'
<1> USE DEF IInv
<1>0. ~replayed /\ OneFuture
  <2>1. CASE UNCHANGED replayed \/ replayed' = (replayed \/ upTo # None) \/ replayed' = TRUE
    <3>1. ~replayed
          BY <2>1, Zenon
    <3> QED BY <3>1
  <2>2. UNCHANGED replayed \/ replayed' = (replayed \/ upTo # None) \/ replayed' = TRUE
        BY Zenon DEF Next, vars, Tick, Happen, Poll, Skip, SaveCursor, SaveCursorFails, Crash,
             Stamp, Insert, Emit, PublishFails, Toast, Connect, Resync, AnswerSync, ApplySync,
             SyncFails, OpenBell, Receive, Disconnect, Reload, history
  <2> QED BY <2>1, <2>2
<1>1. CASE Tick \/ Happen \/ Connect \/ Resync \/ AnswerSync \/ SyncFails
      BY <1>0, <1>1, FutureShrinks DEF Tick, Happen, Connect, Resync, AnswerSync, SyncFails, server,
         socket, page, bridge, Ahead, Place, ToToast
<1>2. CASE Poll
  <2>1. Place' = Place
        BY <1>2, PollBatch, Ids DEF Place, TypeOK, None
  <2> QED BY <1>0, <1>2, <2>1, FutureShrinks DEF Poll, socket, page, Ahead, ToToast
<1>3. CASE Skip
  <2>1. Place' = Place + 1 /\ Place \in Int
        BY <1>3, HeadTailProperties, EmptySeq, Ids DEF Skip, Place, TypeOK, BatchInOrder
  <2> QED BY <1>0, <1>3, <2>1, FutureShrinks, Ids DEF Skip, socket, page, Ahead, ToToast, Event
<1>4. CASE SaveCursor
  <2>1. Place' = Place
        BY <1>4, EmptySeq, Ids DEF SaveCursor, Place, TypeOK
  <2> QED BY <1>0, <1>4, <2>1, FutureShrinks DEF SaveCursor, socket, page, Ahead, ToToast
<1>5. CASE Crash
  <2>1. upTo = None /\ Place' = Place
        BY <1>5 DEF Crash, Place
  <2>2. \A e \in Event : pub[e].stage = "done" => pub'[e].stage = "done"
        BY <1>5 DEF Crash
  <2> QED BY <1>0, <1>5, <2>1, <2>2, FutureShrinks, EmptySeq DEF Crash, Ahead, ToToast
<1>6. ASSUME NEW e \in Event, Stamp(e) \/ Insert(e) PROVE OneFuture'
  <2>1. \A f \in Event : pub[f].stage = "done" => pub'[f].stage = "done"
        BY <1>6 DEF Stamp, Insert, TypeOK, Publication
  <2> QED BY <1>0, <1>6, <2>1, FutureShrinks DEF Stamp, Insert, bridge, socket, page, Ahead, Place,
             ToToast
<1>7. ASSUME NEW e \in Event, PublishFails(e) PROVE OneFuture'
  <2>1. \A f \in Event : Ahead(f)' => Ahead(f)
        BY <1>7, OneLessAhead, Ids DEF PublishFails, Due
  <2> QED BY <1>0, <1>7, <2>1, FutureShrinks DEF PublishFails, socket, page, ToToast
<1>8. ASSUME NEW e \in Event, Emit(e) PROVE OneFuture'
  <2>1. ~Ahead(e)' /\ Ahead(e) /\ \A f \in Event : Ahead(f)' => Ahead(f)
        BY <1>8, OneLessAhead DEF Emit, BatchInOrder
  <2>2. toasts' = toasts /\ store' = store
        BY <1>8 DEF Emit, page
  <2>3. CASE wire' = wire
        BY <1>0, <2>1, <2>2, <2>3, FutureShrinks DEF ToToast
  <2>4. CASE wire' = Append(wire, e)
    <3>1. Len(wire) \in Nat /\ Len(wire') = Len(wire) + 1 /\ wire'[Len(wire) + 1] = e
          /\ \A i \in 1..Len(wire) : wire'[i] = wire[i]
          BY <2>4, AppendProperties DEF TypeOK
    <3>2. \A f \in Event : OnWire(f)' => OnWire(f) \/ f = e
          BY <3>1 DEF OnWire
    <3>3. \A i \in 1..Len(wire) : wire[i] # e
          BY <1>0, <2>1 DEF OneFuture, OnWire
    <3>4. \A i, j \in 1..Len(wire') : wire'[i] = wire'[j] => i = j
          BY <1>0, <3>1, <3>3 DEF OneFuture
    <3> QED BY <1>0, <2>1, <2>2, <3>2, <3>4 DEF OneFuture, ToToast
  <2> QED BY <1>8, <2>3, <2>4 DEF Emit
<1>9. ASSUME NEW e \in Event, Toast(e) PROVE OneFuture'
  <2>1. /\ wire' = wire /\ toasts' = [toasts EXCEPT ![e] = IF @ < 2 THEN @ + 1 ELSE @]
        /\ ToToast(e) /\ \A f \in Event : Ahead(f)' <=> Ahead(f)
        BY <1>9 DEF Toast, server, bridge, socket, Ahead, Place, ToToast
  <2>2. \A f \in Event : ToToast(f)' => ToToast(f) /\ f # e
        BY <1>9 DEF Toast, TypeOK, ToToast
  <2>3. toasts[e] = 0 /\ toasts'[e] = 1 /\ \A f \in Event \ {e} : toasts'[f] = toasts[f]
        BY <1>0, <2>1 DEF OneFuture, TypeOK
  <2> QED BY <1>0, <2>1, <2>2, <2>3 DEF OneFuture, OnWire
<1>10. CASE Receive
  <2>0. PICK e \in Event : e = Head(wire)
        BY <1>10, HeadTailProperties DEF Receive, TypeOK
  <2>1. /\ wire # <<>> /\ wire[1] = e /\ Len(wire) \in Nat /\ 1 \in 1..Len(wire)
        /\ Len(wire') = Len(wire) - 1 /\ \A i \in 1..Len(wire') : wire'[i] = wire[i + 1]
        BY <1>10, <2>0, HeadTailProperties, EmptySeq DEF Receive, TypeOK
  <2>2. OnWire(e) /\ ~OnWire(e)'
        BY <1>0, <2>1 DEF OnWire, OneFuture
  <2>3. \A f \in Event : OnWire(f)' => OnWire(f)
        BY <2>1 DEF OnWire
  <2>4. \A f \in Event : ToToast(f)' => ToToast(f) \/ f = e
        BY <1>10, <2>0 DEF Receive, TypeOK, ToToast
  <2>5. toasts' = toasts /\ \A f \in Event : Ahead(f)' <=> Ahead(f)
        BY <1>10 DEF Receive, server, bridge, Ahead, Place
  <2>6. \A i, j \in 1..Len(wire') : wire'[i] = wire'[j] => i = j
        BY <1>0, <2>1 DEF OneFuture
  <2> QED BY <1>0, <2>2, <2>3, <2>4, <2>5, <2>6 DEF OneFuture
<1>11. CASE ApplySync \/ OpenBell
  <2>1. \A f \in Event : ToToast(f)' => ToToast(f)
        BY <1>11 DEF ApplySync, OpenBell, Hydrated, ToToast
  <2> QED BY <1>0, <1>11, <2>1, FutureShrinks DEF ApplySync, OpenBell, server, bridge, socket, Ahead, Place
<1>12. CASE Disconnect \/ Reload
  <2>1. \A f \in Event : ToToast(f)' => ToToast(f)
        BY <1>12 DEF Disconnect, Reload, NoItem, page, ToToast
  <2>2. Len(wire') = 0 /\ toasts' = toasts
        BY <1>12, EmptySeq DEF Disconnect, Reload, page
  <2>3. \A f \in Event : Ahead(f)' => Ahead(f)
        BY <1>12 DEF Disconnect, Reload, server, bridge, Ahead, Place
  <2> QED BY <1>0, <2>1, <2>2, <2>3, FutureShrinks
<1>13. CASE UNCHANGED vars
      BY <1>0, <1>13, FutureShrinks DEF vars, server, socket, page, bridge, Ahead, Place, ToToast
<1>14. ~SaveCursorFails
      BY DEF SaveCursorFails
<1> QED BY <1>1, <1>2, <1>3, <1>4, <1>5, <1>6, <1>7, <1>8, <1>9, <1>10, <1>11, <1>12, <1>13, <1>14
        DEF Next

-----------------------------------------------------------------------------
LEMMA InitInv == Init => IInv
<1> SUFFICES ASSUME Init PROVE IInv
    OBVIOUS
<1>1. todo = <<>> /\ wire = <<>> /\ Len(todo) = 0 /\ Len(wire) = 0
      /\ todo \in Seq(Tracked) /\ wire \in Seq(Event)
      BY EmptySeq DEF Init
<1>2. TypeOK
  <2>1. pub \in [Event -> Publication] /\ row \in [Event -> [at : {None} \cup Time]]
        BY DEF Init, Publication, NoRow
  <2>2. sync \in SyncState /\ store \in [Event -> [shown : BOOLEAN, delivered : BOOLEAN]]
        BY DEF Init, Asked, SyncState, NoItem
  <2>3. toasts \in [Event -> 0..2]
        BY DEF Init
  <2>4. connected \in BOOLEAN /\ replayed \in BOOLEAN
        BY Zenon DEF Init
  <2> QED BY <1>1, <2>1, <2>2, <2>3, <2>4, Ids DEF Init, TypeOK, Time
<1>3. BatchInOrder
      BY <1>1, Ids DEF Init, BatchInOrder, Event
<1>4. AnswersCover
      BY DEF Init, AnswersCover, NoRow
<1>5. OneFuture
      BY <1>1 DEF Init, OneFuture, NoItem, OnWire, ToToast
<1> QED BY <1>2, <1>3, <1>4, <1>5 DEF IInv

\* The bridge, the wire, the syncs and the toasts stay in step: TypeOK, the
\* batch in order, answers that cover what they pass, and one future toast.
THEOREM Invariance == Spec => []IInv
<1>1. IInv /\ [Next]_vars => IInv'
      BY NextTypes, NextBatch, NextCover, NextFuture DEF IInv
<1> QED BY <1>1, InitInv, PTL DEF Spec

\* The tables, the page and the history have their types.
THEOREM TypeCorrect == Spec => []TypeOK
<1>1. IInv => TypeOK
      BY DEF IInv
<1> QED BY <1>1, Invariance, PTL

\* The mark of a page's syncs passes no notification that the page has not
\* seen, but for rows inserted behind an answer and rows the limit cut.
THEOREM MarkPassesNothing == Spec => []NothingSlipsBy
<1>1. IInv => NothingSlipsBy
      BY DEF IInv, AnswersCover, NothingSlipsBy, Inserted, NoRow, TypeOK
<1> QED BY <1>1, Invariance, PTL

\* Unless the bridge has lost its place, no notification is toasted twice.
THEOREM ToastedOnce == Spec => []OneToast
<1>1. IInv => OneToast
      BY DEF IInv, OneFuture, OneToast, TypeOK
<1> QED BY <1>1, Invariance, PTL

=============================================================================
