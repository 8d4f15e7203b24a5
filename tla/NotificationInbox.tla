-------------------------- MODULE NotificationInbox --------------------------
(***************************************************************************)
(* The way of a notification to one user's bell.  The tracking bridge polls*)
(* tc_events and publishes; domain event listeners publish too.  Publishing*)
(* stamps a row, inserts it unless its dedup key is there, and emits it to *)
(* the user's web socket.  The page upserts what the socket brings, and    *)
(* fills gaps with GET /api/notifications/sync from the last createdAt it  *)
(* has kept in the session; the bell's popover loads the newest page.      *)
(***************************************************************************)
EXTENDS Integers, FiniteSets, Sequences

CONSTANTS
  Tracked,   \* ids of the Traccar events, in the order of tc_events
  Direct,    \* ids of the domain events
  Dull,      \* events without a policy to persist them, or without audience
  Batch,     \* TRACKING_BRIDGE_BATCH_SIZE
  Limit,     \* the limit of a sync
  MaxTime,   \* bound: the clock
  MaxLosses, \* bound: disconnections and reloads
  MaxFaults  \* bound: failed calls, crashes of the server

ASSUME ConstantsAssumption ==
  /\ IsFiniteSet(Tracked)
  /\ Tracked = 1..Cardinality(Tracked) /\ Direct \subseteq Nat \ Tracked /\ Dull \subseteq Tracked
  /\ {Batch, Limit} \subseteq Nat \ {0} /\ {MaxTime, MaxLosses, MaxFaults} \subseteq Nat

Event == Tracked \cup Direct

VARIABLES
  clock,     \* the server's clock
  happened,  \* the last id of tc_events
  cursor,    \* notification_bridge_state.cursor_value
  todo,      \* the rest of the bridge's batch, <<>> between two polls
  upTo,      \* maxId of the batch, or None
  pub,       \* how far the publication of each event is
  row,       \* notifications: the rows of the user, by dedup key
  wire,      \* what the server has emitted and the page not yet received
  connected, \* the page's socket
  sync,      \* the page's GET of a sync in progress
  since,     \* numz.notifications.lastSyncedAt of the session
  store,     \* the page's Redux slice
  losses, faults,
  seen,      \* history: the events that have been in the store
  excused,   \* history: rows a sync could not return: inserted behind it, or cut
  dropped,   \* history: events whose publication failed
  toasts,    \* history: how often each was toasted
  replayed   \* history: the bridge has lost the place where it was

bridge  == <<cursor, todo, upTo>>
server  == <<clock, happened, bridge, pub, row>>
socket  == <<wire, connected>>
page    == <<sync, since, store, seen, toasts>>
history == <<excused, dropped, replayed>>
vars    == <<server, socket, page, losses, faults, history>>

-----------------------------------------------------------------------------
None == -1   \* null, for times and ids

Time        == 0..MaxTime
Publication == [stage : {"none", "stamped", "inserted", "done"}, at : {None} \cup Time]
SyncState   == [stage : {"idle", "asked", "answered"}, items : SUBSET Event,
                next : {None} \cup Time]

NoRow  == [at |-> None]
NoItem == [shown |-> FALSE, delivered |-> FALSE]
Asked  == [stage |-> "asked", items |-> {}, next |-> None]
NoSync == [stage |-> "idle", items |-> {}, next |-> None]

Inserted == {e \in Event : row[e] # NoRow}

\* A page that has just been opened, in a session of its own.
Init ==
  /\ clock = 0 /\ happened = 0 /\ cursor = 0 /\ todo = <<>> /\ upTo = None
  /\ pub = [e \in Event |-> [stage |-> "none", at |-> None]]
  /\ row = [e \in Event |-> NoRow]
  /\ wire = <<>> /\ connected = FALSE
  /\ sync = Asked /\ since = None /\ store = [e \in Event |-> NoItem]
  /\ losses = 0 /\ faults = 0
  /\ seen = {} /\ excused = {} /\ dropped = {} /\ replayed = FALSE
  /\ toasts = [e \in Event |-> 0]

Faulty == faults < MaxFaults /\ faults' = faults + 1

Tick ==
  /\ clock < MaxTime /\ clock' = clock + 1
  /\ UNCHANGED <<happened, bridge, pub, row, socket, page, losses, faults, history>>

\* Traccar records an event.
Happen ==
  /\ happened < Cardinality(Tracked) /\ happened' = happened + 1
  /\ UNCHANGED <<clock, bridge, pub, row, socket, page, losses, faults, history>>

-----------------------------------------------------------------------------
(* pollAndPersistTrackingNotifications.                                    *)

\* Mutant: The batch ends one past the newest event.
PollPastEnd ==
  /\ upTo = None /\ cursor < happened
  /\ LET last == happened + 1
     IN /\ todo' = [i \in 1..(last - cursor) |-> cursor + i]
        /\ upTo' = last
  /\ UNCHANGED <<clock, happened, cursor, pub, row, socket, page, losses, faults, history>>

\* The cursor and the events after it.
Poll ==
  /\ upTo = None /\ cursor < happened
  /\ LET last == IF happened < cursor + Batch THEN happened ELSE cursor + Batch
     IN /\ todo' = [i \in 1..(last - cursor) |-> cursor + i]
        /\ upTo' = last
  /\ UNCHANGED <<clock, happened, cursor, pub, row, socket, page, losses, faults, history>>

\* No policy persists the event, or nobody is to be told.
Skip ==
  /\ todo # <<>> /\ Head(todo) \in Dull
  /\ todo' = Tail(todo)
  /\ UNCHANGED <<clock, happened, cursor, upTo, pub, row, socket, page, losses, faults, history>>

\* Mutant: The cursor goes to the newest event, not to the last of the batch.
SaveCursorNewest ==
  /\ upTo # None /\ todo = <<>>
  /\ cursor' = happened /\ upTo' = None
  /\ UNCHANGED <<clock, happened, todo, pub, row, socket, page, losses, faults, history>>

\* setBridgeCursor(maxId), whatever became of the events.
SaveCursor ==
  /\ upTo # None /\ todo = <<>>
  /\ cursor' = upTo /\ upTo' = None
  /\ UNCHANGED <<clock, happened, todo, pub, row, socket, page, losses, faults, history>>

SaveCursorFails ==
  /\ upTo # None /\ todo = <<>> /\ Faulty
  /\ upTo' = None /\ replayed' = TRUE
  /\ UNCHANGED <<clock, happened, cursor, todo, pub, row, socket, page, losses, excused, dropped>>

-----------------------------------------------------------------------------
(* publishNotification, by the bridge or by a listener.                    *)

\* It is the turn of e: the bridge has come to it, or its domain event is out.
Due(e) == IF e \in Direct THEN TRUE ELSE todo # <<>> /\ Head(todo) = e /\ e \notin Dull

\* The publication of e ends, and the bridge goes on.
Ended(e) ==
  /\ pub' = [pub EXCEPT ![e] = [stage |-> IF e \in Direct THEN "done" ELSE "none", at |-> None]]
  /\ todo' = IF e \in Direct THEN todo ELSE Tail(todo)

\* The audience is known; createdAt is the time of now.
Stamp(e) ==
  /\ Due(e) /\ pub[e].stage = "none"
  /\ pub' = [pub EXCEPT ![e] = [stage |-> "stamped", at |-> clock]]
  /\ UNCHANGED <<clock, happened, bridge, row, socket, page, losses, faults, history>>

\* A row of this time comes too late for the page's syncs.
Behind(at) == at < since \/ at < sync.next

\* bulkCreate with ignoreDuplicates: a row with the dedup key stays.
Insert(e) ==
  /\ pub[e].stage = "stamped"
  /\ row' = IF row[e] = NoRow THEN [row EXCEPT ![e].at = pub[e].at] ELSE row
  /\ excused' = IF row[e] = NoRow /\ Behind(pub[e].at) THEN excused \cup {e} ELSE excused
  /\ pub' = [pub EXCEPT ![e].stage = "inserted"]
  /\ UNCHANGED <<clock, happened, bridge, socket, page, losses, faults, dropped, replayed>>

\* Socket.IO keeps nothing for a user who is not connected.
Emit(e) ==
  /\ pub[e].stage = "inserted" /\ Ended(e)
  /\ wire' = IF connected THEN Append(wire, e) ELSE wire
  /\ UNCHANGED <<clock, happened, cursor, upTo, row, connected, page, losses, faults, history>>

\* The error is logged, and nobody tries again.
PublishFails(e) ==
  /\ Due(e) /\ pub[e].stage # "done" /\ Faulty /\ Ended(e)
  /\ dropped' = IF row[e] = NoRow THEN dropped \cup {e} ELSE dropped
  /\ UNCHANGED <<clock, happened, cursor, upTo, row, socket, page, losses, excused, replayed>>

\* The process dies, and with it the sockets and the event bus.
Crash ==
  /\ Faulty
  /\ todo' = <<>> /\ upTo' = None
  /\ pub' = [e \in Event |->
       IF pub[e].stage \in {"stamped", "inserted"}
       THEN [stage |-> IF e \in Direct THEN "done" ELSE "none", at |-> None] ELSE pub[e]]
  /\ dropped' = dropped \cup {e \in Direct : pub[e].stage = "stamped" /\ row[e] = NoRow}
  /\ replayed' = (replayed \/ upTo # None)
  /\ connected' = FALSE /\ wire' = <<>>
  /\ sync' = IF sync.stage = "asked" THEN NoSync ELSE sync
  /\ UNCHANGED <<clock, happened, cursor, row, since, store, losses, seen, toasts, excused>>

-----------------------------------------------------------------------------
(* The page.                                                               *)

\* runNotificationSync, unless one is in flight.
Requested == IF sync.stage = "idle" THEN Asked ELSE sync

\* The socket connects and asks for a sync.
Connect ==
  /\ ~connected /\ connected' = TRUE
  /\ sync' = Requested
  /\ UNCHANGED <<server, wire, since, store, seen, toasts, losses, faults, history>>

\* Traccar's socket opens again.
Resync ==
  /\ sync.stage = "idle" /\ sync' = Asked
  /\ UNCHANGED <<server, socket, since, store, seen, toasts, losses, faults, history>>

\* The newest rows, Limit of them at most.
Newest(rows, items) ==
  /\ items \subseteq rows
  /\ Cardinality(items) = IF Cardinality(rows) < Limit THEN Cardinality(rows) ELSE Limit
  /\ \A e \in items, f \in rows \ items : row[e].at >= row[f].at

\* syncNotificationsForUser: nextSyncFrom is the newest createdAt of the
\* items, or the time when there are none.
AnswerSync ==
  /\ sync.stage = "asked"
  /\ LET found == {e \in Inserted : row[e].at >= since}
     IN \E items \in SUBSET found :
          /\ Newest(found, items)
          /\ \E next \in Time :
               /\ IF items = {} THEN next = clock
                  ELSE /\ \E e \in items : row[e].at = next
                       /\ \A e \in items : row[e].at <= next
               /\ sync' = [stage |-> "answered", items |-> items, next |-> next]
          /\ excused' = excused \cup (found \ items)
  /\ UNCHANGED <<server, socket, since, store, seen, toasts, losses, faults, dropped, replayed>>

\* Mutant: Rows of a sync enter the store as if the socket had brought them.
HydratedLive(items) ==
  [e \in Event |-> IF e \in items THEN [shown |-> TRUE, delivered |-> FALSE] ELSE store[e]]

\* hydrateFromServer: the channels of these rows count as delivered.
Hydrated(items) ==
  [e \in Event |-> IF e \in items THEN [shown |-> TRUE, delivered |-> TRUE] ELSE store[e]]

ApplySync ==
  /\ sync.stage = "answered"
  /\ store' = Hydrated(sync.items) /\ seen' = seen \cup sync.items
  /\ since' = sync.next /\ sync' = NoSync
  /\ UNCHANGED <<server, socket, toasts, losses, faults, history>>

\* Mutant: The time of the sync is kept although it failed.
SyncFailsSaving ==
  /\ sync.stage # "idle" /\ Faulty
  /\ sync' = NoSync /\ since' = clock
  /\ UNCHANGED <<server, socket, store, seen, toasts, losses, history>>

SyncFails ==
  /\ sync.stage # "idle" /\ Faulty
  /\ sync' = NoSync
  /\ UNCHANGED <<server, socket, since, store, seen, toasts, losses, history>>

\* The popover opens: loadServerPage.
OpenBell ==
  /\ \E items \in SUBSET Inserted :
       /\ Newest(Inserted, items)
       /\ store' = Hydrated(items) /\ seen' = seen \cup items
  /\ UNCHANGED <<server, socket, sync, since, toasts, losses, faults, history>>

\* notification.created: upsertOneNotification.
Receive ==
  /\ wire # <<>>
  /\ store' = [store EXCEPT ![Head(wire)] = [shown |-> TRUE, delivered |-> FALSE]]
  /\ seen' = seen \cup {Head(wire)} /\ wire' = Tail(wire)
  /\ UNCHANGED <<server, connected, sync, since, toasts, losses, faults, history>>

\* NotificationEngine: deliverNotification.  Toasts are counted up to two.
Toast(e) ==
  /\ store[e].shown /\ ~store[e].delivered
  /\ store' = [store EXCEPT ![e].delivered = TRUE]
  /\ toasts' = [toasts EXCEPT ![e] = IF @ < 2 THEN @ + 1 ELSE @]
  /\ UNCHANGED <<server, socket, sync, since, seen, losses, faults, history>>

Disconnect ==
  /\ connected /\ losses < MaxLosses /\ losses' = losses + 1
  /\ connected' = FALSE /\ wire' = <<>>
  /\ UNCHANGED <<server, page, faults, history>>

\* The page is loaded again, in the same session.
Reload ==
  /\ losses < MaxLosses /\ losses' = losses + 1
  /\ connected' = FALSE /\ wire' = <<>>
  /\ sync' = Asked /\ store' = [e \in Event |-> NoItem]
  /\ UNCHANGED <<server, since, seen, toasts, faults, history>>

-----------------------------------------------------------------------------
Bridge == Poll \/ Skip \/ SaveCursor \/ \E e \in Tracked : Stamp(e) \/ Insert(e) \/ Emit(e)

Next ==
  \/ Tick \/ Happen \/ Poll \/ Skip \/ SaveCursor \/ SaveCursorFails \/ Crash
  \/ \E e \in Event : Stamp(e) \/ Insert(e) \/ Emit(e) \/ PublishFails(e) \/ Toast(e)
  \/ Connect \/ Resync \/ AnswerSync \/ ApplySync \/ SyncFails
  \/ OpenBell \/ Receive \/ Disconnect \/ Reload

Spec     == Init /\ [][Next]_vars
FairSpec == Spec /\ WF_vars(Bridge)

-----------------------------------------------------------------------------
\* Types of the tables, the page and the history.
TypeOK ==
  /\ clock \in Time /\ {happened, cursor} \subseteq 0..Cardinality(Tracked)
  /\ upTo \in {None} \cup Tracked /\ todo \in Seq(Tracked)
  /\ pub \in [Event -> Publication] /\ row \in [Event -> [at : {None} \cup Time]]
  /\ wire \in Seq(Event) /\ connected \in BOOLEAN
  /\ sync \in SyncState /\ since \in {None} \cup Time
  /\ store \in [Event -> [shown : BOOLEAN, delivered : BOOLEAN]]
  /\ losses \in 0..MaxLosses /\ faults \in 0..MaxFaults
  /\ {seen, excused, dropped} \subseteq SUBSET Event /\ replayed \in BOOLEAN
  /\ toasts \in [Event -> 0..2]

\* The session's lastSyncedAt passes a notification only when the page has
\* seen it, or in the two ways the protocol has: its row was inserted with a
\* createdAt behind an answer that was already given, or the limit cut it.
NothingSlipsBy ==
  \A e \in Inserted : row[e].at < since => e \in seen \cup excused

\* Socket, sync, popover and reload together toast a notification once; only
\* a bridge that has lost its place emits, and toasts, it again.
OneToast == \A e \in Event : toasts[e] > 1 => replayed

\* The cursor passes no event for good: whatever crashes and lost cursors, an
\* event somebody is to be told of reaches the inbox, unless its publication
\* failed (the bridge does not come back to it).
EventsReachInbox ==
  \A e \in Tracked \ Dull : happened >= e ~> (e \in Inserted \/ e \in dropped)

\* docs/NOTIFICATIONS_VALIDATION.md, case 2: "After reconnect, bell shows event
\* without opening popover", asked of a page at rest.
ShownAfterReconnect ==
  connected /\ sync.stage = "idle" /\ wire = <<>>
    /\ (\A e \in Event : pub[e].stage \in {"none", "done"}) /\ faults = 0
  => \A e \in Inserted : store[e].shown
=============================================================================
