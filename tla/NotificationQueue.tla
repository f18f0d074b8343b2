------------------------- MODULE NotificationQueue -------------------------
(***************************************************************************)
(* Delivery of notifications to paired devices:                            *)
(*   internal/notifications (Queue, ACKTracker, WebSocketDeliverer), the   *)
(*   notifications table of internal/storage, the REST handlers of         *)
(*   internal/handlers/notifications.go and the revocation of a device.    *)
(*                                                                         *)
(* A notification n is one call of Enqueue.  It waits in the buffered      *)
(* channel, a worker stores it as a row and sends it over the device's     *)
(* WebSocket under a fresh token (the UUID of ACKTracker.Register), and    *)
(* the row becomes 'delivered' when the device acknowledges that token.    *)
(* Retries are event driven: a goroutine per device connect                *)
(* (RetryDevice) and one per request of the web UI (RetryNotification).    *)
(*                                                                         *)
(* Payload, type and timestamps are abstracted away; "n \in expired" says  *)
(* that the clock has passed n's expiry.  A connection is abstracted to    *)
(* the devices that have one (module WebSocketHub has the connections).    *)
(***************************************************************************)
EXTENDS Naturals, Sequences, FiniteSets

CONSTANTS
    Notifs,      \* notifications that may be enqueued
    Devices,     \* device IDs
    DeviceOf,    \* the device each notification is addressed to
    Workers,     \* the Queue's worker goroutines
    Retriers,    \* slots for concurrent RetryDevice/RetryNotification calls
    Tokens,      \* slots for outstanding ACK tokens (a free one is a new UUID)
    BufferSize,  \* capacity of notifChan
    MaxRetries,  \* max_retries of every row
    MaxErrors,   \* bound: statements of a behaviour that fail in the database
    Env          \* environment events this instance admits, see Next

Nobody == "nobody"

ASSUME QueueConstants ==
    /\ DeviceOf \in [Notifs -> Devices]
    /\ Workers # {} /\ Workers \cap Retriers = {}
    /\ BufferSize \in Nat \ {0} /\ MaxRetries \in Nat \ {0} /\ MaxErrors \in Nat
    /\ Nobody \notin Notifs \cup Devices

Procs == Workers \cup Retriers

Live == {"pending", "delivered", "failed", "expired", "dismissed"}

VARIABLES
    chan,       \* Queue.notifChan, oldest first
    phase,      \* "running", then "stopping" (channel closed), then "stopped"
    panicked,   \* an Enqueue sent on the closed channel
    row,        \* status column of n's row, "none" when there is no row
    retry,      \* retry_count column
    pc,         \* where each goroutine stands
    cur,        \* the notification it works on
    todo,       \* RetryDevice: rows of its snapshot still to visit
    sawFailed,  \* RetryDevice: rows its snapshot showed as 'failed'
    dev,        \* RetryDevice: the device it was called for
    tracker,    \* ACKTracker.pending: token -> notification
    inbox,      \* messages sent on a device's connection, not yet acknowledged
    acks,       \* ACK calls between tracker.ACK and the OnACK callback
    online,     \* devices with a WebSocket connection
    registered, \* rows of the devices table
    revoking,   \* progress of HandleRevokeDevice
    expired,    \* notifications whose TTL has run out
    errors,     \* statements that have failed so far
    submitted,  \* history: notifications Enqueue has accepted
    stored,     \* history: notifications that have had a row
    gone,       \* history: accepted ones dropped before they had a row
    received    \* history: notifications their device has acknowledged

queueVars == <<chan, phase, panicked>>
table == <<row, retry>>
procVars == <<pc, cur, todo, sawFailed, dev>>
tokenVars == <<tracker, inbox, acks>>
clock == <<expired, errors>>
deviceVars == <<online, registered, revoking>>
history == <<submitted, stored, gone, received>>
vars == <<queueVars, table, procVars, tokenVars, deviceVars, clock, history>>

Message == [tok : Tokens, n : Notifs]

Status == Live \cup {"none"}

PC == {"idle", "done", "persist", "load", "loop", "expire", "reset", "deliver", "update"}

QueueType ==
    /\ chan \in Seq(Notifs) /\ Len(chan) <= BufferSize
    /\ phase \in {"running", "stopping", "stopped"} /\ panicked \in BOOLEAN

TableType == row \in [Notifs -> Status] /\ retry \in [Notifs -> Nat]

ProcType ==
    /\ pc \in [Procs -> PC] /\ cur \in [Procs -> Notifs \cup {Nobody}]
    /\ todo \in [Retriers -> SUBSET Notifs]
    /\ sawFailed \in [Retriers -> SUBSET Notifs]
    /\ dev \in [Retriers -> Devices \cup {Nobody}]

TokenType ==
    /\ tracker \in [Tokens -> Notifs \cup {Nobody}]
    /\ inbox \in [Devices -> SUBSET Message] /\ acks \in SUBSET Message

DeviceType ==
    /\ online \in SUBSET Devices /\ registered \in SUBSET Devices
    /\ revoking \in [Devices -> {"no", "deleted", "cleaned"}]

HistoryType ==
    /\ expired \in SUBSET Notifs /\ errors \in 0..MaxErrors
    /\ submitted \in SUBSET Notifs /\ stored \in SUBSET Notifs
    /\ gone \in SUBSET Notifs /\ received \in SUBSET Notifs

WorkType ==
    \A p \in Procs :
        pc[p] \in {"persist", "expire", "reset", "deliver", "update"} => cur[p] \in Notifs

(* A goroutine past "idle" works on a notification where it needs one, and  *)
(* the shared variables have their types: in particular notifChan never     *)
(* holds more than its capacity.                                            *)
TypeOK ==
    /\ QueueType /\ TableType /\ ProcType /\ TokenType /\ DeviceType /\ HistoryType
    /\ WorkType

Init ==
    /\ chan = <<>> /\ phase = "running" /\ panicked = FALSE
    /\ row = [n \in Notifs |-> "none"]
    /\ retry = [n \in Notifs |-> 0]
    /\ pc = [p \in Procs |-> "idle"]
    /\ cur = [p \in Procs |-> Nobody]
    /\ todo = [r \in Retriers |-> {}]
    /\ sawFailed = [r \in Retriers |-> {}]
    /\ dev = [r \in Retriers |-> Nobody]
    /\ tracker = [t \in Tokens |-> Nobody]
    /\ inbox = [d \in Devices |-> {}]
    /\ acks = {} /\ online = {} /\ registered = Devices
    /\ revoking = [d \in Devices |-> "no"]
    /\ expired = {} /\ errors = 0
    /\ submitted = {} /\ stored = {} /\ gone = {} /\ received = {}

-----------------------------------------------------------------------------
(* The SQL statements.  Each UPDATE and DELETE touches existing rows only. *)

EnqueueNotification(n) ==
    /\ row' = [row EXCEPT ![n] = "pending"]
    /\ retry' = [retry EXCEPT ![n] = 0]
    /\ stored' = stored \cup {n}

\* Mutant: an UPSERT instead of an UPDATE.
SetStatusUpsert(S, status) ==
    row' = [n \in Notifs |-> IF n \in S THEN status ELSE row[n]]

SetStatus(S, status) ==
    row' = [n \in Notifs |-> IF n \in S /\ row[n] # "none" THEN status ELSE row[n]]

MarkNotificationDelivered(n) == SetStatus({n}, "delivered")

MarkNotificationExpired(n) == SetStatus({n}, "expired")

ResetNotificationForRetry(S) ==
    /\ SetStatus(S, "pending")
    /\ retry' = [n \in Notifs |-> IF n \in S /\ row[n] # "none" THEN 0 ELSE retry[n]]

\* Mutant: one attempt too many.
UpdateRetryOffByOne(n) ==
    IF row[n] = "none"
    THEN UNCHANGED <<row, retry>>
    ELSE /\ retry' = [retry EXCEPT ![n] = @ + 1]
         /\ row' = [row EXCEPT ![n] = IF retry[n] + 1 > MaxRetries THEN "failed" ELSE @]

UpdateNotificationRetry(n) ==
    IF row[n] = "none"
    THEN UNCHANGED <<row, retry>>
    ELSE /\ retry' = [retry EXCEPT ![n] = @ + 1]
         /\ row' = [row EXCEPT ![n] = IF retry[n] + 1 >= MaxRetries THEN "failed" ELSE @]

\* Mutant: failed rows are not retried when the device reconnects.
GetPendingOnly(d) ==
    {n \in Notifs : DeviceOf[n] = d /\ row[n] = "pending" /\ n \notin expired}

GetPendingNotifications(d) ==
    {n \in Notifs : DeviceOf[n] = d /\ row[n] \in {"pending", "failed"} /\ n \notin expired}

RowsOf(d, statuses) == {n \in Notifs : DeviceOf[n] = d /\ row[n] \in statuses}

DeleteRows(S) == row' = [n \in Notifs |-> IF n \in S THEN "none" ELSE row[n]]

-----------------------------------------------------------------------------
(* Queue *)

InChan == {chan[i] : i \in 1..Len(chan)}

\* Mutant: the channel takes one notification more than its capacity.
EnqueueOffByOne(n) ==
    /\ n \notin submitted /\ phase = "running"
    /\ Len(chan) <= BufferSize
    /\ chan' = Append(chan, n)
    /\ submitted' = submitted \cup {n}
    /\ UNCHANGED <<phase, panicked, table, procVars, tokenVars, deviceVars,
                   clock, stored, gone, received>>

(* The channel has room.  *)
EnqueueToChannel(n) ==
    /\ n \notin submitted /\ phase = "running"
    /\ Len(chan) < BufferSize
    /\ chan' = Append(chan, n)
    /\ submitted' = submitted \cup {n}
    /\ UNCHANGED <<phase, panicked, table, procVars, tokenVars, deviceVars,
                   clock, stored, gone, received>>

\* Mutant: a full channel drops the notification and reports success.
EnqueueDrops(n) ==
    /\ n \notin submitted /\ phase = "running"
    /\ Len(chan) = BufferSize
    /\ submitted' = submitted \cup {n}
    /\ UNCHANGED <<queueVars, table, procVars, tokenVars, deviceVars, clock,
                   stored, gone, received>>

(* The channel is full: the caller stores the row itself. *)
EnqueueToStorage(n) ==
    /\ n \notin submitted /\ phase = "running"
    /\ Len(chan) = BufferSize
    /\ EnqueueNotification(n)
    /\ submitted' = submitted \cup {n}
    /\ UNCHANGED <<queueVars, procVars, tokenVars, deviceVars, clock, gone,
                   received>>

(* Stop has closed the channel while the HTTP server still serves requests; *)
(* a send on a closed channel panics, select with default or not.           *)
EnqueueAfterStop(n) ==
    /\ n \notin submitted /\ phase # "running"
    /\ panicked' = TRUE
    /\ UNCHANGED <<chan, phase, table, procVars, tokenVars, deviceVars, clock,
                   history>>

(* Queue.Stop: cancel the context and close the channel, then wait. *)
Stop ==
    /\ phase = "running"
    /\ phase' = "stopping"
    /\ UNCHANGED <<chan, panicked, table, procVars, tokenVars, deviceVars,
                   clock, history>>

StopReturns ==
    /\ phase = "stopping" /\ \A w \in Workers : pc[w] = "done"
    /\ phase' = "stopped"
    /\ UNCHANGED <<chan, panicked, table, procVars, tokenVars, deviceVars,
                   clock, history>>

(* worker receives the next notification; processNotification drops it if   *)
(* its TTL has run out.                                                     *)
WorkerTake(w) ==
    /\ pc[w] = "idle" /\ chan # <<>>
    /\ chan' = Tail(chan)
    /\ IF Head(chan) \in expired
       THEN /\ gone' = gone \cup {Head(chan)}
            /\ UNCHANGED <<pc, cur>>
       ELSE /\ pc' = [pc EXCEPT ![w] = "persist"]
            /\ cur' = [cur EXCEPT ![w] = Head(chan)]
            /\ UNCHANGED gone
    /\ UNCHANGED <<phase, panicked, table, todo, sawFailed, dev, tokenVars,
                   deviceVars, clock, submitted, stored, received>>

\* Mutant: the worker leaves as soon as the context is cancelled.
WorkerExitAtOnce(w) ==
    /\ pc[w] = "idle" /\ phase = "stopping"
    /\ pc' = [pc EXCEPT ![w] = "done"]
    /\ UNCHANGED <<queueVars, table, cur, todo, sawFailed, dev, tokenVars,
                   deviceVars, clock, history>>

\* Mutant: the worker ignores that the channel is closed and reads again.
WorkerSpins(w) ==
    /\ pc[w] = "idle" /\ phase = "stopping" /\ chan = <<>>
    /\ UNCHANGED vars

WorkerExit(w) ==
    /\ pc[w] = "idle" /\ phase = "stopping" /\ chan = <<>>
    /\ pc' = [pc EXCEPT ![w] = "done"]
    /\ UNCHANGED <<queueVars, table, cur, todo, sawFailed, dev, tokenVars,
                   deviceVars, clock, history>>

(* processNotification stores the row first.  The insert may fail: a        *)
(* database error, or the foreign key of a device that has been revoked.    *)
(* The key does not always stop it: PRAGMA foreign_keys was set on one      *)
(* connection of the pool only.                                             *)
WorkerPersist(w) ==
    /\ pc[w] = "persist"
    /\ \/ /\ EnqueueNotification(cur[w])
          /\ pc' = [pc EXCEPT ![w] = "deliver"]
          /\ UNCHANGED <<cur, gone>>
       \/ /\ pc' = [pc EXCEPT ![w] = "idle"]
          /\ cur' = [cur EXCEPT ![w] = Nobody]
          /\ gone' = gone \cup {cur[w]}
          /\ UNCHANGED <<table, stored>>
    /\ UNCHANGED <<queueVars, todo, sawFailed, dev, tokenVars, deviceVars,
                   clock, submitted, received>>

-----------------------------------------------------------------------------
(* Delivery, by workers and retriers alike *)

Rest(p) == IF p \in Workers THEN "idle" ELSE "loop"

(* A slot that stands for a UUID never used before.  When all slots are in   *)
(* use a delivery waits: Tokens bounds the tokens outstanding at one time.   *)
FreshToken(t) ==
    /\ tracker[t] = Nobody
    /\ \A m \in acks : m.tok # t
    /\ \A d \in Devices : \A m \in inbox[d] : m.tok # t

\* Mutant: the row is marked delivered when the message is sent.
DeliverMarksRow(p) ==
    /\ pc[p] = "deliver"
    /\ DeviceOf[cur[p]] \in online
    /\ \E t \in Tokens :
          /\ FreshToken(t)
          /\ tracker' = [tracker EXCEPT ![t] = cur[p]]
          /\ inbox' = [inbox EXCEPT ![DeviceOf[cur[p]]] = @ \cup {[tok |-> t, n |-> cur[p]]}]
    /\ MarkNotificationDelivered(cur[p])
    /\ pc' = [pc EXCEPT ![p] = Rest(p)]
    /\ cur' = [cur EXCEPT ![p] = Nobody]
    /\ UNCHANGED <<queueVars, retry, todo, sawFailed, dev, acks, deviceVars,
                   clock, history>>

(* DeliverNotification: Register, SendNotification.  The token is private   *)
(* to this call until the message is on the connection.                     *)
DeliverOK(p) ==
    /\ pc[p] = "deliver"
    /\ DeviceOf[cur[p]] \in online
    /\ \E t \in Tokens :
          /\ FreshToken(t)
          /\ tracker' = [tracker EXCEPT ![t] = cur[p]]
          /\ inbox' = [inbox EXCEPT ![DeviceOf[cur[p]]] = @ \cup {[tok |-> t, n |-> cur[p]]}]
    /\ pc' = [pc EXCEPT ![p] = Rest(p)]
    /\ cur' = [cur EXCEPT ![p] = Nobody]
    /\ UNCHANGED <<queueVars, table, todo, sawFailed, dev, acks, deviceVars,
                   clock, history>>

(* Register, but no connection or a full send buffer: Cancel. *)
DeliverFails(p) ==
    /\ pc[p] = "deliver"
    /\ \E t \in Tokens : FreshToken(t)
    /\ pc' = [pc EXCEPT ![p] = "update"]
    /\ UNCHANGED <<queueVars, table, cur, todo, sawFailed, dev, tokenVars,
                   deviceVars, clock, history>>

RecordFailure(p) ==
    /\ pc[p] = "update"
    /\ UpdateNotificationRetry(cur[p])
    /\ pc' = [pc EXCEPT ![p] = Rest(p)]
    /\ cur' = [cur EXCEPT ![p] = Nobody]
    /\ UNCHANGED <<queueVars, todo, sawFailed, dev, tokenVars, deviceVars,
                   clock, history>>

-----------------------------------------------------------------------------
(* Retries *)

(* RetryDevice reads its snapshot of the device's undelivered rows. *)
RetryDeviceLoad(r) ==
    /\ pc[r] = "load"
    /\ todo' = [todo EXCEPT ![r] = GetPendingNotifications(dev[r])]
    /\ sawFailed' = [sawFailed EXCEPT ![r] = {n \in todo'[r] : row[n] = "failed"}]
    /\ pc' = [pc EXCEPT ![r] = "loop"]
    /\ UNCHANGED <<queueVars, table, cur, dev, tokenVars, deviceVars, clock,
                   history>>

(* created_at has a resolution of one second, so rows come in any order. *)
RetryDeviceNext(r) ==
    /\ pc[r] = "loop"
    /\ \E n \in todo[r] :
          /\ cur' = [cur EXCEPT ![r] = n]
          /\ todo' = [todo EXCEPT ![r] = @ \ {n}]
          /\ pc' = [pc EXCEPT ![r] = IF n \in expired THEN "expire"
                                     ELSE IF n \in sawFailed[r] THEN "reset"
                                     ELSE "deliver"]
    /\ UNCHANGED <<queueVars, table, sawFailed, dev, tokenVars, deviceVars,
                   clock, history>>

RetryReturns(r) ==
    /\ pc[r] = "loop" /\ todo[r] = {}
    /\ pc' = [pc EXCEPT ![r] = "idle"]
    /\ dev' = [dev EXCEPT ![r] = Nobody]
    /\ sawFailed' = [sawFailed EXCEPT ![r] = {}]
    /\ UNCHANGED <<queueVars, table, cur, todo, tokenVars, deviceVars, clock,
                   history>>

(* RetryNotification: the row exists and its device is connected. *)
RetryNotification(r, n) ==
    /\ pc[r] = "idle" /\ row[n] # "none" /\ DeviceOf[n] \in online
    /\ cur' = [cur EXCEPT ![r] = n]
    /\ pc' = [pc EXCEPT ![r] = IF n \in expired THEN "expire" ELSE "reset"]
    /\ UNCHANGED <<queueVars, table, todo, sawFailed, dev, tokenVars,
                   deviceVars, clock, history>>

(* The read fails and RetryDevice returns the error. *)
RetryDeviceLoadError(r) ==
    /\ errors < MaxErrors /\ errors' = errors + 1
    /\ pc[r] = "load"
    /\ pc' = [pc EXCEPT ![r] = "idle"]
    /\ dev' = [dev EXCEPT ![r] = Nobody]
    /\ UNCHANGED <<queueVars, table, cur, todo, sawFailed, tokenVars,
                   deviceVars, expired, history>>

RetryExpire(r) ==
    /\ pc[r] = "expire"
    /\ MarkNotificationExpired(cur[r])
    /\ pc' = [pc EXCEPT ![r] = "loop"]
    /\ cur' = [cur EXCEPT ![r] = Nobody]
    /\ UNCHANGED <<queueVars, retry, todo, sawFailed, dev, tokenVars,
                   deviceVars, clock, history>>

(* A row deleted meanwhile: RetryDevice skips it, RetryNotification only    *)
(* logs the error and sends all the same.                                   *)
RetryReset(r) ==
    /\ pc[r] = "reset"
    /\ ResetNotificationForRetry({cur[r]})
    /\ IF row[cur[r]] = "none" /\ dev[r] # Nobody
       THEN /\ pc' = [pc EXCEPT ![r] = "loop"]
            /\ cur' = [cur EXCEPT ![r] = Nobody]
       ELSE /\ pc' = [pc EXCEPT ![r] = "deliver"]
            /\ UNCHANGED cur
    /\ UNCHANGED <<queueVars, todo, sawFailed, dev, tokenVars, deviceVars,
                   clock, history>>

(* A write of RecordFailure, RetryExpire or RetryReset fails: the error is  *)
(* logged and the goroutine goes on, past the delivery when RetryDevice     *)
(* could not reset the row.                                                 *)
WriteError(p) ==
    /\ errors < MaxErrors /\ errors' = errors + 1
    /\ pc[p] \in {"update", "expire", "reset"}
    /\ IF pc[p] = "reset" /\ dev[p] = Nobody
       THEN /\ pc' = [pc EXCEPT ![p] = "deliver"]
            /\ UNCHANGED cur
       ELSE /\ pc' = [pc EXCEPT ![p] = Rest(p)]
            /\ cur' = [cur EXCEPT ![p] = Nobody]
    /\ UNCHANGED <<queueVars, table, todo, sawFailed, dev, tokenVars,
                   deviceVars, expired, history>>

-----------------------------------------------------------------------------
(* Acknowledgements *)

(* handleNotificationACK -> ACKTracker.ACK under the tracker's lock. *)
ACK(d, m) ==
    /\ d \in online /\ m \in inbox[d]
    /\ inbox' = [inbox EXCEPT ![d] = @ \ {m}]
    /\ received' = received \cup {m.n}
    /\ IF tracker[m.tok] # Nobody
       THEN /\ acks' = acks \cup {[tok |-> m.tok, n |-> tracker[m.tok]]}
            /\ tracker' = [tracker EXCEPT ![m.tok] = Nobody]
       ELSE UNCHANGED <<acks, tracker>>
    /\ UNCHANGED <<queueVars, table, procVars, deviceVars, clock, submitted,
                   stored, gone>>

(* The OnACK callback, outside the lock. *)
OnACK(m) ==
    /\ m \in acks
    /\ acks' = acks \ {m}
    /\ MarkNotificationDelivered(m.n)
    /\ UNCHANGED <<queueVars, retry, procVars, tracker, inbox, deviceVars,
                   clock, history>>

(* MarkNotificationDelivered fails: the error is logged, the row stays. *)
OnACKError(m) ==
    /\ errors < MaxErrors /\ errors' = errors + 1
    /\ m \in acks
    /\ acks' = acks \ {m}
    /\ UNCHANGED <<queueVars, table, procVars, tracker, inbox, deviceVars,
                   expired, history>>

(* checkTimeouts forgets a token; OnTimeout only logs. *)
CheckTimeouts(t) ==
    /\ tracker[t] # Nobody
    /\ tracker' = [tracker EXCEPT ![t] = Nobody]
    /\ UNCHANGED <<queueVars, table, procVars, inbox, acks, deviceVars, clock,
                   history>>

-----------------------------------------------------------------------------
(* Requests of the web UI *)

DismissNotification(n) ==
    /\ row[n] = "pending"
    /\ SetStatus({n}, "dismissed")
    /\ UNCHANGED <<queueVars, retry, procVars, tokenVars, deviceVars, clock,
                   history>>

DismissNotificationsForDevice(d) ==
    /\ RowsOf(d, {"pending"}) # {}
    /\ SetStatus(RowsOf(d, {"pending"}), "dismissed")
    /\ UNCHANGED <<queueVars, retry, procVars, tokenVars, deviceVars, clock,
                   history>>

BulkRetryNotifications(S) ==
    /\ S # {}
    /\ ResetNotificationForRetry(S)
    /\ UNCHANGED <<queueVars, procVars, tokenVars, deviceVars, clock, history>>

ClearDeliveredNotifications ==
    /\ DeleteRows({n \in Notifs : row[n] = "delivered"})
    /\ UNCHANGED <<queueVars, retry, procVars, tokenVars, deviceVars, clock,
                   history>>

-----------------------------------------------------------------------------
(* Devices *)

(* The manager's connect callback starts RetryDevice in a goroutine. *)
DeviceConnect(d, r) ==
    /\ d \in registered /\ pc[r] = "idle"
    /\ online' = online \cup {d}
    /\ pc' = [pc EXCEPT ![r] = "load"]
    /\ dev' = [dev EXCEPT ![r] = d]
    /\ UNCHANGED <<queueVars, table, cur, todo, sawFailed, tokenVars,
                   registered, revoking, clock, history>>

(* What was sent and not acknowledged dies with the connection. *)
DropConnection(d) ==
    /\ online' = online \ {d}
    /\ inbox' = [inbox EXCEPT ![d] = {}]

DeviceDisconnect(d) ==
    /\ d \in online
    /\ DropConnection(d)
    /\ UNCHANGED <<queueVars, table, procVars, tracker, acks, registered,
                   revoking, clock, history>>

(* HandleRevokeDevice: delete the device (its rows go with it when the      *)
(* connection used enforces foreign keys), delete its pending rows, then    *)
(* disconnect it.                                                           *)
RevokeDelete(d) ==
    /\ d \in registered /\ revoking[d] = "no"
    /\ registered' = registered \ {d}
    /\ \/ DeleteRows(RowsOf(d, Live))
       \/ UNCHANGED row
    /\ revoking' = [revoking EXCEPT ![d] = "deleted"]
    /\ UNCHANGED <<queueVars, retry, procVars, tokenVars, online, clock,
                   history>>

RevokeClean(d) ==
    /\ revoking[d] = "deleted"
    /\ DeleteRows(RowsOf(d, {"pending"}))
    /\ revoking' = [revoking EXCEPT ![d] = "cleaned"]
    /\ UNCHANGED <<queueVars, retry, procVars, tokenVars, online, registered,
                   clock, history>>

RevokeDisconnect(d) ==
    /\ revoking[d] = "cleaned"
    /\ DropConnection(d)
    /\ revoking' = [revoking EXCEPT ![d] = "no"]
    /\ UNCHANGED <<queueVars, table, procVars, tracker, acks, registered,
                   clock, history>>

(* The device is paired again under the same ID. *)
Pair(d) ==
    /\ d \notin registered
    /\ registered' = registered \cup {d}
    /\ UNCHANGED <<queueVars, table, procVars, tokenVars, online, revoking,
                   clock, history>>

-----------------------------------------------------------------------------
(* Environment *)

TimePasses(n) ==
    /\ n \in submitted \ expired
    /\ expired' = expired \cup {n}
    /\ UNCHANGED <<errors, queueVars, table, procVars, tokenVars, deviceVars, history>>

Holding == {cur[w] : w \in {v \in Workers : pc[v] = "persist"}}

(* The process dies and starts again; only the tables survive. *)
CrashRestart ==
    /\ chan' = <<>> /\ phase' = "running"
    /\ pc' = [p \in Procs |-> "idle"]
    /\ cur' = [p \in Procs |-> Nobody]
    /\ todo' = [r \in Retriers |-> {}]
    /\ sawFailed' = [r \in Retriers |-> {}]
    /\ dev' = [r \in Retriers |-> Nobody]
    /\ tracker' = [t \in Tokens |-> Nobody]
    /\ inbox' = [d \in Devices |-> {}]
    /\ acks' = {} /\ online' = {}
    /\ revoking' = [d \in Devices |-> "no"]
    /\ gone' = gone \cup InChan \cup Holding
    /\ UNCHANGED <<panicked, table, registered, clock, submitted, stored,
                   received>>

Enqueue(n) == EnqueueToChannel(n) \/ EnqueueToStorage(n) \/ EnqueueAfterStop(n)

Worker(w) == WorkerTake(w) \/ WorkerExit(w) \/ WorkerPersist(w)

Deliver(p) == DeliverOK(p) \/ DeliverFails(p) \/ RecordFailure(p)

Retry(r) ==
    \/ RetryDeviceLoad(r) \/ RetryDeviceNext(r) \/ RetryReturns(r)
    \/ RetryExpire(r) \/ RetryReset(r)

WebUI ==
    \/ \E r \in Retriers, n \in Notifs : RetryNotification(r, n)
    \/ \E n \in Notifs : DismissNotification(n)
    \/ \E d \in Devices : DismissNotificationsForDevice(d)
    \/ \E S \in SUBSET Notifs : BulkRetryNotifications(S)
    \/ ClearDeliveredNotifications

Device(d) ==
    \/ \E r \in Retriers : DeviceConnect(d, r)
    \/ DeviceDisconnect(d)
    \/ \E m \in Message : ACK(d, m)

Revoke(d) == RevokeDelete(d) \/ RevokeClean(d) \/ RevokeDisconnect(d) \/ Pair(d)

\* At most MaxErrors of these happen in a behaviour.
StorageErrors ==
    \/ \E r \in Retriers : RetryDeviceLoadError(r) \/ WriteError(r)
    \/ \E w \in Workers : WriteError(w)
    \/ \E m \in Message : OnACKError(m)

Core ==
    \/ \E n \in Notifs : Enqueue(n)
    \/ \E w \in Workers : Worker(w)
    \/ \E p \in Procs : Deliver(p)
    \/ \E r \in Retriers : Retry(r)
    \/ \E m \in Message : OnACK(m)
    \/ \E t \in Tokens : CheckTimeouts(t)
    \/ \E d \in Devices : Device(d)

Next ==
    \/ Core
    \/ "expiry" \in Env /\ \E n \in Notifs : TimePasses(n)
    \/ "revoke" \in Env /\ \E d \in Devices : Revoke(d)
    \/ "webui" \in Env /\ WebUI
    \/ StorageErrors
    \/ "stop" \in Env /\ (Stop \/ StopReturns)
    \/ "crash" \in Env /\ CrashRestart

Spec == Init /\ [][Next]_vars

-----------------------------------------------------------------------------
(* Safety *)

(* The status column and the retry counter agree whatever retries, resets,  *)
(* acknowledgements and dismissals interleave: a row that counts as         *)
(* 'pending' still has an attempt left, and 'failed' means that             *)
(* max_retries attempts were counted (UpdateNotificationRetry).             *)
RetryAccounting ==
    \A n \in Notifs :
        /\ row[n] = "pending" => retry[n] < MaxRetries
        /\ row[n] = "failed" => retry[n] >= MaxRetries

(* "Do NOT mark as delivered here - that happens when client ACKs": a row   *)
(* is 'delivered' only if its own device acknowledged a message carrying    *)
(* this very notification, although tokens time out, are acknowledged late  *)
(* and several may be outstanding for one row.                              *)
DeliveredMeansAcked == \A n \in Notifs : row[n] = "delivered" => n \in received

(* What an acknowledgement in progress and the tracker know of a token is   *)
(* what was sent under that token.                                          *)
TokensAgree ==
    /\ \A m \in acks : m.n \in received
    /\ \A d \in Devices : \A m \in inbox[d] :
          /\ tracker[m.tok] \in {m.n, Nobody}
          /\ DeviceOf[m.n] = d

(* Every accepted notification is in exactly one place: the channel, a      *)
(* worker that has not stored it yet, the table (it had a row), or it was   *)
(* dropped for a named reason (TTL over, insert failed, crash).  So the     *)
(* fallback to storage, the workers and a shutdown neither lose one nor     *)
(* store it twice.                                                          *)
AcceptedExactlyOnce ==
    /\ submitted = InChan \cup Holding \cup stored \cup gone
    /\ InChan \cap (Holding \cup stored \cup gone) = {}
    /\ Holding \cap (stored \cup gone) = {}
    /\ stored \cap gone = {}
    /\ \A i, j \in 1..Len(chan) : chan[i] = chan[j] => i = j
    /\ \A v, w \in Workers :
          pc[v] = "persist" /\ pc[w] = "persist" /\ cur[v] = cur[w] => v = w

(* When Stop has returned, nothing accepted is left in memory: the workers  *)
(* drained the channel and every notification was stored or dropped.        *)
StopDrains == phase = "stopped" => chan = <<>> /\ Holding = {}

(* A worker leaves its loop only after Stop and with the channel empty, and *)
(* Stop waits for all of them: the inductive form of StopDrains.            *)
DoneMeansDrained ==
    /\ \A w \in Workers : pc[w] = "done" => phase # "running" /\ chan = <<>>
    /\ phase = "stopped" => \A w \in Workers : pc[w] = "done"

\* A notification in the terms of NotificationLife.
notificationLife ==
    [n \in Notifs |->
        IF n \in stored THEN IF row[n] = "none" THEN "deleted" ELSE row[n]
        ELSE IF n \in gone THEN "lost"
        ELSE IF n \in submitted THEN "memory" ELSE "new"]

Notification == INSTANCE NotificationLife WITH life <- notificationLife, acked <- received

(* What is sent, or may be sent without another look at the table, has had  *)
(* a row: the worker stores first, and retries start from rows.             *)
SentWasStored ==
    /\ \A n \in Notifs : row[n] # "none" => n \in stored
    /\ \A d \in Devices : \A m \in inbox[d] : m.n \in stored
    /\ \A p \in Procs : pc[p] \in {"reset", "deliver"} => cur[p] \in stored
    /\ \A r \in Retriers : todo[r] \subseteq stored

(* The queue, the table, the tracker and the handlers implement             *)
(* NotificationLife: a notification is stored at most once, what is stored  *)
(* is never lost, and a row that was cleared or removed with its device is  *)
(* never back, however late a retry, an acknowledgement or a failure report *)
(* for it runs.                                                             *)
NotificationsLiveOnce == Notification!LifeSpec

-----------------------------------------------------------------------------
(* What comments and documents claim and the code does not do *)

(* Shutdown: "Shutdown HTTP server first to stop accepting new requests".   *)
(* The queue's channel is closed before the HTTP server is shut down.       *)
NoSendOnClosedChannel == ~panicked

-----------------------------------------------------------------------------
(* Liveness *)

(* Goroutines that can run are run by the Go scheduler; a device keeps      *)
(* opening connections and answers on them, and a send to a connected       *)
(* device does not fail for ever.                                           *)
Fairness ==
    /\ \A w \in Workers : WF_vars(Worker(w))
    /\ \A p \in Procs : WF_vars(Deliver(p))
    /\ \A r \in Retriers : WF_vars(Retry(r))
    /\ \A m \in Message : WF_vars(OnACK(m))
    /\ \A t \in Tokens : WF_vars(CheckTimeouts(t))
    /\ WF_vars(StopReturns)

DeviceFairness ==
    /\ \A d \in Devices : SF_vars(\E r \in Retriers : DeviceConnect(d, r))
    /\ \A p \in Procs, n \in Notifs : SF_vars(DeliverOK(p) /\ cur[p] = n)
    /\ \A d \in Devices, n \in Notifs : SF_vars(\E m \in Message : m.n = n /\ ACK(d, m))

FairDeviceSpec == Spec /\ Fairness /\ DeviceFairness

(* What Stop needs: workers go on, whether or not their sends succeed.      *)
StopFairness ==
    /\ \A w \in Workers : WF_vars(Worker(w) \/ Deliver(w))
    /\ WF_vars(StopReturns)

(* Queue.Stop returns: no worker waits for ever on the closed channel. *)
StopTerminates == phase = "stopping" ~> phase # "stopping"

(* "This ensures offline devices receive notifications when they            *)
(* reconnect": an accepted notification reaches its device if the device    *)
(* stays connected from some time on and keeps reconnecting, unless it      *)
(* expires, is dismissed, deleted or dropped before it had a row.  Rows     *)
(* that ran out of attempts ('failed') and rows stored because the channel  *)
(* was full are no exception: RetryDevice picks up both.                    *)
Settled(n) ==
    \/ n \in received \cup gone \cup expired
    \/ row[n] = "dismissed" \/ (n \in stored /\ row[n] = "none")

EventuallyReceived ==
    \A n \in Notifs :
        <>[](DeviceOf[n] \in online) => (n \in submitted ~> Settled(n))
=============================================================================
