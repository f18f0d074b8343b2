---------------------- MODULE NotificationQueueProofs ----------------------
(***************************************************************************)
(* Proofs about NotificationQueue, for every number of notifications,      *)
(* devices, goroutines, tokens and every bound.                            *)
(***************************************************************************)
EXTENDS NotificationQueue, TLAPS

USE DEF Procs, Message, Live, Status, PC, queueVars, table, procVars, tokenVars,
        deviceVars, clock, history

-----------------------------------------------------------------------------
(* Types *)

(* The state Init describes is well typed. *)
LEMMA InitTypes == Init => TypeOK
  <1> SUFFICES ASSUME Init PROVE TypeOK
    OBVIOUS
  <1>1. QueueType
    <2>1. chan \in Seq(Notifs) /\ Len(chan) <= BufferSize
      BY QueueConstants DEF Init
    <2> QED BY <2>1 DEF Init, QueueType
  <1>5. HistoryType
    BY QueueConstants DEF Init, HistoryType
  <1>2. TableType /\ DeviceType
    BY DEF Init, TableType, DeviceType
  <1>3. ProcType /\ WorkType
    BY DEF Init, ProcType, WorkType
  <1>4. TokenType
    BY DEF Init, TokenType
  <1> QED BY <1>1, <1>2, <1>3, <1>4, <1>5 DEF TypeOK

(* The SQL statements keep the columns well typed. *)
LEMMA StatementTypes ==
    ASSUME TableType, NEW n \in Notifs, NEW S \in SUBSET Notifs, NEW s \in Live
    PROVE  /\ EnqueueNotification(n) => TableType'
           /\ SetStatus(S, s) /\ UNCHANGED retry => TableType'
           /\ DeleteRows(S) /\ UNCHANGED retry => TableType'
           /\ ResetNotificationForRetry(S) => TableType'
           /\ UpdateNotificationRetry(n) => TableType'
  <1>1. EnqueueNotification(n) => TableType'
    BY DEF EnqueueNotification, TableType
  <1>2. SetStatus(S, s) /\ UNCHANGED retry => TableType'
    BY DEF SetStatus, TableType
  <1>3. DeleteRows(S) /\ UNCHANGED retry => TableType'
    BY DEF DeleteRows, TableType
  <1>4. ResetNotificationForRetry(S) => TableType'
    BY DEF ResetNotificationForRetry, SetStatus, TableType
  <1>5. UpdateNotificationRetry(n) => TableType'
    BY DEF UpdateNotificationRetry, TableType
  <1> QED BY <1>1, <1>2, <1>3, <1>4, <1>5

(* Every action keeps the state well typed. *)
LEMMA StepTypes == TypeOK /\ [Next]_vars => TypeOK'
  <1> SUFFICES ASSUME TypeOK, [Next]_vars PROVE TypeOK'
    OBVIOUS
  <1> USE QueueConstants
  <1> USE DEF TypeOK, QueueType, TableType, ProcType, TokenType, DeviceType, HistoryType,
              WorkType
  <1>1. ASSUME NEW n \in Notifs, EnqueueToChannel(n) PROVE TypeOK'
    BY <1>1 DEF EnqueueToChannel
  <1>2. ASSUME NEW n \in Notifs, EnqueueToStorage(n) PROVE TypeOK'
    BY <1>2 DEF EnqueueToStorage, EnqueueNotification
  <1>3. ASSUME NEW n \in Notifs, EnqueueAfterStop(n) PROVE TypeOK'
    BY <1>3 DEF EnqueueAfterStop
  <1>4. ASSUME Stop PROVE TypeOK'
    BY <1>4 DEF Stop
  <1>5. ASSUME StopReturns PROVE TypeOK'
    BY <1>5 DEF StopReturns
  <1>6. ASSUME NEW w \in Workers, WorkerTake(w) PROVE TypeOK'
    <2>1. chan # <<>> /\ Head(chan) \in Notifs /\ Tail(chan) \in Seq(Notifs)
            /\ Len(Tail(chan)) <= BufferSize
      BY <1>6 DEF WorkerTake
    <2>2. CASE Head(chan) \in expired
      BY <1>6, <2>1, <2>2 DEF WorkerTake
    <2>3. CASE Head(chan) \notin expired
      <3>1. pc' = [pc EXCEPT ![w] = "persist"] /\ cur' = [cur EXCEPT ![w] = Head(chan)]
              /\ UNCHANGED gone
        BY <1>6, <2>3 DEF WorkerTake
      <3>2. ProcType' /\ WorkType'
        BY <1>6, <2>1, <3>1 DEF WorkerTake
      <3> QED BY <1>6, <2>1, <3>1, <3>2 DEF WorkerTake
    <2> QED BY <2>2, <2>3
  <1>7. ASSUME NEW w \in Workers, WorkerExit(w) PROVE TypeOK'
    BY <1>7 DEF WorkerExit
  <1>8. ASSUME NEW w \in Workers, WorkerPersist(w) PROVE TypeOK'
    <2>1. cur[w] \in Notifs
      BY <1>8 DEF WorkerPersist
    <2>2. CASE EnqueueNotification(cur[w])
      <3>1. TableType'
        BY ONLY <2>1, <2>2, TableType, StatementTypes
      <3>2. ProcType' /\ WorkType'
        BY <1>8, <2>1 DEF WorkerPersist
      <3>3. HistoryType'
        BY <1>8, <2>1 DEF WorkerPersist, EnqueueNotification
      <3> QED BY <1>8, <3>1, <3>2, <3>3 DEF WorkerPersist
    <2>3. CASE UNCHANGED table
      BY <1>8, <2>1, <2>3 DEF WorkerPersist, EnqueueNotification
    <2> QED BY <1>8, <2>2, <2>3 DEF WorkerPersist
  <1>9. ASSUME NEW p \in Procs, DeliverOK(p) PROVE TypeOK'
    BY <1>9 DEF DeliverOK, Rest
  <1>10. ASSUME NEW p \in Procs, DeliverFails(p) PROVE TypeOK'
    BY <1>10 DEF DeliverFails
  <1>11. ASSUME NEW p \in Procs, RecordFailure(p) PROVE TypeOK'
    <2>1. cur[p] \in Notifs
      BY <1>11 DEF RecordFailure
    <2>2. TableType'
      BY ONLY <1>11, <2>1, TableType, StatementTypes DEF RecordFailure
    <2> QED BY <1>11, <2>1, <2>2 DEF RecordFailure, Rest
  <1>12. ASSUME NEW r \in Retriers, RetryDeviceLoad(r) PROVE TypeOK'
    BY <1>12 DEF RetryDeviceLoad, GetPendingNotifications
  <1>13. ASSUME NEW r \in Retriers, RetryDeviceNext(r) PROVE TypeOK'
    BY <1>13 DEF RetryDeviceNext
  <1>14. ASSUME NEW r \in Retriers, RetryReturns(r) PROVE TypeOK'
    BY <1>14 DEF RetryReturns
  <1>15. ASSUME NEW r \in Retriers, NEW n \in Notifs, RetryNotification(r, n) PROVE TypeOK'
    BY <1>15 DEF RetryNotification
  <1>16. ASSUME NEW r \in Retriers, RetryDeviceLoadError(r) PROVE TypeOK'
    BY <1>16 DEF RetryDeviceLoadError
  <1>17. ASSUME NEW r \in Retriers, RetryExpire(r) PROVE TypeOK'
    BY <1>17 DEF RetryExpire, MarkNotificationExpired, SetStatus
  <1>18. ASSUME NEW r \in Retriers, RetryReset(r) PROVE TypeOK'
    <2>1. cur[r] \in Notifs
      BY <1>18 DEF RetryReset
    <2>2. TableType'
      BY ONLY <1>18, <2>1, TableType, StatementTypes DEF RetryReset
    <2>3. CASE row[cur[r]] = "none" /\ dev[r] # Nobody
      <3>1. pc' = [pc EXCEPT ![r] = "loop"] /\ cur' = [cur EXCEPT ![r] = Nobody]
        BY <1>18, <2>3 DEF RetryReset
      <3>2. ProcType' /\ WorkType'
        BY <1>18, <3>1 DEF RetryReset
      <3> QED BY <1>18, <2>2, <3>2 DEF RetryReset
    <2>4. CASE ~(row[cur[r]] = "none" /\ dev[r] # Nobody)
      BY <1>18, <2>1, <2>2, <2>4 DEF RetryReset
    <2> QED BY <2>3, <2>4
  <1>19. ASSUME NEW p \in Procs, WriteError(p) PROVE TypeOK'
    <2>1. cur[p] \in Notifs
      BY <1>19 DEF WriteError
    <2>2. CASE pc[p] = "reset" /\ dev[p] = Nobody
      <3>1. pc' = [pc EXCEPT ![p] = "deliver"] /\ UNCHANGED cur
        BY <1>19, <2>2 DEF WriteError
      <3>2. ProcType' /\ WorkType'
        BY <1>19, <2>1, <3>1 DEF WriteError
      <3> QED BY <1>19, <3>2 DEF WriteError
    <2>3. CASE ~(pc[p] = "reset" /\ dev[p] = Nobody)
      <3>1. pc' = [pc EXCEPT ![p] = Rest(p)] /\ cur' = [cur EXCEPT ![p] = Nobody]
        BY <1>19, <2>3 DEF WriteError
      <3>2. ProcType' /\ WorkType'
        BY <1>19, <3>1 DEF WriteError, Rest
      <3> QED BY <1>19, <3>2 DEF WriteError
    <2> QED BY <2>2, <2>3
  <1>20. ASSUME NEW d \in Devices, NEW m \in Message, ACK(d, m) PROVE TypeOK'
    BY <1>20 DEF ACK
  <1>21. ASSUME NEW m \in Message, OnACK(m) PROVE TypeOK'
    BY <1>21 DEF OnACK, MarkNotificationDelivered, SetStatus
  <1>22. ASSUME NEW m \in Message, OnACKError(m) PROVE TypeOK'
    BY <1>22 DEF OnACKError
  <1>23. ASSUME NEW t \in Tokens, CheckTimeouts(t) PROVE TypeOK'
    BY <1>23 DEF CheckTimeouts
  <1>24. ASSUME NEW n \in Notifs, DismissNotification(n) PROVE TypeOK'
    BY <1>24 DEF DismissNotification, SetStatus
  <1>25. ASSUME NEW d \in Devices, DismissNotificationsForDevice(d) PROVE TypeOK'
    BY <1>25 DEF DismissNotificationsForDevice, SetStatus
  <1>26. ASSUME NEW S \in SUBSET Notifs, BulkRetryNotifications(S) PROVE TypeOK'
    BY <1>26 DEF BulkRetryNotifications, ResetNotificationForRetry, SetStatus
  <1>27. ASSUME ClearDeliveredNotifications PROVE TypeOK'
    BY <1>27 DEF ClearDeliveredNotifications, DeleteRows
  <1>28. ASSUME NEW d \in Devices, NEW r \in Retriers, DeviceConnect(d, r) PROVE TypeOK'
    BY <1>28 DEF DeviceConnect
  <1>29. ASSUME NEW d \in Devices, DeviceDisconnect(d) PROVE TypeOK'
    BY <1>29 DEF DeviceDisconnect, DropConnection
  <1>30. ASSUME NEW d \in Devices, RevokeDelete(d) PROVE TypeOK'
    BY <1>30 DEF RevokeDelete, DeleteRows
  <1>31. ASSUME NEW d \in Devices, RevokeClean(d) PROVE TypeOK'
    BY <1>31 DEF RevokeClean, DeleteRows
  <1>32. ASSUME NEW d \in Devices, RevokeDisconnect(d) PROVE TypeOK'
    BY <1>32 DEF RevokeDisconnect, DropConnection
  <1>33. ASSUME NEW d \in Devices, Pair(d) PROVE TypeOK'
    BY <1>33 DEF Pair
  <1>34. ASSUME NEW n \in Notifs, TimePasses(n) PROVE TypeOK'
    BY <1>34 DEF TimePasses
  <1>35. ASSUME CrashRestart PROVE TypeOK'
    <2>1. InChan \in SUBSET Notifs
      BY DEF InChan
    <2>2. Holding \in SUBSET Notifs
      BY DEF Holding
    <2> QED BY <1>35, <2>1, <2>2 DEF CrashRestart
  <1>36. CASE UNCHANGED vars
    BY <1>36 DEF vars
  <1> QED
    BY <1>1, <1>2, <1>3, <1>4, <1>5, <1>6, <1>7, <1>8, <1>9, <1>10, <1>11,
       <1>12, <1>13, <1>14, <1>15, <1>16, <1>17, <1>18, <1>19, <1>20, <1>21,
       <1>22, <1>23, <1>24, <1>25, <1>26, <1>27, <1>28, <1>29, <1>30, <1>31,
       <1>32, <1>33, <1>34, <1>35, <1>36 DEF Next, Core, Enqueue, Worker,
       Deliver, Retry, WebUI, Device, Revoke, StorageErrors

(* notifChan, the table, the goroutines, the tracker and the devices have   *)
(* their types in every state of every instance: in particular the channel  *)
(* never exceeds its capacity and a goroutine that stores, sends or records *)
(* has a notification in hand.                                              *)
THEOREM QueueTypeCorrect == Spec => []TypeOK
  BY InitTypes, StepTypes, PTL DEF Spec

-----------------------------------------------------------------------------
(* One move at a time *)

(* What a statement other than the INSERT may do to the notifications table. *)
RowStatement ==
    \/ \E m \in acks : MarkNotificationDelivered(m.n) /\ UNCHANGED retry
    \/ \E n \in Notifs : MarkNotificationExpired(n) /\ UNCHANGED retry
    \/ \E S \in SUBSET {n \in Notifs : row[n] = "pending"} :
          SetStatus(S, "dismissed") /\ UNCHANGED retry
    \/ \E S \in SUBSET Notifs : ResetNotificationForRetry(S)
    \/ \E n \in Notifs : UpdateNotificationRetry(n)
    \/ \E S \in SUBSET Notifs : DeleteRows(S) /\ UNCHANGED retry

Accepts(n) ==
    /\ n \notin submitted /\ submitted' = submitted \cup {n}
    /\ UNCHANGED <<gone, received>>
    /\ UNCHANGED <<table, stored>> \/ EnqueueNotification(n)

Stores(n) ==
    n \in Holding /\ EnqueueNotification(n) /\ UNCHANGED <<submitted, gone, received>>

Drops(S) ==
    /\ S \subseteq InChan \cup Holding
    /\ gone' = gone \cup S
    /\ UNCHANGED <<table, submitted, stored, received>>

Receives(n) ==
    /\ \E d \in Devices : \E m \in inbox[d] : m.n = n
    /\ received' = received \cup {n}
    /\ UNCHANGED <<table, submitted, stored, gone>>

(* What a step may do to the table and to what has been accepted, stored,   *)
(* dropped and acknowledged.                                                *)
OneMove ==
    \/ UNCHANGED <<table, history>>
    \/ \E n \in Notifs : Accepts(n) \/ Stores(n) \/ Receives(n)
    \/ \E S \in SUBSET Notifs : Drops(S)
    \/ RowStatement /\ UNCHANGED history

(* Every step of the system is at most one such move. *)
LEMMA StepIsOneMove == TypeOK /\ [Next]_vars => OneMove
  <1> SUFFICES ASSUME TypeOK, [Next]_vars PROVE OneMove
    OBVIOUS
  <1> USE DEF OneMove
  <1>1. ASSUME NEW n \in Notifs, EnqueueToChannel(n) PROVE OneMove
    BY <1>1 DEF EnqueueToChannel, Accepts
  <1>2. ASSUME NEW n \in Notifs, EnqueueToStorage(n) PROVE OneMove
    BY <1>2 DEF EnqueueToStorage, Accepts, EnqueueNotification
  <1>3. ASSUME NEW n \in Notifs, EnqueueAfterStop(n) PROVE OneMove
    BY <1>3 DEF EnqueueAfterStop
  <1>4. ASSUME Stop PROVE OneMove
    BY <1>4 DEF Stop
  <1>5. ASSUME StopReturns PROVE OneMove
    BY <1>5 DEF StopReturns
  <1>6. ASSUME NEW w \in Workers, WorkerTake(w) PROVE OneMove
    <2>1. Head(chan) \in InChan /\ InChan \subseteq Notifs
      BY <1>6 DEF WorkerTake, InChan, TypeOK, QueueType
    <2>2. CASE Head(chan) \in expired
      <3>1. Drops({Head(chan)})
        BY <1>6, <2>1, <2>2 DEF WorkerTake, Drops
      <3> QED BY <2>1, <3>1
    <2>3. CASE Head(chan) \notin expired
      BY <1>6, <2>3 DEF WorkerTake
    <2> QED BY <2>2, <2>3
  <1>7. ASSUME NEW w \in Workers, WorkerExit(w) PROVE OneMove
    BY <1>7 DEF WorkerExit
  <1>8. ASSUME NEW w \in Workers, WorkerPersist(w) PROVE OneMove
    <2>1. cur[w] \in Notifs
      BY <1>8 DEF TypeOK, WorkType, WorkerPersist
    <2>2. cur[w] \in Holding
      BY <1>8 DEF WorkerPersist, Holding
    <2>3. CASE EnqueueNotification(cur[w]) /\ UNCHANGED gone
      BY <1>8, <2>1, <2>2, <2>3 DEF WorkerPersist, Stores
    <2>4. CASE gone' = gone \cup {cur[w]} /\ UNCHANGED <<table, stored>>
      <3>1. Drops({cur[w]})
        BY <1>8, <2>2, <2>4 DEF WorkerPersist, Drops
      <3> QED BY <2>1, <3>1
    <2> QED BY <1>8, <2>3, <2>4 DEF WorkerPersist
  <1>9. ASSUME NEW p \in Procs, DeliverOK(p) PROVE OneMove
    BY <1>9 DEF DeliverOK
  <1>10. ASSUME NEW p \in Procs, DeliverFails(p) PROVE OneMove
    BY <1>10 DEF DeliverFails
  <1>11. ASSUME NEW p \in Procs, RecordFailure(p) PROVE OneMove
    <2>1. cur[p] \in Notifs
      BY <1>11 DEF TypeOK, WorkType, RecordFailure
    <2> QED BY <1>11, <2>1 DEF RecordFailure, RowStatement
  <1>12. ASSUME NEW r \in Retriers, RetryDeviceLoad(r) PROVE OneMove
    BY <1>12 DEF RetryDeviceLoad
  <1>13. ASSUME NEW r \in Retriers, RetryDeviceNext(r) PROVE OneMove
    BY <1>13 DEF RetryDeviceNext
  <1>14. ASSUME NEW r \in Retriers, RetryReturns(r) PROVE OneMove
    BY <1>14 DEF RetryReturns
  <1>15. ASSUME NEW r \in Retriers, NEW n \in Notifs, RetryNotification(r, n) PROVE OneMove
    BY <1>15 DEF RetryNotification
  <1>16. ASSUME NEW r \in Retriers, RetryDeviceLoadError(r) PROVE OneMove
    BY <1>16 DEF RetryDeviceLoadError
  <1>17. ASSUME NEW r \in Retriers, RetryExpire(r) PROVE OneMove
    <2>1. cur[r] \in Notifs
      BY <1>17 DEF TypeOK, WorkType, RetryExpire
    <2> QED BY <1>17, <2>1 DEF RetryExpire, RowStatement
  <1>18. ASSUME NEW r \in Retriers, RetryReset(r) PROVE OneMove
    <2>1. {cur[r]} \in SUBSET Notifs
      BY <1>18 DEF TypeOK, WorkType, RetryReset
    <2> QED BY <1>18, <2>1 DEF RetryReset, RowStatement
  <1>19. ASSUME NEW p \in Procs, WriteError(p) PROVE OneMove
    BY <1>19 DEF WriteError
  <1>20. ASSUME NEW d \in Devices, NEW m \in Message, ACK(d, m) PROVE OneMove
    <2>1. Receives(m.n)
      BY <1>20 DEF ACK, Receives
    <2> QED BY <2>1
  <1>21. ASSUME NEW m \in Message, OnACK(m) PROVE OneMove
    BY <1>21 DEF OnACK, RowStatement
  <1>22. ASSUME NEW m \in Message, OnACKError(m) PROVE OneMove
    BY <1>22 DEF OnACKError
  <1>23. ASSUME NEW t \in Tokens, CheckTimeouts(t) PROVE OneMove
    BY <1>23 DEF CheckTimeouts
  <1>24. ASSUME NEW n \in Notifs, DismissNotification(n) PROVE OneMove
    <2>1. {n} \in SUBSET {k \in Notifs : row[k] = "pending"}
      BY <1>24 DEF DismissNotification
    <2> QED BY <1>24, <2>1 DEF DismissNotification, RowStatement
  <1>25. ASSUME NEW d \in Devices, DismissNotificationsForDevice(d) PROVE OneMove
    <2>1. RowsOf(d, {"pending"}) \in SUBSET {n \in Notifs : row[n] = "pending"}
      BY DEF RowsOf
    <2> QED BY <1>25, <2>1 DEF DismissNotificationsForDevice, RowStatement
  <1>26. ASSUME NEW S \in SUBSET Notifs, BulkRetryNotifications(S) PROVE OneMove
    BY <1>26 DEF BulkRetryNotifications, RowStatement
  <1>27. ASSUME ClearDeliveredNotifications PROVE OneMove
    <2>1. {n \in Notifs : row[n] = "delivered"} \in SUBSET Notifs
      OBVIOUS
    <2> QED BY <1>27, <2>1 DEF ClearDeliveredNotifications, RowStatement
  <1>28. ASSUME NEW d \in Devices, NEW r \in Retriers, DeviceConnect(d, r) PROVE OneMove
    BY <1>28 DEF DeviceConnect
  <1>29. ASSUME NEW d \in Devices, DeviceDisconnect(d) PROVE OneMove
    BY <1>29 DEF DeviceDisconnect
  <1>30. ASSUME NEW d \in Devices, RevokeDelete(d) PROVE OneMove
    <2>1. RowsOf(d, Live) \in SUBSET Notifs
      BY DEF RowsOf
    <2> QED BY <1>30, <2>1 DEF RevokeDelete, RowStatement
  <1>31. ASSUME NEW d \in Devices, RevokeClean(d) PROVE OneMove
    <2>1. RowsOf(d, {"pending"}) \in SUBSET Notifs
      BY DEF RowsOf
    <2> QED BY <1>31, <2>1 DEF RevokeClean, RowStatement
  <1>32. ASSUME NEW d \in Devices, RevokeDisconnect(d) PROVE OneMove
    BY <1>32 DEF RevokeDisconnect
  <1>33. ASSUME NEW d \in Devices, Pair(d) PROVE OneMove
    BY <1>33 DEF Pair
  <1>34. ASSUME NEW n \in Notifs, TimePasses(n) PROVE OneMove
    BY <1>34 DEF TimePasses
  <1>35. ASSUME CrashRestart PROVE OneMove
    <2>1. InChan \cup Holding \in SUBSET Notifs
      BY DEF InChan, Holding, TypeOK, QueueType, ProcType, WorkType
    <2>2. Drops(InChan \cup Holding)
      BY <1>35 DEF CrashRestart, Drops
    <2> QED BY <2>1, <2>2
  <1>36. CASE UNCHANGED vars
    BY <1>36 DEF vars
  <1> QED
    BY <1>1, <1>2, <1>3, <1>4, <1>5, <1>6, <1>7, <1>8, <1>9, <1>10, <1>11,
       <1>12, <1>13, <1>14, <1>15, <1>16, <1>17, <1>18, <1>19, <1>20, <1>21,
       <1>22, <1>23, <1>24, <1>25, <1>26, <1>27, <1>28, <1>29, <1>30, <1>31,
       <1>32, <1>33, <1>34, <1>35, <1>36 DEF Next, Core, Enqueue, Worker,
       Deliver, Retry, WebUI, Device, Revoke, StorageErrors

-----------------------------------------------------------------------------
(* Retry accounting *)

(* Each statement keeps status and retry count in agreement. *)
LEMMA StatementAccounting ==
    TableType /\ RetryAccounting /\ OneMove => RetryAccounting'
  <1> SUFFICES ASSUME TableType, RetryAccounting, OneMove PROVE RetryAccounting'
    OBVIOUS
  <1> USE QueueConstants DEF TableType, RetryAccounting
  <1>1. CASE UNCHANGED table
    BY <1>1
  <1>2. ASSUME NEW n \in Notifs, EnqueueNotification(n) PROVE RetryAccounting'
    BY <1>2 DEF EnqueueNotification
  <1>3. ASSUME NEW S, NEW s \in {"delivered", "expired", "dismissed"},
               SetStatus(S, s), UNCHANGED retry
        PROVE  RetryAccounting'
    BY <1>3 DEF SetStatus
  <1>4. ASSUME NEW S \in SUBSET Notifs, ResetNotificationForRetry(S) PROVE RetryAccounting'
    BY <1>4 DEF ResetNotificationForRetry, SetStatus
  <1>5. ASSUME NEW n \in Notifs, UpdateNotificationRetry(n) PROVE RetryAccounting'
    BY <1>5 DEF UpdateNotificationRetry
  <1>6. ASSUME NEW S \in SUBSET Notifs, DeleteRows(S), UNCHANGED retry PROVE RetryAccounting'
    BY <1>6 DEF DeleteRows
  <1>7. CASE RowStatement
    BY <1>3, <1>4, <1>5, <1>6, <1>7
       DEF RowStatement, MarkNotificationDelivered, MarkNotificationExpired
  <1> QED BY <1>1, <1>2, <1>7 DEF OneMove, Accepts, Stores, Receives, Drops

(* Whatever retries, resets, acknowledgements and dismissals interleave, a  *)
(* 'pending' row has an attempt left and a 'failed' row has used all of     *)
(* them (UpdateNotificationRetry, ResetNotificationForRetry).               *)
THEOREM RetryAccountingHolds == Spec => []RetryAccounting
  <1>1. Init => RetryAccounting
    BY DEF Init, RetryAccounting
  <1>2. TypeOK /\ RetryAccounting /\ [Next]_vars => RetryAccounting'
    BY StepIsOneMove, StatementAccounting DEF TypeOK
  <1> QED BY <1>1, <1>2, QueueTypeCorrect, PTL DEF Spec

-----------------------------------------------------------------------------
(* A delivered row was acknowledged *)

(* Tokens and messages stay in agreement: a token is registered afresh      *)
(* under every send, and timeouts, late acknowledgements and dropped        *)
(* connections only forget what it stood for.                               *)
LEMMA StepTokens == TypeOK /\ TokensAgree /\ [Next]_vars => TokensAgree'
  <1> SUFFICES ASSUME TypeOK, TokensAgree, [Next]_vars PROVE TokensAgree'
    OBVIOUS
  <1> USE QueueConstants DEF TypeOK, TokenType
  <1>1. ASSUME NEW p \in Procs, DeliverOK(p) PROVE TokensAgree'
    <2>1. cur[p] \in Notifs /\ DeviceOf[cur[p]] \in Devices
      BY <1>1 DEF DeliverOK, WorkType
    <2>2. PICK t \in Tokens :
            /\ FreshToken(t)
            /\ tracker' = [tracker EXCEPT ![t] = cur[p]]
            /\ inbox' = [inbox EXCEPT ![DeviceOf[cur[p]]] = @ \cup {[tok |-> t, n |-> cur[p]]}]
      BY <1>1 DEF DeliverOK
    <2>3. UNCHANGED <<acks, received>>
      BY <1>1 DEF DeliverOK
    <2>4. ASSUME NEW d \in Devices, NEW m \in inbox'[d]
          PROVE  tracker'[m.tok] \in {m.n, Nobody} /\ DeviceOf[m.n] = d
      <3>1. CASE m \in inbox[d]
        <4>1. m.tok # t /\ m.tok \in Tokens
          BY <2>2, <3>1 DEF FreshToken
        <4> QED BY <2>2, <3>1, <4>1 DEF TokensAgree
      <3>2. CASE m \notin inbox[d]
        <4>1. d = DeviceOf[cur[p]] /\ m = [tok |-> t, n |-> cur[p]]
          BY <2>1, <2>2, <3>2
        <4> QED BY <2>1, <2>2, <4>1
      <3> QED BY <3>1, <3>2
    <2> QED BY <2>3, <2>4 DEF TokensAgree
  <1>2. ASSUME NEW d \in Devices, NEW m \in Message, ACK(d, m) PROVE TokensAgree'
    <2>1. tracker[m.tok] \in {m.n, Nobody}
      BY <1>2 DEF ACK, TokensAgree
    <2>2. \A a \in acks' : a.n \in received'
      BY <1>2, <2>1 DEF ACK, TokensAgree
    <2>3. \A t \in Tokens : tracker'[t] \in {tracker[t], Nobody}
      BY <1>2 DEF ACK
    <2>4. \A e \in Devices : inbox'[e] \subseteq inbox[e]
      BY <1>2 DEF ACK
    <2> QED BY <2>2, <2>3, <2>4 DEF TokensAgree
  <1>3. ASSUME NEW t \in Tokens, CheckTimeouts(t) PROVE TokensAgree'
    BY <1>3 DEF CheckTimeouts, TokensAgree
  <1>4. ASSUME NEW m \in Message, OnACK(m) \/ OnACKError(m) PROVE TokensAgree'
    BY <1>4 DEF OnACK, OnACKError, TokensAgree
  <1>5. ASSUME NEW d \in Devices, DropConnection(d), UNCHANGED <<tracker, acks, received>>
        PROVE  TokensAgree'
    BY <1>5 DEF DropConnection, TokensAgree
  <1>6. CASE CrashRestart
    BY <1>6 DEF CrashRestart, TokensAgree
  <1>7. CASE UNCHANGED <<tokenVars, received>>
    BY <1>7 DEF TokensAgree
  <1> QED
    <2>1. ASSUME NEW d \in Devices, Device(d) PROVE TokensAgree'
      BY <1>2, <1>5, <1>7, <2>1 DEF Device, DeviceConnect, DeviceDisconnect
    <2>2. ASSUME NEW d \in Devices, Revoke(d) PROVE TokensAgree'
      BY <1>5, <1>7, <2>2 DEF Revoke, RevokeDelete, RevokeClean, RevokeDisconnect, Pair
    <2>3. CASE WebUI
      BY <1>7, <2>3 DEF WebUI, RetryNotification, DismissNotification,
           DismissNotificationsForDevice, BulkRetryNotifications, ClearDeliveredNotifications
    <2>4. CASE StorageErrors
      BY <1>4, <1>7, <2>4 DEF StorageErrors, RetryDeviceLoadError, WriteError
    <2>5. CASE Stop \/ StopReturns \/ \E n \in Notifs : TimePasses(n)
      BY <1>7, <2>5 DEF Stop, StopReturns, TimePasses
    <2>6. ASSUME NEW n \in Notifs, Enqueue(n) PROVE TokensAgree'
      BY <1>7, <2>6 DEF Enqueue, EnqueueToChannel, EnqueueToStorage, EnqueueAfterStop
    <2>7. ASSUME NEW w \in Workers, Worker(w) PROVE TokensAgree'
      BY <1>7, <2>7 DEF Worker, WorkerTake, WorkerExit, WorkerPersist
    <2>8. ASSUME NEW p \in Procs, Deliver(p) PROVE TokensAgree'
      BY <1>1, <1>7, <2>8 DEF Deliver, DeliverFails, RecordFailure
    <2>9. ASSUME NEW r \in Retriers, Retry(r) PROVE TokensAgree'
      BY <1>7, <2>9 DEF Retry, RetryDeviceLoad, RetryDeviceNext, RetryReturns, RetryExpire,
                        RetryReset
    <2>10. CASE UNCHANGED vars
      BY <1>7, <2>10 DEF vars
    <2> QED BY <1>3, <1>4, <1>6, <2>1, <2>2, <2>3, <2>4, <2>5, <2>6, <2>7, <2>8, <2>9, <2>10
            DEF Next, Core

(* A row becomes 'delivered' only through an acknowledgement in progress. *)
LEMMA StepDelivered ==
    TypeOK /\ TokensAgree /\ DeliveredMeansAcked /\ [Next]_vars => DeliveredMeansAcked'
  <1> SUFFICES ASSUME TypeOK, TokensAgree, DeliveredMeansAcked, [Next]_vars,
                      NEW n \in Notifs, row'[n] = "delivered"
               PROVE  n \in received'
    BY DEF DeliveredMeansAcked
  <1>1. OneMove
    BY StepIsOneMove
  <1>2. received \subseteq received'
    BY <1>1 DEF OneMove, Accepts, Stores, Receives, Drops
  <1>3. row[n] = "delivered" \/ \E m \in acks : m.n = n
    BY <1>1 DEF OneMove, Accepts, Stores, Receives, Drops, RowStatement, TypeOK, TableType,
         EnqueueNotification, MarkNotificationDelivered, MarkNotificationExpired, SetStatus,
         ResetNotificationForRetry, UpdateNotificationRetry, DeleteRows
  <1> QED BY <1>2, <1>3 DEF TokensAgree, DeliveredMeansAcked

(* "Do NOT mark as delivered here - that happens when client ACKs": a row   *)
(* is 'delivered' only if a message carrying this very notification was     *)
(* acknowledged, for any number of tokens, retries and late answers.        *)
THEOREM DeliveredMeansAckedHolds == Spec => []DeliveredMeansAcked
  <1>1. Init => TokensAgree /\ DeliveredMeansAcked
    BY DEF Init, TokensAgree, DeliveredMeansAcked
  <1>2. TypeOK /\ TokensAgree /\ DeliveredMeansAcked /\ [Next]_vars
          => TokensAgree' /\ DeliveredMeansAcked'
    BY StepTokens, StepDelivered
  <1> QED BY <1>1, <1>2, QueueTypeCorrect, PTL DEF Spec

-----------------------------------------------------------------------------
(* Nothing accepted is lost or stored twice *)

(* No worker enters or leaves the stretch between taking and storing. *)
SameHolders ==
    \A w \in Workers : /\ pc'[w] = "persist" <=> pc[w] = "persist"
                       /\ pc[w] = "persist" => cur'[w] = cur[w]

LEMMA AcceptedFrame ==
    ASSUME AcceptedExactlyOnce, SameHolders, UNCHANGED <<chan, submitted, stored, gone>>
    PROVE  AcceptedExactlyOnce'
  <1>1. Holding' = Holding
    BY DEF SameHolders, Holding
  <1>2. InChan' = InChan
    BY DEF InChan
  <1> QED BY <1>1, <1>2 DEF AcceptedExactlyOnce, SameHolders

(* Appending adds one element to the contents of the channel. *)
LEMMA AppendElements ==
    ASSUME NEW s \in Seq(Notifs), NEW n \in Notifs
    PROVE  LET t == Append(s, n)
           IN  /\ {t[i] : i \in 1..Len(t)} = {s[i] : i \in 1..Len(s)} \cup {n}
               /\ (\A i, j \in 1..Len(s) : s[i] = s[j] => i = j)
                    /\ n \notin {s[i] : i \in 1..Len(s)}
                  => \A i, j \in 1..Len(t) : t[i] = t[j] => i = j
  <1> DEFINE t == Append(s, n)
  <1>1. /\ Len(t) = Len(s) + 1 /\ Len(s) \in Nat /\ t[Len(s) + 1] = n
        /\ \A i \in 1..Len(s) : t[i] = s[i]
    OBVIOUS
  <1> HIDE DEF t
  <1>2. 1..Len(t) = (1..Len(s)) \cup {Len(s) + 1}
    BY <1>1
  <1> QED BY <1>1, <1>2 DEF t

(* Removing the head of a channel without duplicates removes one element. *)
LEMMA TailElements ==
    ASSUME NEW s \in Seq(Notifs), s # <<>>,
           \A i, j \in 1..Len(s) : s[i] = s[j] => i = j
    PROVE  LET t == Tail(s)
           IN  /\ {t[i] : i \in 1..Len(t)} = {s[i] : i \in 1..Len(s)} \ {Head(s)}
               /\ Head(s) \in {s[i] : i \in 1..Len(s)}
               /\ \A i, j \in 1..Len(t) : t[i] = t[j] => i = j
  <1> DEFINE t == Tail(s)
  <1>1. /\ Len(s) \in Nat /\ Len(s) > 0 /\ Len(t) = Len(s) - 1 /\ Head(s) = s[1]
        /\ \A i \in 1..Len(t) : t[i] = s[i + 1]
    OBVIOUS
  <1> HIDE DEF t
  <1>2. ASSUME NEW x PROVE x \in {t[i] : i \in 1..Len(t)} <=>
                            x \in {s[i] : i \in 1..Len(s)} \ {Head(s)}
    <2>1. ASSUME NEW i \in 1..Len(t), x = t[i]
          PROVE  x \in {s[k] : k \in 1..Len(s)} \ {Head(s)}
      <3>1. i + 1 \in 1..Len(s) /\ i + 1 # 1 /\ 1 \in 1..Len(s)
        BY <1>1
      <3> QED BY <1>1, <2>1, <3>1
    <2>2. ASSUME NEW k \in 1..Len(s), x = s[k], x # Head(s)
          PROVE  x \in {t[i] : i \in 1..Len(t)}
      <3>1. k - 1 \in 1..Len(t) /\ t[k - 1] = s[k]
        BY <1>1, <2>2
      <3> QED BY <2>2, <3>1
    <2> QED BY <2>1, <2>2
  <1>3. Head(s) \in {s[i] : i \in 1..Len(s)}
    BY <1>1
  <1>4. \A i, j \in 1..Len(t) : t[i] = t[j] => i = j
    <2>1. \A i \in 1..Len(t) : i + 1 \in 1..Len(s)
      BY <1>1
    <2> QED BY <1>1, <2>1
  <1> QED BY <1>2, <1>3, <1>4 DEF t

(* Every step keeps each accepted notification in exactly one place. *)
LEMMA StepAccepted ==
    TypeOK /\ AcceptedExactlyOnce /\ [Next]_vars => AcceptedExactlyOnce'
  <1> SUFFICES ASSUME TypeOK, AcceptedExactlyOnce, [Next]_vars PROVE AcceptedExactlyOnce'
    OBVIOUS
  <1> USE QueueConstants DEF TypeOK, QueueType, ProcType, HistoryType
  <1>1. ASSUME NEW n \in Notifs, EnqueueToChannel(n) PROVE AcceptedExactlyOnce'
    <2>1. n \notin submitted /\ chan' = Append(chan, n) /\ submitted' = submitted \cup {n}
            /\ UNCHANGED <<stored, gone, pc, cur>>
      BY <1>1 DEF EnqueueToChannel
    <2>2. InChan' = InChan \cup {n} /\ n \notin InChan \cup Holding \cup stored \cup gone
      BY <2>1, AppendElements DEF InChan, AcceptedExactlyOnce
    <2>3. Holding' = Holding
      BY <2>1 DEF Holding
    <2>4. \A i, j \in 1..Len(chan') : chan'[i] = chan'[j] => i = j
      BY <2>1, <2>2, AppendElements DEF InChan, AcceptedExactlyOnce
    <2> QED BY <2>1, <2>2, <2>3, <2>4 DEF AcceptedExactlyOnce
  <1>2. ASSUME NEW n \in Notifs, EnqueueToStorage(n) PROVE AcceptedExactlyOnce'
    <2>1. n \notin submitted /\ submitted' = submitted \cup {n} /\ stored' = stored \cup {n}
            /\ UNCHANGED <<chan, gone, pc, cur>>
      BY <1>2 DEF EnqueueToStorage, EnqueueNotification
    <2>2. InChan' = InChan /\ Holding' = Holding
      BY <2>1 DEF InChan, Holding
    <2> QED BY <2>1, <2>2 DEF AcceptedExactlyOnce
  <1>3. ASSUME NEW w \in Workers, WorkerTake(w) PROVE AcceptedExactlyOnce'
    <2>1. pc[w] = "idle" /\ chan # <<>> /\ chan' = Tail(chan) /\ UNCHANGED <<submitted, stored>>
      BY <1>3 DEF WorkerTake
    <2>2. /\ InChan' = InChan \ {Head(chan)} /\ Head(chan) \in InChan
          /\ \A i, j \in 1..Len(chan') : chan'[i] = chan'[j] => i = j
      <3>1. \A i, j \in 1..Len(chan) : chan[i] = chan[j] => i = j
        BY DEF AcceptedExactlyOnce
      <3>2. chan \in Seq(Notifs) /\ chan # <<>>
        BY <2>1
      <3> DEFINE t == Tail(chan)
      <3>3. /\ {t[i] : i \in 1..Len(t)} = {chan[i] : i \in 1..Len(chan)} \ {Head(chan)}
            /\ Head(chan) \in {chan[i] : i \in 1..Len(chan)}
            /\ \A i, j \in 1..Len(t) : t[i] = t[j] => i = j
        BY ONLY <3>1, <3>2, TailElements
      <3>4. chan' = t
        BY <2>1
      <3> HIDE DEF t
      <3> QED BY ONLY <3>3, <3>4 DEF InChan
    <2>3. CASE Head(chan) \in expired
      <3>1. gone' = gone \cup {Head(chan)} /\ UNCHANGED <<pc, cur>>
        BY <1>3, <2>3 DEF WorkerTake
      <3>2. Holding' = Holding
        BY <3>1 DEF Holding
      <3> QED BY <2>1, <2>2, <3>1, <3>2 DEF AcceptedExactlyOnce
    <2>4. CASE Head(chan) \notin expired
      <3>1. pc' = [pc EXCEPT ![w] = "persist"] /\ cur' = [cur EXCEPT ![w] = Head(chan)]
              /\ UNCHANGED gone
        BY <1>3, <2>4 DEF WorkerTake
      <3>2. Holding' = Holding \cup {Head(chan)}
        BY <2>1, <3>1 DEF Holding
      <3>3. \A u, v \in Workers :
              pc'[u] = "persist" /\ pc'[v] = "persist" /\ cur'[u] = cur'[v] => u = v
        BY <2>1, <2>2, <3>1 DEF AcceptedExactlyOnce, Holding
      <3> QED BY <2>1, <2>2, <3>1, <3>2, <3>3 DEF AcceptedExactlyOnce
    <2> QED BY <2>3, <2>4
  <1>4. ASSUME NEW w \in Workers, WorkerPersist(w) PROVE AcceptedExactlyOnce'
    <2>1. pc[w] = "persist" /\ pc'[w] # "persist" /\ UNCHANGED <<chan, submitted>>
            /\ \A v \in Workers \ {w} : pc'[v] = pc[v] /\ cur'[v] = cur[v]
      BY <1>4 DEF WorkerPersist
    <2>2. cur[w] \in Holding /\ Holding' = Holding \ {cur[w]}
      BY <2>1 DEF Holding, AcceptedExactlyOnce
    <2>3. \/ stored' = stored \cup {cur[w]} /\ UNCHANGED gone
          \/ gone' = gone \cup {cur[w]} /\ UNCHANGED stored
      BY <1>4 DEF WorkerPersist, EnqueueNotification
    <2>4. InChan' = InChan
      BY <2>1 DEF InChan
    <2> QED BY <2>1, <2>2, <2>3, <2>4 DEF AcceptedExactlyOnce
  <1>5. CASE CrashRestart
    <2>1. chan' = <<>> /\ (\A w \in Workers : pc'[w] = "idle")
            /\ gone' = gone \cup InChan \cup Holding /\ UNCHANGED <<submitted, stored>>
      BY <1>5 DEF CrashRestart
    <2>2. InChan' = {} /\ Holding' = {}
      BY <2>1 DEF InChan, Holding
    <2> QED BY <2>1, <2>2 DEF AcceptedExactlyOnce
  <1>6. ASSUME NEW p \in Procs, Deliver(p) \/ WriteError(p) PROVE AcceptedExactlyOnce'
    <2>1. pc[p] # "persist" /\ pc'[p] # "persist"
            /\ \A q \in Procs \ {p} : pc'[q] = pc[q] /\ cur'[q] = cur[q]
      BY <1>6 DEF Deliver, DeliverOK, DeliverFails, RecordFailure, WriteError, Rest
    <2>2. SameHolders
      BY <2>1 DEF SameHolders
    <2>3. UNCHANGED <<chan, submitted, stored, gone>>
      BY <1>6 DEF Deliver, DeliverOK, DeliverFails, RecordFailure, WriteError
    <2> QED BY <2>2, <2>3, AcceptedFrame
  <1>7. ASSUME NEW w \in Workers, WorkerExit(w) PROVE AcceptedExactlyOnce'
    <2>1. SameHolders
      BY <1>7 DEF WorkerExit, SameHolders
    <2> QED BY <1>7, <2>1, AcceptedFrame DEF WorkerExit
  <1>8. ASSUME UNCHANGED <<chan, submitted, stored, gone>>,
               \A w \in Workers : pc'[w] = pc[w] /\ cur'[w] = cur[w]
        PROVE  AcceptedExactlyOnce'
    BY <1>8, AcceptedFrame DEF SameHolders
  <1> QED
    <2>1. ASSUME NEW n \in Notifs, Enqueue(n) PROVE AcceptedExactlyOnce'
      BY <1>1, <1>2, <1>8, <2>1 DEF Enqueue, EnqueueAfterStop
    <2>2. ASSUME NEW r \in Retriers, Retry(r) \/ RetryDeviceLoadError(r)
          PROVE  AcceptedExactlyOnce'
      BY <1>8, <2>2 DEF Retry, RetryDeviceLoad, RetryDeviceNext, RetryReturns, RetryExpire,
                        RetryReset, RetryDeviceLoadError
    <2>3. CASE WebUI
      <3>1. ASSUME NEW r \in Retriers, NEW n \in Notifs, RetryNotification(r, n)
            PROVE  AcceptedExactlyOnce'
        BY <1>8, <3>1 DEF RetryNotification
      <3>2. ASSUME UNCHANGED <<queueVars, procVars, history>> PROVE AcceptedExactlyOnce'
        BY <1>8, <3>2
      <3> QED BY <2>3, <3>1, <3>2 DEF WebUI, DismissNotification,
           DismissNotificationsForDevice, BulkRetryNotifications, ClearDeliveredNotifications
    <2>4. ASSUME NEW d \in Devices, Device(d) \/ Revoke(d) PROVE AcceptedExactlyOnce'
      BY <1>8, <2>4 DEF Device, DeviceConnect, DeviceDisconnect, ACK, Revoke, RevokeDelete,
                        RevokeClean, RevokeDisconnect, Pair
    <2>5. ASSUME NEW m \in Message, OnACK(m) \/ OnACKError(m) PROVE AcceptedExactlyOnce'
      BY <1>8, <2>5 DEF OnACK, OnACKError
    <2>6. CASE Stop \/ StopReturns \/ (\E n \in Notifs : TimePasses(n))
                \/ (\E t \in Tokens : CheckTimeouts(t))
      BY <1>8, <2>6 DEF Stop, StopReturns, TimePasses, CheckTimeouts
    <2>7. CASE UNCHANGED vars
      BY <1>8, <2>7 DEF vars
    <2> QED BY <1>3, <1>4, <1>5, <1>6, <1>7, <2>1, <2>2, <2>3, <2>4, <2>5, <2>6, <2>7
            DEF Next, Core, Worker, StorageErrors

(* The fallback to storage, the workers, a shutdown and a crash neither     *)
(* store a notification twice nor lose one silently: each accepted          *)
(* notification is in the channel, with one worker, stored, or dropped for  *)
(* a named reason.                                                          *)
THEOREM AcceptedExactlyOnceHolds == Spec => []AcceptedExactlyOnce
  <1>1. Init => AcceptedExactlyOnce
    BY DEF Init, AcceptedExactlyOnce, InChan, Holding
  <1>2. TypeOK /\ AcceptedExactlyOnce /\ [Next]_vars => AcceptedExactlyOnce'
    BY StepAccepted
  <1> QED BY <1>1, <1>2, QueueTypeCorrect, PTL DEF Spec

-----------------------------------------------------------------------------
(* The life of a notification *)

(* What a step leaves of SentWasStored when it neither sends, nor loads, nor *)
(* moves a goroutine on to reset or deliver anything else.                   *)
LEMMA SentFrame ==
    ASSUME SentWasStored, stored \subseteq stored',
           \A n \in Notifs : row'[n] # "none" => n \in stored',
           \A d \in Devices : inbox'[d] \subseteq inbox[d],
           \A p \in Procs : pc'[p] \in {"reset", "deliver"} =>
                             cur'[p] = cur[p] /\ pc[p] \in {"reset", "deliver"},
           \A r \in Retriers : todo'[r] \subseteq todo[r]
    PROVE  SentWasStored'
  BY DEF SentWasStored

(* No step has a goroutine send what was not stored.  A row is there only   *)
(* after the INSERT, and the snapshot of a retry shows rows.                *)
LEMMA StepSent == TypeOK /\ SentWasStored /\ [Next]_vars => SentWasStored'
  <1> SUFFICES ASSUME TypeOK, SentWasStored, [Next]_vars PROVE SentWasStored'
    OBVIOUS
  <1>1. stored \subseteq stored' /\ \A n \in Notifs : row'[n] # "none" => n \in stored'
    <2>1. OneMove
      BY StepIsOneMove
    <2>2. CASE UNCHANGED <<table, history>>
      BY <2>2 DEF SentWasStored
    <2>3. ASSUME NEW n \in Notifs, Accepts(n) \/ Stores(n) \/ Receives(n)
          PROVE  stored \subseteq stored' /\ \A k \in Notifs : row'[k] # "none" => k \in stored'
      BY <2>3 DEF SentWasStored, Accepts, Stores, Receives, EnqueueNotification, TypeOK, TableType
    <2>4. ASSUME NEW S, Drops(S)
          PROVE  stored \subseteq stored' /\ \A k \in Notifs : row'[k] # "none" => k \in stored'
      BY <2>4 DEF SentWasStored, Drops
    <2>5. CASE RowStatement /\ UNCHANGED history
      <3>1. \A n \in Notifs : row'[n] # "none" => row[n] # "none"
        BY <2>5 DEF RowStatement, TypeOK, TableType, MarkNotificationDelivered,
             MarkNotificationExpired, SetStatus, ResetNotificationForRetry,
             UpdateNotificationRetry, DeleteRows
      <3> QED BY <2>5, <3>1 DEF SentWasStored
    <2> QED BY <2>1, <2>2, <2>3, <2>4, <2>5 DEF OneMove
  <1> USE DEF TypeOK, ProcType, TokenType
  <1>2. ASSUME UNCHANGED <<pc, cur, todo, inbox>> PROVE SentWasStored'
    BY <1>1, <1>2, SentFrame
  <1>3. ASSUME NEW w \in Workers, WorkerTake(w) \/ WorkerExit(w) PROVE SentWasStored'
    <2>1. UNCHANGED <<todo, inbox>> /\ pc'[w] \notin {"reset", "deliver"}
            /\ \A q \in Procs \ {w} : pc'[q] = pc[q] /\ cur'[q] = cur[q]
      BY <1>3 DEF WorkerTake, WorkerExit
    <2> QED BY <1>1, <2>1, SentFrame
  <1>4. ASSUME NEW w \in Workers, WorkerPersist(w) PROVE SentWasStored'
    <2>1. UNCHANGED <<todo, inbox>> /\ \A q \in Procs \ {w} : pc'[q] = pc[q] /\ cur'[q] = cur[q]
      BY <1>4 DEF WorkerPersist
    <2>2. \/ cur'[w] = cur[w] /\ cur[w] \in stored'
          \/ pc'[w] = "idle"
      BY <1>4 DEF WorkerPersist, EnqueueNotification
    <2>3. \A d \in Devices : \A m \in inbox'[d] : m.n \in stored'
      BY <1>1, <2>1 DEF SentWasStored
    <2>4. \A p \in Procs : pc'[p] \in {"reset", "deliver"} => cur'[p] \in stored'
      BY <1>1, <2>1, <2>2 DEF SentWasStored
    <2>5. \A r \in Retriers : todo'[r] \subseteq stored'
      BY <1>1, <2>1 DEF SentWasStored
    <2> QED BY <1>1, <2>3, <2>4, <2>5 DEF SentWasStored
  <1>5. ASSUME NEW p \in Procs, DeliverOK(p) PROVE SentWasStored'
    <2>1. cur[p] \in stored /\ UNCHANGED todo
            /\ (\A q \in Procs : pc'[q] \in {"reset", "deliver"} =>
                                   pc'[q] = pc[q] /\ cur'[q] = cur[q])
      BY <1>5 DEF DeliverOK, SentWasStored, Rest
    <2>2. \A d \in Devices : \A m \in inbox'[d] : m \in inbox[d] \/ m.n = cur[p]
      BY <1>5 DEF DeliverOK
    <2> QED BY <1>1, <2>1, <2>2 DEF SentWasStored
  <1>6. ASSUME NEW p \in Procs, DeliverFails(p) \/ RecordFailure(p) PROVE SentWasStored'
    <2>1. UNCHANGED <<todo, inbox>> /\ pc'[p] \notin {"reset", "deliver"}
            /\ \A q \in Procs \ {p} : pc'[q] = pc[q] /\ cur'[q] = cur[q]
      BY <1>6 DEF DeliverFails, RecordFailure, Rest
    <2> QED BY <1>1, <2>1, SentFrame
  <1>7. ASSUME NEW r \in Retriers, RetryDeviceLoad(r) PROVE SentWasStored'
    <2>1. /\ UNCHANGED <<row, cur, inbox>>
          /\ \A q \in Procs : pc'[q] \in {"reset", "deliver"} => pc'[q] = pc[q]
          /\ \A q \in Retriers \ {r} : todo'[q] = todo[q]
          /\ todo'[r] = GetPendingNotifications(dev[r])
      BY <1>7 DEF RetryDeviceLoad
    <2>2. todo'[r] \subseteq stored
      BY <2>1 DEF GetPendingNotifications, SentWasStored
    <2> QED BY <1>1, <2>1, <2>2 DEF SentWasStored
  <1>8. ASSUME NEW r \in Retriers, RetryDeviceNext(r) PROVE SentWasStored'
    <2>1. PICK n \in todo[r] : /\ cur' = [cur EXCEPT ![r] = n]
                               /\ todo' = [todo EXCEPT ![r] = @ \ {n}]
      BY <1>8 DEF RetryDeviceNext
    <2>2. UNCHANGED inbox /\ \A q \in Procs \ {r} : pc'[q] = pc[q]
      BY <1>8 DEF RetryDeviceNext
    <2>3. n \in stored
      BY <2>1 DEF SentWasStored
    <2> QED BY <1>1, <2>1, <2>2, <2>3 DEF SentWasStored
  <1>9. ASSUME NEW r \in Retriers, RetryReturns(r) \/ RetryDeviceLoadError(r) \/ RetryExpire(r)
        PROVE  SentWasStored'
    <2>1. UNCHANGED <<todo, inbox>> /\ pc'[r] \notin {"reset", "deliver"}
            /\ \A q \in Procs \ {r} : pc'[q] = pc[q] /\ cur'[q] = cur[q]
      BY <1>9 DEF RetryReturns, RetryDeviceLoadError, RetryExpire
    <2> QED BY <1>1, <2>1, SentFrame
  <1>10. ASSUME NEW r \in Retriers, NEW n \in Notifs, RetryNotification(r, n)
         PROVE  SentWasStored'
    <2>1. row[n] # "none" /\ cur' = [cur EXCEPT ![r] = n] /\ UNCHANGED <<todo, inbox>>
            /\ \A q \in Procs \ {r} : pc'[q] = pc[q]
      BY <1>10 DEF RetryNotification
    <2>2. n \in stored
      BY <2>1 DEF SentWasStored
    <2> QED BY <1>1, <2>1, <2>2 DEF SentWasStored
  <1>11. ASSUME NEW r \in Retriers, RetryReset(r) PROVE SentWasStored'
    <2>1. UNCHANGED <<todo, inbox>> /\ pc[r] = "reset"
            /\ (pc'[r] \in {"reset", "deliver"} => cur'[r] = cur[r])
            /\ \A q \in Procs \ {r} : pc'[q] = pc[q] /\ cur'[q] = cur[q]
      BY <1>11 DEF RetryReset
    <2> QED BY <1>1, <2>1, SentFrame
  <1>12. ASSUME NEW p \in Procs, WriteError(p) PROVE SentWasStored'
    <2>1. UNCHANGED <<todo, inbox>>
            /\ (pc'[p] \in {"reset", "deliver"} => pc[p] = "reset" /\ cur'[p] = cur[p])
            /\ \A q \in Procs \ {p} : pc'[q] = pc[q] /\ cur'[q] = cur[q]
      BY <1>12 DEF WriteError, Rest
    <2> QED BY <1>1, <2>1, SentFrame
  <1>13. ASSUME NEW d \in Devices, Device(d) \/ Revoke(d) PROVE SentWasStored'
    <2>1. UNCHANGED <<cur, todo>> /\ \A q \in Procs : pc'[q] = pc[q] \/ pc'[q] = "load"
      BY <1>13 DEF Device, DeviceConnect, DeviceDisconnect, ACK, Revoke, RevokeDelete,
                   RevokeClean, RevokeDisconnect, Pair
    <2>2. \A e \in Devices : inbox'[e] \subseteq inbox[e]
      BY <1>13 DEF Device, DeviceConnect, DeviceDisconnect, ACK, Revoke, RevokeDelete,
                   RevokeClean, RevokeDisconnect, Pair, DropConnection
    <2> QED BY <1>1, <2>1, <2>2, SentFrame
  <1>14. CASE CrashRestart
    BY <1>1, <1>14, SentFrame DEF CrashRestart
  <1> QED
    <2>1. ASSUME NEW n \in Notifs, Enqueue(n) PROVE SentWasStored'
      BY <1>2, <2>1 DEF Enqueue, EnqueueToChannel, EnqueueToStorage, EnqueueAfterStop
    <2>2. CASE WebUI
      BY <1>2, <1>10, <2>2 DEF WebUI, DismissNotification, DismissNotificationsForDevice,
           BulkRetryNotifications, ClearDeliveredNotifications
    <2>3. ASSUME NEW m \in Message, OnACK(m) \/ OnACKError(m) PROVE SentWasStored'
      BY <1>2, <2>3 DEF OnACK, OnACKError
    <2>4. CASE Stop \/ StopReturns \/ (\E n \in Notifs : TimePasses(n))
                \/ (\E t \in Tokens : CheckTimeouts(t))
      BY <1>2, <2>4 DEF Stop, StopReturns, TimePasses, CheckTimeouts
    <2>5. CASE UNCHANGED vars
      BY <1>2, <2>5 DEF vars
    <2> QED BY <1>3, <1>4, <1>5, <1>6, <1>7, <1>8, <1>9, <1>11, <1>12, <1>13, <1>14,
               <2>1, <2>2, <2>3, <2>4, <2>5
            DEF Next, Core, Worker, Deliver, Retry, StorageErrors

USE DEF Notification!Become, Notification!With, Notification!RowStates

(* Where a notification is, in the terms of NotificationLife. *)
LEMMA Lives ==
    ASSUME TypeOK, AcceptedExactlyOnce, NEW n \in Notifs
    PROVE  /\ notificationLife[n] = "new" <=> n \notin submitted
           /\ notificationLife[n] = "memory" <=> n \in InChan \cup Holding
           /\ notificationLife[n] = "deleted" <=> n \in stored /\ row[n] = "none"
           /\ \A s \in Live : notificationLife[n] = s <=> n \in stored /\ row[n] = s
  <1>1. row[n] \in Status
    BY DEF TypeOK, TableType
  <1>2. notificationLife[n] =
           IF n \in stored THEN IF row[n] = "none" THEN "deleted" ELSE row[n]
           ELSE IF n \in gone THEN "lost" ELSE IF n \in submitted THEN "memory" ELSE "new"
    BY DEF notificationLife
  <1>3. /\ n \in submitted <=> n \in InChan \cup Holding \/ n \in stored \/ n \in gone
        /\ n \in InChan \cup Holding => n \notin stored /\ n \notin gone
    BY DEF AcceptedExactlyOnce
  <1> QED BY <1>1, <1>2, <1>3

(* The statements on rows are changes of lives: what has no row has a life  *)
(* that no such statement touches.                                          *)
LEMMA StatementLives ==
    ASSUME TypeOK, AcceptedExactlyOnce, TokensAgree, SentWasStored, RowStatement, UNCHANGED history
    PROVE  \E S \in SUBSET Notifs :
             \/ Notification!Deliver(S) \/ Notification!Renew(S)
             \/ Notification!Fail(S) \/ Notification!Expire(S)
             \/ Notification!Dismiss(S) \/ Notification!Delete(S)
             \/ UNCHANGED <<notificationLife, received>>
  <1> DEFINE Rows == {n \in Notifs : row[n] # "none"}
  <1>1. \A n \in Rows : n \in stored /\ notificationLife[n] = row[n] /\ row[n] \in Live
    BY Lives DEF SentWasStored, TypeOK, TableType
  <1>2. notificationLife' = [n \in Notifs |->
                               IF row'[n] = row[n] THEN notificationLife[n]
                               ELSE IF row'[n] = "none" THEN "deleted" ELSE row'[n]]
    <2>1. ASSUME NEW n \in Notifs, row'[n] # row[n]
          PROVE  n \in Rows
      BY <2>1 DEF RowStatement, TypeOK, TableType, MarkNotificationDelivered,
           MarkNotificationExpired, SetStatus, ResetNotificationForRetry,
           UpdateNotificationRetry, DeleteRows
    <2> QED BY <1>1, <2>1 DEF notificationLife
  <1> HIDE DEF Rows
  <1>3. ASSUME NEW S \in SUBSET Notifs, NEW s \in Live, SetStatus(S, s)
        PROVE  /\ notificationLife' = [n \in Notifs |-> IF n \in S \cap Rows THEN s
                                                       ELSE notificationLife[n]]
               /\ S \cap Rows \subseteq {n \in Notifs : notificationLife[n] \in Live}
               /\ S \cap Rows \in SUBSET Notifs
    BY <1>1, <1>2, <1>3 DEF SetStatus, Rows
  <1>4. ASSUME NEW m \in acks, MarkNotificationDelivered(m.n)
        PROVE  Notification!Deliver({m.n} \cap Rows) /\ {m.n} \cap Rows \in SUBSET Notifs
    <2>1. m.n \in received /\ m.n \in Notifs
      BY DEF TokensAgree, TypeOK, TokenType
    <2> QED BY <1>3, <1>4, <2>1 DEF MarkNotificationDelivered, Notification!Deliver
  <1>5. ASSUME NEW n \in Notifs, MarkNotificationExpired(n)
        PROVE  Notification!Expire({n} \cap Rows) /\ {n} \cap Rows \in SUBSET Notifs
    BY <1>3, <1>5 DEF MarkNotificationExpired, Notification!Expire
  <1>6. ASSUME NEW S \in SUBSET {n \in Notifs : row[n] = "pending"}, SetStatus(S, "dismissed")
        PROVE  Notification!Dismiss(S \cap Rows) /\ S \cap Rows \in SUBSET Notifs
    <2>1. \A n \in S \cap Rows : notificationLife[n] = "pending"
      BY <1>1
    <2> QED BY <1>3, <1>6, <2>1 DEF Notification!Dismiss
  <1>7. ASSUME NEW S \in SUBSET Notifs, ResetNotificationForRetry(S)
        PROVE  Notification!Renew(S \cap Rows) /\ S \cap Rows \in SUBSET Notifs
    BY <1>3, <1>7 DEF ResetNotificationForRetry, Notification!Renew
  <1>8. ASSUME NEW n \in Notifs, UpdateNotificationRetry(n)
        PROVE  Notification!Fail({n}) \/ UNCHANGED <<notificationLife, received>>
    <2>1. CASE row' = row
      BY <2>1 DEF notificationLife
    <2>2. CASE row' # row
      <3>1. n \in Rows /\ row' = [row EXCEPT ![n] = "failed"]
        BY <1>8, <2>2 DEF UpdateNotificationRetry, TypeOK, TableType, Rows
      <3>2. notificationLife' = [k \in Notifs |-> IF k \in {n} THEN "failed"
                                                 ELSE notificationLife[k]]
        BY <1>1, <1>2, <3>1 DEF TypeOK, TableType
      <3> QED BY <1>1, <3>1, <3>2 DEF Notification!Fail
    <2> QED BY <2>1, <2>2
  <1>9. ASSUME NEW S \in SUBSET Notifs, DeleteRows(S)
        PROVE  Notification!Delete(S \cap Rows) /\ S \cap Rows \in SUBSET Notifs
    <2>1. notificationLife' = [n \in Notifs |-> IF n \in S \cap Rows THEN "deleted"
                                                ELSE notificationLife[n]]
      BY <1>1, <1>2, <1>9 DEF DeleteRows, Rows, TypeOK, TableType
    <2> QED BY <1>1, <2>1 DEF Notification!Delete
  <1> QED BY <1>4, <1>5, <1>6, <1>7, <1>8, <1>9 DEF RowStatement

(* Every step of the queue, the table, the tracker and the handlers is a    *)
(* step of NotificationLife or leaves every life alone.                     *)
LEMMA StepLives ==
    ASSUME TypeOK, AcceptedExactlyOnce, TokensAgree, SentWasStored, [Next]_vars
    PROVE  [Notification!LifeNext]_<<notificationLife, received>>
  <1>1. OneMove
    BY StepIsOneMove
  <1>2. CASE UNCHANGED <<table, history>>
    BY <1>2 DEF notificationLife
  <1>3. ASSUME NEW n \in Notifs, Accepts(n) PROVE Notification!LifeNext
    <2>1. notificationLife[n] = "new" /\ n \notin stored \cup gone
      BY <1>3, Lives DEF Accepts, AcceptedExactlyOnce
    <2>2. CASE UNCHANGED <<table, stored>>
      <3>1. Notification!Become({n}, "memory")
        BY <1>3, <2>1, <2>2 DEF Accepts, notificationLife
      <3> QED BY <2>1, <3>1 DEF Notification!LifeNext, Notification!Accept
    <2>3. CASE EnqueueNotification(n)
      <3>1. Notification!Become({n}, "pending")
        BY <1>3, <2>1, <2>3 DEF Accepts, notificationLife, EnqueueNotification, TypeOK, TableType
      <3> QED BY <2>1, <3>1 DEF Notification!LifeNext, Notification!Accept
    <2> QED BY <1>3, <2>2, <2>3 DEF Accepts
  <1>4. ASSUME NEW n \in Notifs, Stores(n) PROVE Notification!LifeNext
    <2>1. notificationLife[n] = "memory" /\ n \notin stored \cup gone
      BY <1>4, Lives DEF Stores, AcceptedExactlyOnce
    <2>2. Notification!Become({n}, "pending")
      BY <1>4, <2>1 DEF Stores, notificationLife, EnqueueNotification, TypeOK, TableType
    <2> QED BY <2>1, <2>2 DEF Notification!LifeNext, Notification!Store
  <1>5. ASSUME NEW n \in Notifs, Receives(n) PROVE Notification!LifeNext
    <2>1. n \in stored
      BY <1>5 DEF Receives, SentWasStored
    <2>2. notificationLife[n] \in Live \cup {"deleted"}
      BY <2>1, Lives DEF TypeOK, TableType
    <2>3. notificationLife' = notificationLife
      BY <1>5 DEF Receives, notificationLife
    <2> QED BY <1>5, <2>2, <2>3 DEF Receives, Notification!LifeNext, Notification!Acknowledge
  <1>6. ASSUME NEW S \in SUBSET Notifs, Drops(S) PROVE Notification!LifeNext
    <2>1. \A n \in S : notificationLife[n] = "memory" /\ n \in submitted /\ n \notin stored
      BY <1>6, Lives DEF Drops, AcceptedExactlyOnce
    <2>2. Notification!Become(S, "lost")
      BY <1>6, <2>1 DEF Drops, notificationLife
    <2> QED BY <2>1, <2>2 DEF Notification!LifeNext, Notification!Lose
  <1>7. CASE RowStatement /\ UNCHANGED history
    BY <1>7, StatementLives DEF Notification!LifeNext
  <1> QED BY <1>1, <1>2, <1>3, <1>4, <1>5, <1>6, <1>7 DEF OneMove

(* NotificationLife for any number of notifications, workers, retries,      *)
(* tokens and devices: a notification is stored at most once, what is       *)
(* stored is never lost, what was deleted stays deleted, and only an        *)
(* acknowledgement of what was stored makes a row delivered.                *)
THEOREM NotificationsLiveOnceHolds == Spec => NotificationsLiveOnce
  <1>1. Init => Notification!LifeInit
    BY DEF Init, Notification!LifeInit, notificationLife
  <1>2. Init => TokensAgree /\ SentWasStored
    BY DEF Init, TokensAgree, SentWasStored
  <1>3. TypeOK /\ TokensAgree /\ SentWasStored /\ [Next]_vars => TokensAgree' /\ SentWasStored'
    BY StepTokens, StepSent
  <1>4. Spec => [](TokensAgree /\ SentWasStored)
    BY <1>2, <1>3, QueueTypeCorrect, PTL DEF Spec
  <1>5. TypeOK /\ AcceptedExactlyOnce /\ TokensAgree /\ SentWasStored /\ [Next]_vars
          => [Notification!LifeNext]_<<notificationLife, received>>
    BY StepLives
  <1> QED BY <1>1, <1>4, <1>5, QueueTypeCorrect, AcceptedExactlyOnceHolds, PTL
          DEF Spec, NotificationsLiveOnce, Notification!LifeSpec

-----------------------------------------------------------------------------
(* Shutdown *)

(* Workers finish only on a closed and empty channel. *)
LEMMA StepDrained == TypeOK /\ DoneMeansDrained /\ [Next]_vars => DoneMeansDrained'
  <1> SUFFICES ASSUME TypeOK, DoneMeansDrained, [Next]_vars PROVE DoneMeansDrained'
    OBVIOUS
  <1> USE QueueConstants DEF TypeOK, ProcType, DoneMeansDrained
  <1>1. ASSUME NEW n \in Notifs, Enqueue(n) PROVE DoneMeansDrained'
    BY <1>1 DEF Enqueue, EnqueueToChannel, EnqueueToStorage, EnqueueAfterStop
  <1>2. CASE Stop \/ StopReturns
    BY <1>2 DEF Stop, StopReturns
  <1>3. ASSUME NEW w \in Workers, WorkerTake(w) PROVE DoneMeansDrained'
    <2>1. pc[w] = "idle" /\ chan # <<>> /\ phase' = phase
            /\ \A v \in Workers : pc'[v] \in {pc[v], "persist"}
      BY <1>3 DEF WorkerTake
    <2> QED BY <2>1
  <1>4. ASSUME NEW w \in Workers, WorkerExit(w) PROVE DoneMeansDrained'
    BY <1>4 DEF WorkerExit
  <1>5. ASSUME UNCHANGED <<chan, phase>>, \A w \in Workers : pc'[w] = "done" <=> pc[w] = "done"
        PROVE  DoneMeansDrained'
    BY <1>5
  <1>6. ASSUME NEW w \in Workers, WorkerPersist(w) PROVE DoneMeansDrained'
    BY <1>5, <1>6 DEF WorkerPersist
  <1>7. ASSUME NEW p \in Procs, Deliver(p) \/ WriteError(p) PROVE DoneMeansDrained'
    <2>1. pc[p] # "done" /\ pc'[p] # "done" /\ \A q \in Procs \ {p} : pc'[q] = pc[q]
      BY <1>7 DEF Deliver, DeliverOK, DeliverFails, RecordFailure, WriteError, Rest
    <2>2. UNCHANGED <<chan, phase>>
      BY <1>7 DEF Deliver, DeliverOK, DeliverFails, RecordFailure, WriteError
    <2> QED BY <1>5, <2>1, <2>2
  <1>8. CASE CrashRestart
    BY <1>8 DEF CrashRestart
  <1>9. ASSUME UNCHANGED <<chan, phase>>, \A w \in Workers : pc'[w] = pc[w]
        PROVE  DoneMeansDrained'
    BY <1>9
  <1> QED
    <2>2. ASSUME NEW r \in Retriers, Retry(r) \/ RetryDeviceLoadError(r)
          PROVE  DoneMeansDrained'
      BY <1>9, <2>2 DEF Retry, RetryDeviceLoad, RetryDeviceNext, RetryReturns, RetryExpire,
                        RetryReset, RetryDeviceLoadError
    <2>3. CASE WebUI
      <3>1. ASSUME NEW r \in Retriers, NEW n \in Notifs, RetryNotification(r, n)
            PROVE  DoneMeansDrained'
        BY <1>9, <3>1 DEF RetryNotification
      <3>2. ASSUME UNCHANGED <<queueVars, procVars>> PROVE DoneMeansDrained'
        BY <1>9, <3>2
      <3> QED BY <2>3, <3>1, <3>2 DEF WebUI, DismissNotification,
           DismissNotificationsForDevice, BulkRetryNotifications, ClearDeliveredNotifications
    <2>4. ASSUME NEW d \in Devices, Device(d) \/ Revoke(d) PROVE DoneMeansDrained'
      BY <1>9, <2>4 DEF Device, DeviceConnect, DeviceDisconnect, ACK, Revoke, RevokeDelete,
                        RevokeClean, RevokeDisconnect, Pair
    <2>5. ASSUME NEW m \in Message, OnACK(m) \/ OnACKError(m) PROVE DoneMeansDrained'
      BY <1>9, <2>5 DEF OnACK, OnACKError
    <2>6. CASE (\E n \in Notifs : TimePasses(n)) \/ (\E t \in Tokens : CheckTimeouts(t))
      BY <1>9, <2>6 DEF TimePasses, CheckTimeouts
    <2>7. CASE UNCHANGED vars
      BY <1>9, <2>7 DEF vars
    <2> QED BY <1>1, <1>2, <1>3, <1>4, <1>6, <1>7, <1>8, <2>2, <2>3, <2>4, <2>5, <2>6, <2>7
            DEF Next, Core, Worker, StorageErrors

(* When Queue.Stop has returned the channel is empty and no worker holds a  *)
(* notification that is not stored, for any number of workers and any       *)
(* channel capacity.                                                        *)
THEOREM StopDrainsHolds == Spec => []StopDrains
  <1>1. Init => DoneMeansDrained
    BY DEF Init, DoneMeansDrained
  <1>2. TypeOK /\ DoneMeansDrained /\ [Next]_vars => DoneMeansDrained'
    BY StepDrained
  <1>3. DoneMeansDrained => StopDrains
    BY QueueConstants DEF DoneMeansDrained, StopDrains, Holding
  <1> QED BY <1>1, <1>2, <1>3, QueueTypeCorrect, PTL DEF Spec
=============================================================================
