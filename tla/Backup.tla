------------------------------- MODULE Backup -------------------------------
(***************************************************************************)
(* Backups (internal/backup): snapshots read table by table while the      *)
(* tables change, files written, listed and removed by the retention       *)
(* policy of the scheduler, by users and by nobody after a crash in the    *)
(* middle of a write, and the restore, which saves one row after the other *)
(* and stops at the first error.                                           *)
(*                                                                         *)
(* A snapshot is numbered in the order of its timestamp. Its tables are    *)
(* apps, routes (route r belongs to app r) and devices; certificates are a *)
(* fourth one like devices, and keys are saved but never restored.         *)
(***************************************************************************)
EXTENDS Naturals, FiniteSets, Sequences

CONSTANTS MaxBackups,       \* bound on the snapshots begun
          TableItems,       \* identifiers of apps, their routes, and devices
          Retention,        \* backups the scheduler keeps
          MaxTableChanges,  \* bound: rows others save and delete
          MaxBackupFaults   \* bound: failing writes and restarts

ASSUME BackupAssumption == /\ MaxBackups \in Nat
                           /\ Retention \in Nat \ {0}
                           /\ MaxTableChanges \in Nat
                           /\ MaxBackupFaults \in Nat

VARIABLES tables,        \* the rows
          snapshots,     \* number -> what was read
          backupFile,    \* number -> "absent", "valid", "corrupt"
          maker,         \* who makes backups -> where it is
          backupLoop,    \* the scheduler's goroutine
          lastBackup,    \* number of the last snapshot begun
          saved,         \* snapshots that were completely written
          removedByUser, \* files a user deleted
          restore,       \* the restore that runs
          tableChanges,  \* rows others saved and deleted so far
          backupFaults   \* failing writes and restarts so far

fileVars == <<snapshots, backupFile, lastBackup, saved, removedByUser>>
boundVars == <<tableChanges, backupFaults>>
backupVars == <<tables, fileVars, maker, backupLoop, restore, boundVars>>

BackupIds == 1..MaxBackups
TableNames == <<"apps", "routes", "devices">>
Tables == {TableNames[t] : t \in 1..3}
EmptyTables == [t \in Tables |-> {}]
\* The scheduler, and the API with CreateBackup and TriggerBackup.
Makers == {"scheduler", "api"}
IdleMaker == [pc |-> "idle", id |-> 0, table |-> 1, victims |-> <<>>]
NoRestore == [pc |-> "none", id |-> 0, table |-> 1, todo |-> {}, missed |-> {}]

BackupInit ==
  /\ tables = EmptyTables
  /\ snapshots = [b \in BackupIds |-> EmptyTables]
  /\ backupFile = [b \in BackupIds |-> "absent"]
  /\ maker = [m \in Makers |-> IdleMaker]
  /\ backupLoop = "running"
  /\ lastBackup = 0 /\ saved = {} /\ removedByUser = {}
  /\ restore = NoRestore
  /\ tableChanges = 0 /\ backupFaults = 0

Fault == /\ backupFaults < MaxBackupFaults
         /\ backupFaults' = backupFaults + 1
         /\ UNCHANGED tableChanges

TableChange == /\ tableChanges < MaxTableChanges
               /\ tableChanges' = tableChanges + 1
               /\ UNCHANGED backupFaults

(***************************************************************************)
(* The tables change.                                                      *)
(***************************************************************************)
\* A row is saved; a route needs its app where the foreign key is enforced.
RowFits(t, i, enforced) == (t = "routes" /\ enforced) => i \in tables["apps"]
SaveRow(t, i, enforced) ==
  /\ RowFits(t, i, enforced)
  /\ tables' = [tables EXCEPT ![t] = @ \cup {i}]

RowSaved(t, i, enforced) ==
  /\ i \notin tables[t]
  /\ TableChange
  /\ SaveRow(t, i, enforced)
  /\ UNCHANGED <<fileVars, maker, backupLoop, restore>>

\* The restore that runs no longer answers for a row somebody else removes.
RowDeleted(t, i, enforced) ==
  /\ i \in tables[t]
  /\ TableChange
  /\ tables' = [u \in Tables |-> IF u = t \/ (t = "apps" /\ u = "routes" /\ enforced)
                                 THEN tables[u] \ {i} ELSE tables[u]]
  /\ restore' = IF restore.pc = "none" THEN restore
                ELSE [restore EXCEPT !.missed = @ \cup {<<u, i>> : u \in
                        IF t = "apps" THEN {"apps", "routes"} ELSE {t}}]
  /\ UNCHANGED <<fileVars, maker, backupLoop>>

(***************************************************************************)
(* Making a backup.                                                        *)
(***************************************************************************)
MakerAt(m, pc) == maker[m].pc = pc

\* At the start of the loop and at every tick; at any time for the API. The
\* timestamp is taken when the snapshot is begun.
CreateBackup(m) ==
  /\ MakerAt(m, "idle")
  /\ m = "scheduler" => backupLoop = "running"
  /\ lastBackup < MaxBackups
  /\ lastBackup' = lastBackup + 1
  /\ maker' = [maker EXCEPT ![m] = [IdleMaker EXCEPT !.pc = "reading", !.id = lastBackup']]
  /\ UNCHANGED <<tables, snapshots, backupFile, saved, removedByUser, backupLoop,
                 restore, boundVars>>

\* One statement per table, not one transaction.
ListTable(m) ==
  LET t == TableNames[maker[m].table] IN
  /\ MakerAt(m, "reading")
  /\ snapshots' = [snapshots EXCEPT ![maker[m].id][t] = tables[t]]
  /\ maker' = [maker EXCEPT ![m] = IF @.table = 3 THEN [@ EXCEPT !.pc = "saving"]
                                   ELSE [@ EXCEPT !.table = maker[m].table + 1]]
  /\ UNCHANGED <<tables, backupFile, lastBackup, saved, removedByUser, backupLoop,
                 restore, boundVars>>

\* The file is written; only the scheduler goes on to its retention policy.
SaveBackup(m) ==
  /\ MakerAt(m, "saving")
  /\ backupFile' = [backupFile EXCEPT ![maker[m].id] = "valid"]
  /\ saved' = saved \cup {maker[m].id}
  /\ maker' = [maker EXCEPT ![m] = IF m = "scheduler" THEN [@ EXCEPT !.pc = "saved"]
                                   ELSE IdleMaker]
  /\ UNCHANGED <<tables, snapshots, lastBackup, removedByUser, backupLoop, restore,
                 boundVars>>

SaveBackupFails(m) ==
  /\ MakerAt(m, "saving")
  /\ Fault
  /\ maker' = [maker EXCEPT ![m] = IdleMaker]
  /\ UNCHANGED <<tables, fileVars, backupLoop, restore>>

\* Files that can be read, newest first.
ListBackups ==
  LET valid == {b \in BackupIds : backupFile[b] = "valid"}
      rank(b) == Cardinality({c \in valid : c >= b})
  IN  [k \in 1..Cardinality(valid) |-> CHOOSE b \in valid : rank(b) = k]

\* Mutant: one backup less is kept.
VictimsOffByOne == SubSeq(ListBackups, Retention, Len(ListBackups))

\* What CleanupOldBackups will delete: all but the first Retention.
Victims == SubSeq(ListBackups, Retention + 1, Len(ListBackups))

CleanupLists ==
  /\ MakerAt("scheduler", "saved")
  /\ maker' = [maker EXCEPT !["scheduler"] =
                 [@ EXCEPT !.pc = "cleaning", !.victims = Victims]]
  /\ UNCHANGED <<tables, fileVars, backupLoop, restore, boundVars>>

\* One file after the other; a file that is gone already ends the cleanup.
CleanupOldBackups ==
  LET v == maker["scheduler"].victims
      gone == v # <<>> /\ backupFile[Head(v)] = "absent" IN
  /\ MakerAt("scheduler", "cleaning")
  /\ IF v = <<>> \/ gone
     THEN /\ maker' = [maker EXCEPT !["scheduler"] = IdleMaker]
          /\ UNCHANGED backupFile
     ELSE /\ maker' = [maker EXCEPT !["scheduler"].victims = Tail(@)]
          /\ backupFile' = [backupFile EXCEPT ![Head(v)] = "absent"]
  /\ UNCHANGED <<tables, snapshots, lastBackup, saved, removedByUser, backupLoop,
                 restore, boundVars>>

DeleteBackup(b) ==
  /\ backupFile[b] # "absent"
  /\ backupFile' = [backupFile EXCEPT ![b] = "absent"]
  /\ removedByUser' = removedByUser \cup {b}
  /\ UNCHANGED <<tables, snapshots, lastBackup, saved, maker, backupLoop, restore,
                 boundVars>>

(***************************************************************************)
(* Restoring with every option set.                                        *)
(***************************************************************************)
RestoreBackup(b) ==
  /\ restore.pc = "none"
  /\ backupFile[b] = "valid"
  /\ restore' = [NoRestore EXCEPT !.pc = "saving", !.id = b,
                                  !.todo = snapshots[b]["apps"]]
  /\ UNCHANGED <<tables, fileVars, maker, backupLoop, boundVars>>

\* The next row of the table; the first one that is refused ends the restore.
RestoreRow(i, enforced) ==
  LET t == TableNames[restore.table] IN
  /\ restore.pc = "saving" /\ i \in restore.todo
  /\ IF RowFits(t, i, enforced)
     THEN /\ SaveRow(t, i, enforced)
          /\ restore' = [restore EXCEPT !.todo = @ \ {i}, !.missed = @ \ {<<t, i>>}]
     ELSE /\ restore' = [restore EXCEPT !.pc = "failed"]
          /\ UNCHANGED tables
  /\ UNCHANGED <<fileVars, maker, backupLoop, boundVars>>

RestoreRowFails ==
  /\ restore.pc = "saving" /\ restore.todo # {}
  /\ Fault
  /\ restore' = [restore EXCEPT !.pc = "failed"]
  /\ UNCHANGED <<tables, fileVars, maker, backupLoop>>

\* Mutant: the restore ends after its first table.
SkipTable == restore' = [restore EXCEPT !.pc = "ok"]

\* The next table, or the answer.
NextTable ==
  restore' = IF restore.table = 3 THEN [restore EXCEPT !.pc = "ok"]
             ELSE [restore EXCEPT !.table = @ + 1,
                     !.todo = snapshots[restore.id][TableNames[restore.table + 1]]]

RestoreTableDone ==
  /\ restore.pc = "saving" /\ restore.todo = {}
  /\ NextTable
  /\ UNCHANGED <<tables, fileVars, maker, backupLoop, boundVars>>

RestoreAnswered ==
  /\ restore.pc \in {"ok", "failed"}
  /\ restore' = NoRestore
  /\ UNCHANGED <<tables, fileVars, maker, backupLoop, boundVars>>

(***************************************************************************)
(* Stop, and a process that ends.                                          *)
(***************************************************************************)
BackupStop ==
  /\ backupLoop = "running"
  /\ backupLoop' = "stopping"
  /\ UNCHANGED <<tables, fileVars, maker, restore, boundVars>>

\* The loop sees the closed channel between two backups.
BackupStopped ==
  /\ backupLoop = "stopping" /\ MakerAt("scheduler", "idle")
  /\ backupLoop' = "stopped"
  /\ UNCHANGED <<tables, fileVars, maker, restore, boundVars>>

\* A file that was being written stays behind in pieces.
BackupRestart ==
  /\ Fault
  /\ backupFile' = [b \in BackupIds |->
                      IF \E m \in Makers : MakerAt(m, "saving") /\ maker[m].id = b
                      THEN "corrupt" ELSE backupFile[b]]
  /\ maker' = [m \in Makers |-> IdleMaker]
  /\ backupLoop' = "running" /\ restore' = NoRestore
  /\ UNCHANGED <<tables, snapshots, lastBackup, saved, removedByUser>>

BackupNext ==
  \/ \E m \in Makers : \/ CreateBackup(m) \/ ListTable(m)
                       \/ SaveBackup(m) \/ SaveBackupFails(m)
  \/ CleanupLists \/ CleanupOldBackups
  \/ \E b \in BackupIds : DeleteBackup(b) \/ RestoreBackup(b)
  \/ \E i \in TableItems, k \in BOOLEAN :
       \/ RestoreRow(i, k)
       \/ \E t \in Tables : RowSaved(t, i, k) \/ RowDeleted(t, i, k)
  \/ RestoreRowFails \/ RestoreTableDone \/ RestoreAnswered
  \/ BackupStop \/ BackupStopped \/ BackupRestart

BackupSpec == BackupInit /\ [][BackupNext]_backupVars

(***************************************************************************)
(* Properties.                                                             *)
(***************************************************************************)
BackupTypeOK ==
  /\ tables \in [Tables -> SUBSET TableItems]
  /\ snapshots \in [BackupIds -> [Tables -> SUBSET TableItems]]
  /\ backupFile \in [BackupIds -> {"absent", "valid", "corrupt"}]
  /\ \A m \in Makers : maker[m].pc \in {"idle", "reading", "saving", "saved", "cleaning"}
  /\ backupLoop \in {"running", "stopping", "stopped"}
  /\ lastBackup \in 0..MaxBackups
  /\ saved \subseteq 1..lastBackup /\ removedByUser \subseteq 1..lastBackup
  /\ restore.pc \in {"none", "saving", "ok", "failed"}
  /\ backupFaults \in 0..MaxBackupFaults

\* The retention policy deletes a backup only when Retention newer ones had
\* been saved, by the scheduler or by users: whatever is saved, listed and
\* deleted in between, the newest Retention backups are there, except the ones
\* users deleted and the ones that were never completely written.
NewestAreKept ==
  \A b \in saved : backupFile[b] = "absent" /\ b \notin removedByUser
                  => Cardinality({c \in saved : c > b}) >= Retention

\* A restore that reports success has brought back every row of the snapshot:
\* each one is there, unless it was deleted while the restore ran. A snapshot
\* with a route whose app was created while it was read is the hard case.
RestoreIsComplete ==
  restore.pc = "ok" =>
    \A t \in Tables : \A i \in snapshots[restore.id][t] :
      i \in tables[t] \/ <<t, i>> \in restore.missed

\* A backup that was made can be relied on: the newest are kept, and what a
\* restore says it has restored is there.
BackupsAreGood == NewestAreKept /\ RestoreIsComplete
=============================================================================
