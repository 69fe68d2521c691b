--------------------------- MODULE BackupChecksum ---------------------------
(***************************************************************************)
(* How a backup gets the checksum its restored data is compared with       *)
(* (e2e/libs/backup/rest.py).  The test thread writes the volume and notes *)
(* the checksum of the write as the volume's last one; backup.create takes *)
(* a snapshot, requests the backup and then, in the same thread or in one  *)
(* of its own, waits for completion, gives the backup its id and gives it  *)
(* the volume's last checksum.                                             *)
(*                                                                         *)
(* Data is a version number: the number of writes it holds, which stands   *)
(* for its checksum too.  The annotations are set by ObjectUpdate's loop,  *)
(* which may give up without an error: the bounded faults.                 *)
(***************************************************************************)
EXTENDS Naturals

CONSTANTS
    Backups,       \* ids of the backups a test creates
    Unset,         \* no checksum: the annotation is missing, or was copied from one
    MaxWrites,     \* bound: writes
    MaxFaults      \* bound: annotations lost, and reads of them that fail

Bounds == MaxWrites \in Nat /\ MaxFaults \in Nat /\ Unset \notin Nat

VARIABLES
    disk,      \* the volume's data
    last,      \* its ANNOT_LAST_CHECKSUM
    snap,      \* a snapshot the test took before, Unset if none
    backup,    \* the backups: state, data, id and checksum annotations
    thread,    \* background() of each backup
    lastBackup,\* the volume's status.lastBackup
    main,      \* the test thread
    faults

vars == <<disk, last, snap, backup, thread, lastBackup, main, faults>>

Data == 0 .. MaxWrites
Checksum == Data \cup {Unset}

TypeOK == /\ disk \in Data
          /\ last \in Checksum
          /\ snap \in Checksum
          /\ backup \in [Backups -> [state : {"none", "inProgress", "completed", "error"},
                                     data : Data, fresh : BOOLEAN,
                                     id : BOOLEAN, sum : Checksum]]
          /\ thread \in [Backups -> [pc : {"none", "wait", "find", "setId", "readLast",
                                           "setSum", "end", "raised"},
                                     waited : BOOLEAN, sum : Checksum]]
          /\ lastBackup \in Backups \cup {Unset}
          /\ main \in [pc : {"idle", "note", "join", "lastBackup", "check", "passed", "failed"},
                       b : Backups,
                       verdict : {"none", "same", "missing", "differs"}]
          /\ faults \in 0 .. MaxFaults

Init == /\ disk = 0 /\ last = Unset /\ snap = Unset
        /\ backup = [b \in Backups |-> [state |-> "none", data |-> 0, fresh |-> FALSE,
                                        id |-> FALSE, sum |-> Unset]]
        /\ thread = [b \in Backups |-> [pc |-> "none", waited |-> FALSE, sum |-> Unset]]
        /\ lastBackup = Unset
        /\ \E b \in Backups : main = [pc |-> "idle", b |-> b, verdict |-> "none"]
        /\ faults = 0

(* A read that fails, or an annotation that is lost: set_annotation gives  *)
(* up in silence after conflicts, and raises after any other error.        *)
Fault == faults < MaxFaults /\ faults' = faults + 1

-----------------------------------------------------------------------------
(* The test thread.                                                        *)

Idle == main.pc = "idle"
Goto(pc) == main' = [main EXCEPT !.pc = pc]

(* write_random_data: the data, then the annotation of its checksum.       *)
Write == /\ Idle /\ disk < MaxWrites
         /\ disk' = disk + 1
         /\ Goto("note")
         /\ UNCHANGED <<last, snap, backup, thread, lastBackup, faults>>

NoteLast == /\ main.pc = "note"
            /\ \/ last' = disk /\ UNCHANGED faults /\ Goto("idle")
               \/ Fault /\ UNCHANGED last /\ (Goto("idle") \/ Goto("failed"))
            /\ UNCHANGED <<disk, snap, backup, thread, lastBackup>>

TakeSnapshot == /\ Idle /\ snap = Unset
                /\ snap' = disk
                /\ UNCHANGED <<disk, last, backup, thread, lastBackup, main, faults>>

(* create: from a snapshot of now, or from the one the test names.         *)
Request(b, data, fresh, wait) ==
    /\ Idle /\ backup[b].state = "none"
    /\ backup' = [backup EXCEPT ![b].state = "inProgress", ![b].data = data, ![b].fresh = fresh]
    /\ thread' = [thread EXCEPT ![b].pc = "wait", ![b].waited = wait]
    /\ UNCHANGED <<disk, last, snap, lastBackup, faults>>

(* Slip for Create: the caller does not wait for its background().         *)
CreateDetached(b) == \E wait \in BOOLEAN :
    /\ \/ Request(b, disk, TRUE, wait)
       \/ snap # Unset /\ Request(b, snap, FALSE, wait)
    /\ UNCHANGED main

Create(b) == \E wait \in BOOLEAN :
    /\ \/ Request(b, disk, TRUE, wait)
       \/ snap # Unset /\ Request(b, snap, FALSE, wait)
    /\ main' = IF wait THEN [main EXCEPT !.pc = "join", !.b = b] ELSE main

(* With wait, background() runs in the test thread; then the volume's      *)
(* lastBackup is to become this backup.                                    *)
Join == /\ main.pc = "join" /\ thread[main.b].pc \in {"end", "raised"}
        /\ Goto(IF thread[main.b].pc = "end" THEN "lastBackup" ELSE "failed")
        /\ UNCHANGED <<disk, last, snap, backup, thread, lastBackup, faults>>

AwaitLastBackup == /\ main.pc = "lastBackup"
                   /\ Goto(IF lastBackup = main.b THEN "idle" ELSE "failed")
                   /\ UNCHANGED <<disk, last, snap, backup, thread, lastBackup, faults>>

(* "Wait for backup ... to exist in backup list" looks for its id, then    *)
(* "Check volume ... data is backup ..." restores it and compares.         *)
Found(b) == /\ Idle /\ backup[b].id
            /\ main' = [main EXCEPT !.pc = "check", !.b = b]
            /\ UNCHANGED <<disk, last, snap, backup, thread, lastBackup, faults>>

NotFound(b) == /\ Idle /\ backup[b].state # "none" /\ ~backup[b].id
               /\ Goto("failed")
               /\ UNCHANGED <<disk, last, snap, backup, thread, lastBackup, faults>>

(* Anything but the same checksum fails the test.                          *)
CheckRestored ==
    /\ main.pc = "check"
    /\ LET sum == backup[main.b].sum
           verdict == CASE sum = backup[main.b].data -> "same"
                        [] sum = Unset -> "missing"
                        [] OTHER -> "differs"
       IN  main' = [main EXCEPT !.pc = IF verdict = "same" THEN "idle" ELSE "failed",
                                !.verdict = verdict]
    /\ UNCHANGED <<disk, last, snap, backup, thread, lastBackup, faults>>

(* The test ends, or one of its calls raises.                              *)
EndTest == Idle /\ (Goto("passed") \/ Goto("failed"))
           /\ UNCHANGED <<disk, last, snap, backup, thread, lastBackup, faults>>

Main == \/ Write \/ NoteLast \/ TakeSnapshot \/ Join \/ AwaitLastBackup
        \/ CheckRestored \/ EndTest
        \/ \E b \in Backups : Create(b) \/ Found(b) \/ NotFound(b)

-----------------------------------------------------------------------------
(* background().                                                           *)

Background == UNCHANGED <<disk, last, snap, lastBackup, main>>

At(b, pc) == thread[b].pc = pc
Go(b, pc) == thread' = [thread EXCEPT ![b].pc = pc]

Completed(b) == backup[b].state = "completed"

(* Slip for WaitCompleted: a backup that is in progress will do.           *)
WaitStarted(b) == /\ At(b, "wait") /\ Go(b, "find")
                  /\ UNCHANGED <<backup, faults>> /\ Background

WaitCompleted(b) == /\ At(b, "wait") /\ Completed(b)
                    /\ Go(b, "find")
                    /\ UNCHANGED <<backup, faults>> /\ Background

(* The wait for the completion, or for the backup to be listed, runs out   *)
(* of rounds or a read raises; an error of the backup is not looked at.    *)
GivesUp(b) == /\ At(b, "wait") \/ At(b, "find")
              /\ Go(b, "raised")
              /\ UNCHANGED <<backup, faults>> /\ Background

FindBackup(b) == /\ At(b, "find")
                 /\ Go(b, "setId")
                 /\ UNCHANGED <<backup, faults>> /\ Background

SetBackupId(b) == /\ At(b, "setId")
                  /\ \/ /\ backup' = [backup EXCEPT ![b].id = TRUE]
                        /\ Go(b, "readLast") /\ UNCHANGED faults
                     \/ /\ Fault /\ UNCHANGED backup
                        /\ Go(b, "readLast") \/ Go(b, "raised")
                  /\ Background

ReadLast(b) == /\ At(b, "readLast")
               /\ \E sum \in {last, Unset} :
                     /\ IF sum = last THEN UNCHANGED faults ELSE Fault
                     /\ thread' = [thread EXCEPT ![b].pc = "setSum", ![b].sum = sum]
               /\ UNCHANGED backup /\ Background

SetDataChecksum(b) == /\ At(b, "setSum")
                      /\ \/ /\ backup' = [backup EXCEPT ![b].sum = thread[b].sum]
                            /\ Go(b, "end") /\ UNCHANGED faults
                         \/ /\ Fault /\ UNCHANGED backup
                            /\ Go(b, "end") \/ Go(b, "raised")
                      /\ Background

Step(b) == \/ WaitCompleted(b) \/ GivesUp(b) \/ FindBackup(b)
           \/ SetBackupId(b) \/ ReadLast(b) \/ SetDataChecksum(b)

-----------------------------------------------------------------------------
(* Longhorn (external).                                                    *)

Finish(b) == /\ backup[b].state = "inProgress"
             /\ \/ /\ backup' = [backup EXCEPT ![b].state = "completed"]
                   /\ lastBackup' = b
                \/ /\ backup' = [backup EXCEPT ![b].state = "error"]
                   /\ UNCHANGED lastBackup
             /\ UNCHANGED <<disk, last, snap, thread, main, faults>>

Next == \/ Main
        \/ \E b \in Backups : Step(b) \/ Finish(b)

(* The threads run; a backup may stay in progress for ever.                *)
Spec == Init /\ [][Next]_vars /\ WF_vars(Main) /\ \A b \in Backups : WF_vars(Step(b))

-----------------------------------------------------------------------------
(* Properties.                                                             *)

(* A backup of the volume as it is, created by a call that waits after a   *)
(* write, carries the checksum of its data once the call returns, whatever *)
(* the other backups' threads do meanwhile, unless an annotation was lost. *)
WaitedBackupIsRight ==
    \A b \in Backups :
        /\ thread[b].waited /\ backup[b].fresh /\ At(b, "end")
        /\ backup[b].data > 0
        /\ faults = 0
        => backup[b].sum = backup[b].data

(* A backup that a test finds by its id has all its data: a restoration    *)
(* does not begin from one that is in progress or in error.                *)
FoundBackupIsComplete == main.pc = "check" => Completed(main.b)

(* What "Check volume ... data is backup ..." says it checks: with no      *)
(* annotation lost, it does not find that a restored volume, which has the *)
(* data of the backup, differs from it.                                    *)
CheckIsAboutTheData == main.verdict = "differs" => faults > 0
=============================================================================
