----------------------------- MODULE VmSnapshots -----------------------------
(***************************************************************************)
(* src/engine/validation-test/disabled/common_fixtures.py: a service of    *)
(* one virtual machine whose disks are Longhorn volumes (createVMService), *)
(* snapshots of a disk with a file written before each                     *)
(* (take_snapshots_for_vm_service), and the disk taken back to one of them *)
(* by revert_volume_to_snapshot_for_vm_service or through a backup by      *)
(* restore_volume_from_backup_for_vm_service.  Commands run in the VM by   *)
(* ssh, of which only the output is read: a mount that fails goes unseen,  *)
(* and files end up on the root disk, below the data disk's directory.     *)
(* The mount does not outlive a restart of the VM.                         *)
(***************************************************************************)
EXTENDS Naturals

CONSTANTS
    Count,        \* snapshot_count
    MaxCalls,     \* reverts, restorations and deletions of a test
    MaxFaults

Bounds == {Count, MaxCalls, MaxFaults} \subseteq Nat \ {0}

VARIABLES
    disk,       \* is_root: the disk that is written to
    service,    \* state of the service
    vm,         \* the virtual machine
    volume,     \* files on the disk
    below,      \* files on the root disk, in the directory of the data disk
    cache,      \* files that were written and not yet synced
    snap,       \* files in each snapshot
    backup,     \* files in the backup
    test,
    faults

vars == <<disk, service, vm, volume, below, cache, snap, backup, test, faults>>

Files == 0 .. Count     \* 0 is validate_writes' file, k that of the k-th snapshot
Indexes == 1 .. Count
none == [there |-> FALSE, files |-> {}]

TypeOK ==
    /\ disk \in {"root", "data"}
    /\ service \in {"inactive", "activating", "active", "deactivating"}
    /\ vm \in [state : {"stopped", "running"}, healthy : BOOLEAN, mounted : BOOLEAN]
    /\ {volume, below, cache} \subseteq SUBSET Files
    /\ snap \in [Indexes -> [there : BOOLEAN, files : SUBSET Files]]
    /\ backup \in [there : BOOLEAN, files : SUBSET Files]
    /\ test \in [call : {"create", "delete", "revert", "restore"}, index : Indexes, file : 0 .. Count + 1, calls : 0 .. MaxCalls,
                 pc : {"activate", "active", "healthy", "dir", "write", "sync", "read", "snapshot",
                       "backup", "deactivate", "inactive", "stopped", "revert", "check",
                       "returned", "raised"}]
    /\ faults \in 0 .. MaxFaults

Init == /\ disk \in {"root", "data"} /\ service = "inactive"
        /\ vm = [state |-> "stopped", healthy |-> FALSE, mounted |-> FALSE]
        /\ volume = {} /\ below = {} /\ cache = {}
        /\ snap = [k \in Indexes |-> none] /\ backup = none
        /\ test = [call |-> "create", pc |-> "activate", index |-> 1, file |-> 0, calls |-> 0]
        /\ faults = 0

At(pc) == test.pc = pc
Goto(pc) == test' = [test EXCEPT !.pc = pc]
Fault == faults < MaxFaults /\ faults' = faults + 1
NoFault == UNCHANGED faults

disks == <<disk, volume, below, cache, snap, backup>>

(* A wait: for something that holds, or, which is a fault, until it takes too long. *)
Wait(pc, holds, next) == /\ At(pc) /\ UNCHANGED <<disks, service, vm>>
                         /\ \/ holds /\ Goto(next) /\ NoFault
                            \/ ~holds /\ Goto("raised") /\ Fault

(* The directory that the test writes to is one of the disk under test. *)
OnDisk == disk = "root" \/ vm.mounted
Visible == cache \cup (IF OnDisk THEN volume ELSE below)

-----------------------------------------------------------------------------
(* The service is activated, by createVMService or after the disk was taken back. *)
Activate == /\ At("activate") /\ service' = "activating" /\ Goto("active")
            /\ UNCHANGED <<disks, vm>> /\ NoFault

AwaitHealthy == \/ Wait("active", service = "active", "healthy")
                \/ Wait("healthy", vm.healthy, "dir")

(***************************************************************************)
(* make_dir and mount_data_dir.  check_data_device_exists sees whether the *)
(* device is there; whether it was mounted is not seen, the directory      *)
(* exists without that.                                                    *)
(***************************************************************************)
AfterDir == IF test.call = "create" THEN "write" ELSE "check"

MountDir ==
    /\ At("dir") /\ UNCHANGED <<disks, service>>
    /\ \/ /\ Goto(AfterDir) /\ NoFault
          /\ vm' = [vm EXCEPT !.mounted = (disk = "data")]
       \/ disk = "data" /\ Goto(AfterDir) /\ Fault /\ UNCHANGED vm
       \/ test.call = "create" /\ disk = "data" /\ Goto("raised") /\ Fault /\ UNCHANGED vm

-----------------------------------------------------------------------------
(* write_data, which ends with a sync, and read_data *)
write_data == /\ At("write") /\ cache' = cache \cup {test.file} /\ Goto("sync")
              /\ UNCHANGED <<disk, volume, below, snap, backup, service, vm>> /\ NoFault

Flush == /\ cache' = {} /\ UNCHANGED <<disk, snap, backup, service, vm>> /\ NoFault
         /\ IF OnDisk THEN volume' = volume \cup cache /\ UNCHANGED below
                      ELSE below' = below \cup cache /\ UNCHANGED volume

(* Slip for Sync: what was written stays in the page cache. *)
SyncNothing == At("sync") /\ Goto("read") /\ UNCHANGED <<disks, service, vm>> /\ NoFault

Sync == At("sync") /\ Flush /\ Goto("read")

read_data == /\ At("read") /\ UNCHANGED <<disks, service, vm>> /\ NoFault
             /\ IF test.file \notin Visible THEN Goto("raised")
                ELSE IF test.file > 0 THEN Goto("snapshot")
                ELSE test' = [test EXCEPT !.pc = "write", !.file = 1]

(* take_snapshot; after the last one the test goes on with something else. *)
take_snapshot ==
    /\ At("snapshot") /\ UNCHANGED <<disk, volume, below, cache, backup, service, vm>> /\ NoFault
    /\ snap' = [snap EXCEPT ![test.file] = [there |-> TRUE, files |-> volume]]
    /\ test' = [test EXCEPT !.file = @ + 1,
                            !.pc = IF test.file < Count THEN "write" ELSE "returned"]

-----------------------------------------------------------------------------
(* What the tests go on with; a restoration is the last. *)
NextCall ==
    /\ At("returned") /\ test.call # "restore" /\ test.calls < MaxCalls
    /\ UNCHANGED <<disk, volume, below, cache, backup, service, vm>> /\ NoFault
    /\ \E k \in Indexes, call \in {"delete", "revert", "restore"} :
          /\ snap[k].there
          /\ test' = [test EXCEPT !.call = call, !.index = k, !.calls = @ + 1,
                         !.pc = CASE call = "delete" -> "returned"
                                  [] call = "revert" -> "deactivate"
                                  [] call = "restore" -> "backup"]
          /\ snap' = IF call = "delete" THEN [snap EXCEPT ![k] = none] ELSE snap

Backup == /\ At("backup") /\ backup' = snap[test.index] /\ Goto("deactivate")
          /\ UNCHANGED <<disk, volume, below, cache, snap, service, vm>> /\ NoFault

Deactivate == \/ /\ At("deactivate") /\ service' = "deactivating" /\ Goto("inactive")
                 /\ UNCHANGED <<disks, vm>> /\ NoFault
              \/ Wait("inactive", service = "inactive", "stopped")
              \/ Wait("stopped", vm.state = "stopped", "revert")

(* reverttosnapshot, restorefrombackup: the volume may get other files than it should. *)
TakeBack ==
    /\ At("revert") /\ Goto("activate") /\ UNCHANGED <<disk, below, cache, snap, backup, service, vm>>
    /\ LET wanted == IF test.call = "restore" THEN backup ELSE snap[test.index]
       IN \/ volume' = wanted.files /\ NoFault
          \/ volume' \in SUBSET Files \ {wanted.files} /\ Fault

(* Slip for CheckFiles: the files of later snapshots are not looked for. *)
CheckFirstFiles ==
    /\ At("check") /\ UNCHANGED <<disks, service, vm>> /\ NoFault
    /\ IF 1 .. test.index \subseteq Visible THEN Goto("returned") ELSE Goto("raised")

(* Up to the snapshot's file all are there, with their content, and no further one is. *)
CheckFiles ==
    /\ At("check") /\ UNCHANGED <<disks, service, vm>> /\ NoFault
    /\ IF \A k \in Indexes : k \in Visible <=> k <= test.index
       THEN Goto("returned") ELSE Goto("raised")

Test == \/ Activate \/ AwaitHealthy \/ MountDir \/ write_data \/ Sync \/ read_data
        \/ take_snapshot \/ NextCall \/ Backup \/ Deactivate \/ TakeBack \/ CheckFiles

-----------------------------------------------------------------------------
(* The server starts and stops the VM; the VM writes its cache back when it likes. *)
StartVm == /\ service = "activating" /\ vm.state = "stopped" /\ UNCHANGED service
           /\ vm' = [state |-> "running", healthy |-> FALSE, mounted |-> FALSE]

StopVm == /\ service \in {"deactivating", "inactive"} /\ vm.state = "running"
          /\ UNCHANGED service
          /\ vm' = [state |-> "stopped", healthy |-> FALSE, mounted |-> FALSE]

BecomeHealthy == /\ vm.state = "running" /\ ~vm.healthy /\ UNCHANGED service
                 /\ vm' = [vm EXCEPT !.healthy = TRUE]

Settle == /\ \/ service = "activating" /\ vm.state = "running" /\ service' = "active"
             \/ service = "deactivating" /\ service' = "inactive"
          /\ UNCHANGED vm

Server == /\ StartVm \/ StopVm \/ BecomeHealthy \/ Settle
          /\ cache' = IF vm'.state = "running" THEN cache ELSE {}
          /\ UNCHANGED <<disk, volume, below, snap, backup, test>> /\ NoFault

Writeback == cache # {} /\ Flush /\ UNCHANGED test

Next == Test \/ Server \/ Writeback

Spec == Init /\ [][Next]_vars

-----------------------------------------------------------------------------
(***************************************************************************)
(* A revert or restoration that passed left the volume with the files up   *)
(* to its snapshot's and no later ones.  Where the data disk was not       *)
(* mounted, so that other files were looked at, it passed only if it was   *)
(* not mounted either when the files were written, and for the last        *)
(* snapshot: then nothing has ever been written to the volume.             *)
(***************************************************************************)
PassMeansReverted ==
    At("returned") /\ test.call \in {"revert", "restore"} =>
        IF OnDisk THEN volume \cap Indexes = 1 .. test.index
        ELSE test.index = Count /\ Indexes \subseteq below

(***************************************************************************)
(* A test raises only after a failure: of the VM, a mount, the server or   *)
(* the volume, never by what it does itself, such as to take a snapshot of *)
(* a file that is still in the page cache.                                 *)
(***************************************************************************)
FailsOnlyByFaults == At("raised") => faults > 0
=============================================================================
