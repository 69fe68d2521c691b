------------------------------ MODULE VmReplicas ------------------------------
(***************************************************************************)
(* src/engine/validation-test/disabled: the tests of test_longhorn_vm.py   *)
(* that delete the two replicas of a virtual machine's disk one after the  *)
(* other, or kill the process of one, with the helpers of                  *)
(* common_fixtures.py they call: delete_replica_and_wait_for_service_      *)
(* reconcile, kill_system_process_and_wait_for_service_reconcile,          *)
(* validate_writes, get_service_containers_with_name,                      *)
(* wait_for_replica_rebuild, and in the end delete_standalone_vm_volumes.  *)
(* The Rancher server replaces containers on its own, and the controller   *)
(* of the volume notices in its own time that a replica is gone.           *)
(***************************************************************************)
EXTENDS Naturals

CONSTANTS
    Rounds,        \* 2, or 5 for the kills
    MaxFaults

Bounds == Rounds \in Nat \ {0} /\ MaxFaults \in Nat

VARIABLES
    con,       \* container of each name: its state, its address and whether it is connected
    mode,      \* mode of each replica in the controller's list, under the address listed
    data,      \* the container has all that was written
    vm,        \* state of the virtual machine
    vol,       \* states of its volumes
    test,
    faults     \* replicas that failed on their own

vars == <<con, mode, data, vm, vol, test, faults>>

Names == {1, 2}
Disks == {"root", "data"}

TypeOK ==
    /\ con \in [Names -> [state : {"running", "stopped", "removed"}, address : Nat, linked : BOOLEAN]]
    /\ mode \in [Names -> [address : Nat, mode : {"RW", "WO", "ERR"}]]
    /\ data \in [Names -> BOOLEAN]
    /\ vm \in {"running", "removed", "purging", "purged"}
    /\ vol \in [Disks -> {"active", "inactive", "removed", "purged"}]
    /\ test \in [op : {"delete", "kill"}, round : 1 .. Rounds, todo : SUBSET Names, name : Names,
                 listed : [Names -> Nat], disks : SUBSET Disks,
                 pc : {"list", "act", "find", "killed", "write", "relist", "rebuild", "end",
                       "vmRemoved", "vmPurged", "volumes", "returned", "raised"}]
    /\ faults \in 0 .. MaxFaults

Init == /\ con = [n \in Names |-> [state |-> "running", address |-> n, linked |-> TRUE]]
        /\ mode = [n \in Names |-> [address |-> n, mode |-> "RW"]]
        /\ data = [n \in Names |-> TRUE] /\ vm = "running"
        /\ vol = [d \in Disks |-> "active"] /\ faults = 0
        /\ \E op \in {"delete", "kill"} :
              test = [op |-> op, round |-> 1, todo |-> {}, name |-> 1, pc |-> "list",
                      listed |-> [n \in Names |-> n], disks |-> {}]

At(pc) == test.pc = pc
Goto(pc) == test' = [test EXCEPT !.pc = pc]
volume == <<con, mode, data>>
machine == <<vm, vol>>
Idle == UNCHANGED <<volume, machine, faults>>

(* A wait: for something that holds, or until it takes too long. *)
Wait(pc, holds, next) == /\ At(pc) /\ Idle
                         /\ (holds /\ Goto(next)) \/ (~holds /\ Goto("raised"))

-----------------------------------------------------------------------------
(***************************************************************************)
(* get_service_containers_with_name lists both containers, running or      *)
(* stopped.  Of the first list the deletions take each container in turn,  *)
(* a kill takes one.                                                       *)
(***************************************************************************)
AllListed == \A n \in Names : con[n].state # "removed"

ListContainers ==
    \/ /\ At("list") /\ Idle
       /\ \/ /\ AllListed
             /\ \E todo \in IF test.op = "delete" THEN {Names} ELSE {{n} : n \in Names} :
                   test' = [test EXCEPT !.pc = "act", !.todo = todo]
          \/ ~AllListed /\ Goto("raised")
    \/ /\ At("relist") /\ Idle
       /\ \/ AllListed /\ test' = [test EXCEPT !.pc = "rebuild",
                                               !.listed = [n \in Names |-> con[n].address]]
          \/ ~AllListed /\ Goto("raised")

DeleteReplica ==
    \/ /\ At("act") /\ test.op = "delete" /\ UNCHANGED <<mode, machine, faults>>
       /\ \E n \in test.todo :
             /\ con' = [con EXCEPT ![n].state = "removed", ![n].linked = FALSE]
             /\ data' = [data EXCEPT ![n] = FALSE]
             /\ test' = [test EXCEPT !.pc = "find", !.name = n, !.todo = @ \ {n}]
    \/ Wait("find", con[test.name].state = "running", "write")

KillProcess ==
    \/ /\ At("act") /\ test.op = "kill" /\ UNCHANGED <<mode, data, machine, faults>>
       /\ \E n \in test.todo :
             /\ con' = [con EXCEPT ![n].state = "stopped", ![n].linked = FALSE]
             /\ test' = [test EXCEPT !.pc = "killed", !.name = n, !.todo = @ \ {n}]
    \/ At("killed") /\ Goto("write") /\ Idle

(***************************************************************************)
(* validate_writes: the controller writes to the replicas that are         *)
(* connected; to write to one that is not makes it an error.               *)
(***************************************************************************)
Writable(n) == con[n].linked /\ mode[n].mode # "ERR"
Sound(n) == con[n].linked /\ mode[n].mode = "RW" /\ data[n]

(* Slip for validate_writes: nothing is written. *)
validate_nothing == At("write") /\ Goto("relist") /\ Idle

validate_writes ==
    /\ At("write") /\ UNCHANGED <<con, machine, faults>>
    /\ data' = [n \in Names |-> data[n] /\ Writable(n)]
    /\ mode' = [n \in Names |-> IF Writable(n) THEN mode[n] ELSE [mode[n] EXCEPT !.mode = "ERR"]]
    /\ IF \E n \in Names : Sound(n) THEN Goto("relist") ELSE Goto("raised")

(* wait_for_replica_rebuild: both addresses of the list are there as RW. *)
Rebuilt(n) == mode[n].mode = "RW" /\ mode[n].address = test.listed[n]

wait_for_replica_rebuild ==
    /\ At("rebuild") /\ Idle
    /\ \/ /\ \A n \in Names : Rebuilt(n)
          /\ IF test.todo # {} THEN Goto("act")
             ELSE IF test.round < Rounds
             THEN test' = [test EXCEPT !.pc = "list", !.round = @ + 1]
             ELSE Goto("end")
       \/ ~ (\A n \in Names : Rebuilt(n)) /\ Goto("raised")

-----------------------------------------------------------------------------
(* Slip for DeleteVm: the purge is not waited for. *)
DeleteVmAtOnce ==
    \/ /\ At("end") /\ vm' = "removed" /\ Goto("vmRemoved") /\ UNCHANGED <<volume, vol, faults>>
    \/ /\ At("vmRemoved") /\ vm' = "purging" /\ UNCHANGED <<volume, vol, faults>>
       /\ test' = [test EXCEPT !.pc = "volumes", !.disks = {d \in Disks : vol[d] = "inactive"}]

(* delete_all, and delete_standalone_vm_volumes, which skips a volume that is in use. *)
DeleteVm ==
    \/ /\ At("end") /\ vm' = "removed" /\ Goto("vmRemoved") /\ UNCHANGED <<volume, vol, faults>>
    \/ /\ At("vmRemoved") /\ UNCHANGED <<volume, vol, faults>>
       /\ \/ vm = "removed" /\ vm' = "purging" /\ Goto("vmPurged")
          \/ vm # "removed" /\ Goto("raised") /\ UNCHANGED vm
    \/ /\ At("vmPurged") /\ Idle
       /\ \/ vm = "purged" /\ test' = [test EXCEPT !.pc = "volumes",
                                       !.disks = {d \in Disks : vol[d] = "inactive"}]
          \/ vm # "purged" /\ Goto("raised")

DeleteVolume ==
    /\ At("volumes") /\ UNCHANGED <<volume, vm, faults>>
    /\ \/ \E d \in test.disks :
             \/ /\ vol' = [vol EXCEPT ![d] = "purged"]
                /\ test' = [test EXCEPT !.disks = @ \ {d}]
             \/ vol' = [vol EXCEPT ![d] = "removed"] /\ Goto("raised")
       \/ test.disks = {} /\ Goto("returned") /\ UNCHANGED vol

Test == \/ ListContainers \/ DeleteReplica \/ KillProcess \/ validate_writes
        \/ wait_for_replica_rebuild \/ DeleteVm \/ DeleteVolume

-----------------------------------------------------------------------------
(* The server replaces a container that was removed or whose process has   *)
(* ended, or starts the latter again under its address.                    *)
Reconcile(n) ==
    /\ \/ /\ con[n].state # "running" /\ data' = [data EXCEPT ![n] = FALSE]
          /\ con' = [con EXCEPT ![n].state = "running", ![n].address = @ + 2]
       \/ /\ con[n].state = "stopped" /\ con' = [con EXCEPT ![n].state = "running"]
          /\ UNCHANGED data
    /\ UNCHANGED <<mode, faults>>

(* The controller notices that a replica is gone, takes one that asks in,  *)
(* and ends its rebuilding from one that has all data.                     *)
SourceFor(n) == \E m \in Names \ {n} : Sound(m)

Notice(n) == /\ ~con[n].linked /\ mode' = [mode EXCEPT ![n].mode = "ERR"]
             /\ UNCHANGED <<con, data, faults>>

Join(n) == /\ con[n].state = "running" /\ ~con[n].linked /\ mode[n].mode = "ERR" /\ SourceFor(n)
           /\ con' = [con EXCEPT ![n].linked = TRUE]
           /\ mode' = [mode EXCEPT ![n] = [address |-> con[n].address, mode |-> "WO"]]
           /\ UNCHANGED <<data, faults>>

RebuildDone(n) == /\ con[n].linked /\ mode[n].mode = "WO" /\ SourceFor(n)
                  /\ mode' = [mode EXCEPT ![n].mode = "RW"]
                  /\ data' = [data EXCEPT ![n] = TRUE] /\ UNCHANGED <<con, faults>>

Fail(n) == /\ con[n].state = "running" /\ faults < MaxFaults /\ faults' = faults + 1
           /\ con' = [con EXCEPT ![n].state = "stopped", ![n].linked = FALSE]
           /\ UNCHANGED <<mode, data>>

Replica == /\ vm = "running" /\ UNCHANGED <<machine, test>>
           /\ \E n \in Names : Reconcile(n) \/ Notice(n) \/ Join(n) \/ RebuildDone(n) \/ Fail(n)

(* The volumes are released before the purge of the VM is over, which the  *)
(* server may also begin on its own.                                       *)
Release == /\ vm \in {"removed", "purging"} /\ UNCHANGED <<volume, test, faults>>
           /\ \/ vm = "removed" /\ vm' = "purging" /\ UNCHANGED vol
              \/ \E d \in Disks : /\ vol[d] = "active" /\ vol' = [vol EXCEPT ![d] = "inactive"]
                                  /\ UNCHANGED vm
              \/ /\ vm = "purging" /\ \A d \in Disks : vol[d] # "active"
                 /\ vm' = "purged" /\ UNCHANGED vol

Next == Test \/ Replica \/ Release

Spec == Init /\ [][Next]_vars

-----------------------------------------------------------------------------
(***************************************************************************)
(* As long as no replica fails on its own, the test never takes the last   *)
(* replica with all data away: the next one is deleted or killed only      *)
(* after the one before was rebuilt, not while the controller still has    *)
(* its predecessor as RW.                                                  *)
(***************************************************************************)
ReplicaLeft == faults = 0 => \E n \in Names : Sound(n)

(***************************************************************************)
(* A test that returns leaves no volume of its VM, although a volume that  *)
(* is in use when it is looked at is skipped in silence.                   *)
(***************************************************************************)
RemovedMeansPurged == At("returned") => \A d \in Disks : vol[d] = "purged"
=============================================================================
