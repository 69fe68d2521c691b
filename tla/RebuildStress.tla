---------------------------- MODULE RebuildStress ----------------------------
(***************************************************************************)
(* src/engine/stress/rebuild-test.py: a process that writes, checks and    *)
(* takes snapshots of a volume (read_write), and its child that replaces   *)
(* the volume's replicas one after the other and removes the snapshots     *)
(* (rebuild_replicas).  Ten volumes are stressed at once; they share no    *)
(* name and no address, because both end with the number of the volume, so *)
(* one of them is modelled.                                                *)
(*                                                                         *)
(* A replica is known by its address.  The controller is outside this      *)
(* repository: it knows the replicas it was started with or that were      *)
(* added, and those among them that run and have all data serve the disk.  *)
(***************************************************************************)
EXTENDS Naturals, FiniteSets

CONSTANTS
    Pages,         \* 0 .. NUM_PAGES - 1
    Patterns,      \* bytes
    Subnets,       \* 2 .. 253: the addresses 172.18.<subnet>.<thread>
    SnapshotLimit, \* 100
    MaxFaults      \* bound: commands that fail

Bounds == /\ SnapshotLimit \in Nat /\ MaxFaults \in Nat
          /\ Pages # {} /\ Patterns # {}
          /\ {2, 3} \subseteq Subnets /\ Cardinality(Subnets) > 2

VARIABLES
    disk,      \* the pattern in each page
    known,     \* addresses of the replicas in the controller's list
    healthy,   \* those that run and have all the data
    snapshots, \* number of snapshots
    w,         \* read_write: pc, pages and patterns of the iteration
    b,         \* rebuild_replicas: pc, addresses of its replicas, snapshots listed
    ready,     \* the block device exists
    broken,    \* commands that have failed
    unlisted   \* history: listings of the snapshots among them

vars == <<disk, known, healthy, snapshots, w, b, ready, broken, unlisted>>

None == 0

TypeOK == /\ disk \in [Pages -> Patterns \cup {None}]
          /\ healthy \subseteq Subnets /\ known \subseteq Subnets
          /\ snapshots \in Nat
          /\ w \in [pc : {"setup", "begin", "write2", "check", "check2", "count", "snapshot",
                          "rewrite", "recheck", "recheck2", "alarm", "raised"},
                    index : Pages, index2 : Pages,
                    pattern1 : Patterns, pattern2 : Patterns]
          /\ b \in [pc : {"none", "pick", "run", "rm", "add", "copy", "drop", "list", "remove",
                          "raised", "terminated"},
                    old : Subnets, other : Subnets, new : Subnets, left : Nat]
          /\ ready \in BOOLEAN /\ broken \in 0 .. MaxFaults /\ unlisted \in Nat

Init == /\ disk = [p \in Pages |-> None]
        /\ known = {} /\ healthy = {} /\ snapshots = 0
        /\ w = [pc |-> "setup", index |-> CHOOSE p \in Pages : TRUE,
                index2 |-> CHOOSE p \in Pages : TRUE,
                pattern1 |-> CHOOSE x \in Patterns : TRUE,
                pattern2 |-> CHOOSE x \in Patterns : TRUE]
        /\ b = [pc |-> "none", old |-> 2, other |-> 3, new |-> 2, left |-> 0]
        /\ ready = FALSE /\ broken = 0 /\ unlisted = 0

Fails == broken < MaxFaults /\ broken' = broken + 1

(***************************************************************************)
(* The disk.  writeat_direct reads a page, changes it and writes it back;  *)
(* nobody else writes to the volume in between.  Both raise an OSError if  *)
(* there is no device or no replica behind it.                             *)
(***************************************************************************)
writeat_direct(page, pattern) ==
    /\ ready /\ healthy # {}
    /\ disk' = [disk EXCEPT ![page] = pattern]

readat_direct(page) == IF ready /\ healthy # {} THEN {disk[page]} ELSE {}

-----------------------------------------------------------------------------
(* read_write *)

(* The finally clause: an exception in the loop terminates the child. *)
Finally == /\ w' = [w EXCEPT !.pc = "raised"]
           /\ b' = [b EXCEPT !.pc = IF @ = "raised" THEN @ ELSE "terminated"]
           /\ UNCHANGED <<disk, known, healthy, snapshots, ready, unlisted>>

(***************************************************************************)
(* Two replicas, a controller and the wait for its device, which returns   *)
(* in silence after a minute.  The child is started after that.            *)
(***************************************************************************)
Setup ==
    /\ w.pc = "setup"
    /\ \/ /\ \E r \in BOOLEAN : ready' = r
          /\ known' = {2, 3} /\ healthy' = {2, 3}
          /\ w' = [w EXCEPT !.pc = "begin"] /\ b' = [b EXCEPT !.pc = "pick"]
          /\ UNCHANGED <<disk, snapshots, broken, unlisted>>
       \/ /\ Fails /\ w' = [w EXCEPT !.pc = "raised"]
          /\ UNCHANGED <<disk, known, healthy, snapshots, b, ready, unlisted>>

(* The device appears after the wait has given up on it. *)
DeviceReady == /\ w.pc # "setup" /\ known # {} /\ ~ready /\ ready' = TRUE
               /\ UNCHANGED <<disk, known, healthy, snapshots, w, b, broken, unlisted>>

WriterMoves(pc) == /\ w' = [w EXCEPT !.pc = pc]
                   /\ UNCHANGED <<known, healthy, b, ready, broken, unlisted>>

NoDisk == (~ready \/ healthy = {}) /\ Finally /\ UNCHANGED broken

Begin ==
    /\ w.pc = "begin"
    /\ \/ \E i, j \in Pages, p \in Patterns :
             /\ writeat_direct(i, p)
             /\ w' = [w EXCEPT !.pc = "write2", !.index = i, !.index2 = j, !.pattern1 = p]
             /\ UNCHANGED <<known, healthy, snapshots, b, ready, broken, unlisted>>
       \/ NoDisk

Write2 == /\ w.pc = "write2"
          /\ \/ /\ writeat_direct(w.index2, w.pattern1)
                /\ WriterMoves("check") /\ UNCHANGED snapshots
             \/ NoDisk

(* check_data: an assertion that fails is an alarm of the test. *)
check_data(page, pattern, next) ==
    \/ \E data \in readat_direct(page) :
          /\ WriterMoves(IF data = pattern THEN next ELSE "alarm")
          /\ UNCHANGED <<disk, snapshots>>
    \/ NoDisk

Check == w.pc = "check" /\ check_data(w.index, w.pattern1, "check2")
Check2 == w.pc = "check2" /\ check_data(w.index2, w.pattern1, "count")

(***************************************************************************)
(* get_snapshot_list, in both processes: the status of its pipeline is     *)
(* that of tail.  If docker exec fails, nothing is raised, and the list is *)
(* what it had printed by then, often nothing.                             *)
(***************************************************************************)
get_snapshot_list(listed) ==
    \/ listed = snapshots /\ UNCHANGED <<broken, unlisted>>
    \/ listed \in 0 .. snapshots /\ Fails /\ unlisted' = unlisted + 1

(* Slip for CountSnapshots: the limit is not looked at. *)
CountSnapshotsOnly == /\ w.pc = "count"
                      /\ WriterMoves("snapshot") /\ UNCHANGED <<disk, snapshots>>

CountSnapshots ==
    /\ w.pc = "count"
    /\ \E listed \in 0 .. snapshots :
          /\ get_snapshot_list(listed)
          /\ w' = [w EXCEPT !.pc = IF listed > SnapshotLimit THEN "begin" ELSE "snapshot"]
    /\ UNCHANGED <<disk, known, healthy, snapshots, b, ready>>

(* create_snapshot may print nothing, and then the iteration is over. *)
CreateSnapshot ==
    /\ w.pc = "snapshot"
    /\ \/ snapshots' = snapshots + 1 /\ WriterMoves("rewrite") /\ UNCHANGED disk
       \/ WriterMoves("begin") /\ UNCHANGED <<disk, snapshots>>
       \/ Fails /\ Finally

Rewrite ==
    /\ w.pc = "rewrite"
    /\ \/ \E p \in Patterns :
             /\ writeat_direct(w.index, p)
             /\ w' = [w EXCEPT !.pc = "recheck", !.pattern2 = p]
             /\ UNCHANGED <<known, healthy, snapshots, b, ready, broken, unlisted>>
       \/ NoDisk

Recheck ==
    /\ w.pc = "recheck"
    /\ check_data(w.index, w.pattern2, IF w.index2 # w.index THEN "recheck2" ELSE "begin")

Recheck2 == w.pc = "recheck2" /\ check_data(w.index2, w.pattern1, "begin")

(* The assertion has failed; the finally clause runs on the way out. *)
Alarm == /\ w.pc = "alarm" /\ b.pc \notin {"raised", "terminated"}
         /\ b' = [b EXCEPT !.pc = "terminated"]
         /\ UNCHANGED <<disk, known, healthy, snapshots, w, ready, broken, unlisted>>

Writer == \/ Setup \/ Begin \/ Write2 \/ Check \/ Check2 \/ CountSnapshots
          \/ CreateSnapshot \/ Rewrite \/ Recheck \/ Recheck2 \/ Alarm

-----------------------------------------------------------------------------
(* rebuild_replicas *)

get_new_ip(ip1, ip2) == Subnets \ {ip1, ip2}

RebuilderMoves(pc) == /\ b' = [b EXCEPT !.pc = pc]
                      /\ UNCHANGED <<disk, w, ready, broken, unlisted>>

(* Slip for RebuilderRaises: after a failed command the next rebuilding begins. *)
RebuilderGoesOn == /\ Fails /\ b' = [b EXCEPT !.pc = "pick"]
                   /\ UNCHANGED <<disk, known, healthy, snapshots, w, ready, unlisted>>

(* check_call and check_output raise: the child ends, the writer goes on. *)
RebuilderRaises == /\ Fails /\ b' = [b EXCEPT !.pc = "raised"]
                   /\ UNCHANGED <<disk, known, healthy, snapshots, w, ready, unlisted>>

(***************************************************************************)
(* One of the two replicas is picked, gets a new address and is killed.    *)
(* The result of docker kill is not looked at.                             *)
(***************************************************************************)
PickAndKill ==
    /\ b.pc = "pick"
    /\ \E old \in {b.old, b.other}, killed \in BOOLEAN :
       LET other == IF old = b.old THEN b.other ELSE b.old IN
       \E ip \in get_new_ip(old, other) :
          /\ killed \/ broken < MaxFaults
          /\ broken' = IF killed THEN broken ELSE broken + 1
          /\ healthy' = IF killed THEN healthy \ {old} ELSE healthy
          /\ b' = [b EXCEPT !.pc = "run", !.old = old, !.other = other, !.new = ip]
    /\ UNCHANGED <<disk, known, snapshots, w, ready, unlisted>>

(* docker run of the new replica, under a name with a count in it. *)
RunReplica == /\ b.pc = "run"
              /\ \/ RebuilderMoves("rm") /\ UNCHANGED <<known, healthy, snapshots>>
                 \/ RebuilderRaises

RemoveOld == /\ b.pc = "rm"
             /\ \/ /\ known' = known \ {b.old} /\ healthy' = healthy \ {b.old}
                   /\ RebuilderMoves("add") /\ UNCHANGED snapshots
                \/ RebuilderRaises

(***************************************************************************)
(* longhorn add returns when the replica is rebuilt; it takes a snapshot   *)
(* of the volume first.  It can fail after that too.                       *)
(***************************************************************************)
AddNew == /\ b.pc = "add"
          /\ \/ /\ known' = known \cup {b.new} /\ snapshots' = snapshots + 1
                /\ RebuilderMoves("copy") /\ UNCHANGED healthy
             \/ RebuilderRaises

Rebuilt == /\ b.pc = "copy"
           /\ \/ /\ healthy # {} /\ healthy' = healthy \cup {b.new}
                 /\ RebuilderMoves("drop") /\ UNCHANGED <<known, snapshots>>
              \/ RebuilderRaises

(* docker rm of the old container; rebuild_replica returns the new replica. *)
DropOld == /\ b.pc = "drop"
           /\ \/ /\ b' = [b EXCEPT !.pc = "list", !.old = b.new]
                 /\ UNCHANGED <<disk, known, healthy, snapshots, w, ready, broken, unlisted>>
              \/ RebuilderRaises

(* A snapshot that is not listed stays until another rebuilding is over. *)
ListSnapshots ==
    /\ b.pc = "list"
    /\ \E listed \in 0 .. snapshots :
          /\ get_snapshot_list(listed)
          /\ b' = [b EXCEPT !.pc = "remove", !.left = listed]
    /\ UNCHANGED <<disk, known, healthy, snapshots, w, ready>>

RemoveSnapshot ==
    /\ b.pc = "remove"
    /\ \/ /\ b.left > 0
          /\ snapshots' = snapshots - 1 /\ b' = [b EXCEPT !.left = @ - 1]
          /\ UNCHANGED <<disk, known, healthy, w, ready, broken, unlisted>>
       \/ b.left > 0 /\ RebuilderRaises
       \/ b.left = 0 /\ RebuilderMoves("pick") /\ UNCHANGED <<known, healthy, snapshots>>

Rebuilder == \/ PickAndKill \/ RunReplica \/ RemoveOld \/ AddNew \/ Rebuilt
             \/ DropOld \/ ListSnapshots \/ RemoveSnapshot

-----------------------------------------------------------------------------
Next == Writer \/ Rebuilder \/ DeviceReady

Spec == Init /\ [][Next]_vars

(***************************************************************************)
(* However a rebuild goes and wherever it breaks off, the volume has a     *)
(* replica with all its data: the one that is left is not killed, nor      *)
(* removed, before the new one is rebuilt.                                 *)
(***************************************************************************)
VolumeKeepsAReplica == known # {} => healthy \cap known # {}

(***************************************************************************)
(* read_write raises no alarm about a volume that keeps its data, also     *)
(* when both pages of an iteration are the same.                           *)
(***************************************************************************)
RebuildRaisesNoAlarm == w.pc # "alarm"

(***************************************************************************)
(* The count that read_write looks at is old when it takes its snapshot,   *)
(* and the other process adds one per rebuilding.  There are never more    *)
(* than two above the limit, and one more for each listing that failed and *)
(* so counted or removed too few.                                          *)
(***************************************************************************)
SnapshotsBounded == snapshots <= SnapshotLimit + 2 + unlisted

=============================================================================
