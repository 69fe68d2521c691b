-------------------------- MODULE MC_EngineStress --------------------------
(***************************************************************************)
(* The three stress tests of the engine, each explored on its own, for any *)
(* sets, limits and delays.                                                *)
(*                                                                         *)
(* TLC's: two pages, so that an iteration's may be the same or differ;     *)
(* three addresses, so that a new one is free; a limit of two snapshots.   *)
(* Two writers and a reader of one block, a slack that is larger than both *)
(* delays together by one, and a block that is lost.  Two volumes of which *)
(* one has a name within the other's, two iterations that use the same     *)
(* address, and three failures, so that all attempts of docker run fail.   *)
(***************************************************************************)
EXTENDS Naturals, TLC

CONSTANTS Pages, Bytes, Subnets, SnapshotLimit, RebuildFaults,
          Writers, Readers, Blocks, MAX_TIME_SLACK, WriteDelay, ReadDelay, MaxTime, PatternFaults,
          Threads, Matching, Iterations, Addresses, MAX_RETRY, TeardownFaults

VARIABLES part,
          disk, known, healthy, snapshots, w, b, ready, broken, unlisted,
          now, testdata, stored, damaged, writer, reader, rebuild, pHealthy, faultsLeft,
          thread, container, leftover, device, gaveUp, cause, faultsSeen

R == INSTANCE RebuildStress WITH Patterns <- Bytes, MaxFaults <- RebuildFaults
P == INSTANCE PatternStress WITH MaxFaults <- PatternFaults, healthy <- pHealthy
D == INSTANCE TeardownStress WITH MaxFaults <- TeardownFaults

ASSUME RebuildBounds == R!Bounds
ASSUME PatternBounds == P!Bounds
ASSUME TeardownBounds == D!Bounds

(* The name of the first volume's controller is within that of the tenth. *)
OneWithinTen == 1 :> {1, 10} @@ 10 :> {10}

rebuilding == <<disk, known, healthy, snapshots, w, b, ready, broken, unlisted>>
patterns == <<now, testdata, stored, damaged, writer, reader, rebuild, pHealthy, faultsLeft>>
teardown == <<thread, container, leftover, device, gaveUp, cause, faultsSeen>>
vars == <<part, rebuilding, patterns, teardown>>

Init == /\ part \in {"rebuilding", "patterns", "teardown"}
        /\ R!Init /\ P!Init /\ D!Init

Rebuilding == part = "rebuilding" /\ UNCHANGED <<part, patterns, teardown>>
Patterns == part = "patterns" /\ UNCHANGED <<part, rebuilding, teardown>>
Teardown == part = "teardown" /\ UNCHANGED <<part, rebuilding, patterns>>

Next == \/ Rebuilding /\ R!Next
        \/ Patterns /\ P!Next
        \/ Teardown /\ D!Next

Spec == Init /\ [][Next]_vars

TypeOK == R!TypeOK /\ P!TypeOK /\ D!TypeOK

(* rebuild-test.py read_write and rebuild_replicas: wherever a rebuilding  *)
(* breaks off, a replica has all the data and no alarm is raised; there    *)
(* are two snapshots above the limit at most, although one process counts  *)
(* before the other adds, and one more for each listing that failed.       *)
VolumeKeepsItsData == R!VolumeKeepsAReplica /\ R!RebuildRaisesNoAlarm /\ R!SnapshotsBounded

(* stress-test.py read_and_check: an alarm is about a block the volume     *)
(* has lost.                                                               *)
AlarmsAreAboutDamage == P!AlarmsAreAboutDamage

(* teardown-test.py run_test: a process uses the device of its own         *)
(* iteration, unless a wait for one gave up, and docker's race is retried  *)
(* as often as MAX_RETRY says, unless another's name contains the          *)
(* controller's.                                                           *)
ProcessesAreApart == D!DeviceIsOwn /\ D!DockerRaceIsRetried
=============================================================================
