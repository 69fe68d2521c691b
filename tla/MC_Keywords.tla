---------------------------- MODULE MC_Keywords ----------------------------
(***************************************************************************)
(* The keywords for snapshots, backups and kubelets, each of which is      *)
(* explored on its own, for any sets and bounds.                           *)
(*                                                                         *)
(* TLC's: two snapshots and two replicas, so that one replica can be done  *)
(* with a purge before the other and one snapshot can be the volume        *)
(* head's; two backups, one of which may be created while the other's      *)
(* thread still runs, with writes before and between them.  Two nodes, and *)
(* two tests with three outages between them, so that one of a test that   *)
(* failed can meet one of the next, and two of one test each other; one    *)
(* failure of ssh.                                                         *)
(***************************************************************************)
EXTENDS Naturals, TLC

CONSTANTS Ids, Replicas, None, SnapshotRounds, SnapshotFaults,
          Backups, Unset, MaxWrites, BackupFaults,
          Nodes, LastTest, LOOP_COUNT, MaxOutages, SshFaults

VARIABLES part,
          snapshot, head, held, purge, todo, status, test, faults, hist,
          disk, last, snap, backup, thread, lastBackup, main, bFaults,
          kubelet, seen, outage, robot, broken, cutShort, sshFaults

S == INSTANCE Snapshots
     WITH RetryCount <- SnapshotRounds, MaxFaults <- SnapshotFaults
B == INSTANCE BackupChecksum
     WITH MaxFaults <- BackupFaults, faults <- bFaults
K == INSTANCE KubeletOutage
     WITH MaxFaults <- SshFaults, test <- robot, faults <- sshFaults

ASSUME SnapshotBounds == S!Bounds
ASSUME BackupBounds == B!Bounds
ASSUME KubeletBounds == K!Bounds

snapshots == <<snapshot, head, held, purge, todo, status, test, faults, hist>>
backups == <<disk, last, snap, backup, thread, lastBackup, main, bFaults>>
kubelets == <<kubelet, seen, outage, robot, broken, cutShort, sshFaults>>
vars == <<part, snapshots, backups, kubelets>>

Init == /\ part \in {"snapshots", "backups", "kubelets"}
        /\ S!Init /\ B!Init /\ K!Init
        /\ part # "backups" => main.b = CHOOSE b \in Backups : TRUE
        /\ part # "kubelets" => robot.wait

Next == \/ part = "snapshots" /\ S!Next /\ UNCHANGED <<part, backups, kubelets>>
        \/ part = "backups" /\ B!Next /\ UNCHANGED <<part, snapshots, kubelets>>
        \/ part = "kubelets" /\ K!Next /\ UNCHANGED <<part, snapshots, backups>>

Spec == Init /\ [][Next]_vars

(* The nodes are alike and so are the replicas; only invariants are checked. *)
Symmetry == Permutations(Nodes) \cup Permutations(Replicas)

TypeOK == S!TypeOK /\ B!TypeOK /\ K!TypeOK

(* snapshot/rest.py get_snapshot and its waits: a snapshot that was found  *)
(* to be missing is in no replica.                                         *)
AbsentMeansGone == S!AbsentMeansGone

(* snapshot/rest.py purge, wait_for_snapshot_purge_start and               *)
(* wait_for_snapshot_purge_completed: what they report as over is over.    *)
PurgeIsDone == S!PolledPurgeIsDone /\ S!AwaitedPurgeIsDone

(* backup/rest.py create and background: a backup that was waited for has  *)
(* the checksum of its data, and one found by its id is complete.          *)
BackupIsRight == B!WaitedBackupIsRight /\ B!FoundBackupIsComplete

(* k8s_keywords.py restart_kubelet and restart_kubelet_on_nodes: threads   *)
(* that nobody joins cut no outage short but after a test that failed or a *)
(* node listed twice.                                                      *)
OutagesAreWhole == K!OutagesAreWhole

(* The same keywords: who stops a kubelet is still to start it, or failed. *)
DownMeansPending == K!DownMeansPending
=============================================================================
