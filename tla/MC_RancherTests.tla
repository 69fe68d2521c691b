-------------------------- MODULE MC_RancherTests --------------------------
(***************************************************************************)
(* The fixtures and helpers of the two common_fixtures.py, in seven parts  *)
(* that are explored each on its own.                                      *)
(*                                                                         *)
(* Two sessions, each with at most two of the session fixtures, on two     *)
(* hosts of which one is the test's own, with one failure.  Two services   *)
(* behind a load balancer, and two helpers called, so that the second gets *)
(* what the first has left.  A service of two containers and one more that *)
(* its selector picks.  Three namespaces, one of which has a name within   *)
(* another's and one that is protected, two pods, two addresses and two    *)
(* polls before a helper gives up.                                         *)
(*                                                                         *)
(* Three sessions that set Longhorn up, so that one that breaks off and    *)
(* one that skips what it left undone are followed by another, and one     *)
(* failure of the server.  Two snapshots of a VM's disk, so that there is  *)
(* a later one, two calls after they are taken, and two failures: a data   *)
(* disk that is mounted neither when it is written to nor when it is       *)
(* checked takes both.  Two rounds of deletions or kills of replicas, and  *)
(* one replica that fails on its own.                                      *)
(***************************************************************************)
EXTENDS Naturals, TLC

CONSTANTS Fixtures, Hosts, OwnHosts, ha_host_count, MaxUsed, Sessions, SessionFaults,
          Balanced, RecipeCalls, RecipeFaults,
          Containers, Unmanaged, Scale, Extra,
          Namespaces, Containing, Protected, Pods, PodScale, Addresses, ing_scale, Rounds, KubeFaults,
          SetupSessions, SetupFaults,
          SnapshotCount, Reverts, VmFaults,
          ReplicaRounds, ReplicaFaults

VARIABLES part,
          host, item, session, status, registered, run, failed, faulty, sessionFaults,
          made, call, rules, calls, late, reused, fewHosts, recipeFaults,
          service, con, backends, turn, helper, reloaded,
          namespace, pod, wanted, ingress, address, test, blind, slow, kubeFaults,
          object, setup, brokeOff, setupFaults,
          disk, vmService, vm, volume, below, cache, snap, backup, vmTest, vmFaults,
          replica, mode, data, machine, vol, replicaTest, replicaFaults

S == INSTANCE FixtureSession
     WITH MaxFaults <- SessionFaults, faultsSeen <- sessionFaults
R == INSTANCE StackRecipes
     WITH Count <- Balanced, MaxCalls <- RecipeCalls, MaxFaults <- RecipeFaults,
          faultsSeen <- recipeFaults
F == INSTANCE ServiceFixtures
K == INSTANCE KubectlFixtures
     WITH Names <- Namespaces, Scale <- PodScale, MaxFaults <- KubeFaults, faultsSeen <- kubeFaults
L == INSTANCE LonghornSetup
     WITH MaxSessions <- SetupSessions, MaxFaults <- SetupFaults, faults <- setupFaults
V == INSTANCE VmSnapshots
     WITH Count <- SnapshotCount, MaxCalls <- Reverts, MaxFaults <- VmFaults,
          service <- vmService, test <- vmTest, faults <- vmFaults
D == INSTANCE VmReplicas
     WITH Rounds <- ReplicaRounds, MaxFaults <- ReplicaFaults,
          con <- replica, vm <- machine, test <- replicaTest, faults <- replicaFaults

ASSUME SessionBounds == S!Bounds
ASSUME RecipeBounds == R!Bounds
ASSUME ServiceBounds == F!Bounds
ASSUME KubectlBounds == K!Bounds
ASSUME SetupBounds == L!Bounds
ASSUME SnapshotBounds == V!Bounds
ASSUME ReplicaBounds == D!Bounds

(* The name 1 is a part of the name 3. *)
SomeContaining == 1 :> {1, 3} @@ 2 :> {2} @@ 3 :> {3}

AnyFixture == CHOOSE f \in Fixtures : TRUE

sessions == <<host, item, session, status, registered, run, failed, faulty, sessionFaults>>
recipes == <<made, call, rules, calls, late, reused, fewHosts, recipeFaults>>
services == <<service, con, backends, turn, helper, reloaded>>
kubectl == <<namespace, pod, wanted, ingress, address, test, blind, slow, kubeFaults>>
longhorn == <<object, setup, brokeOff, setupFaults>>
snapshots == <<disk, vmService, vm, volume, below, cache, snap, backup, vmTest, vmFaults>>
replicas == <<replica, mode, data, machine, vol, replicaTest, replicaFaults>>
helpers == <<sessions, recipes, services, kubectl>>
machines == <<longhorn, snapshots, replicas>>
vars == <<part, helpers, machines>>

Init == /\ part \in {"sessions", "recipes", "services", "kubectl",
                     "longhorn", "snapshots", "replicas"}
        /\ S!Init /\ R!Init /\ F!Init /\ K!Init /\ L!Init /\ V!Init /\ D!Init
        /\ part # "sessions" =>
              status = [f \in DOMAIN status |-> IF f = AnyFixture THEN "unset" ELSE "unused"]
        /\ part # "services" => \A u \in Unmanaged : con[u] = "none"
        /\ part # "kubectl" => \A n \in Namespaces \ Protected : namespace[n] = "none"
        /\ part # "longhorn" => setup.server /\ object["longhorn"] = "none"
        /\ part # "snapshots" => disk = "root"
        /\ part # "replicas" => replicaTest.op = "delete"

Helpers == /\ \/ part = "sessions" /\ S!Next /\ UNCHANGED <<recipes, services, kubectl>>
              \/ part = "recipes" /\ R!Next /\ UNCHANGED <<sessions, services, kubectl>>
              \/ part = "services" /\ F!Next /\ UNCHANGED <<sessions, recipes, kubectl>>
              \/ part = "kubectl" /\ K!Next /\ UNCHANGED <<sessions, recipes, services>>
           /\ UNCHANGED <<part, machines>>

Machines == /\ \/ part = "longhorn" /\ L!Next /\ UNCHANGED <<snapshots, replicas>>
               \/ part = "snapshots" /\ V!Next /\ UNCHANGED <<longhorn, replicas>>
               \/ part = "replicas" /\ D!Next /\ UNCHANGED <<longhorn, snapshots>>
            /\ UNCHANGED <<part, helpers>>

Next == Helpers \/ Machines

Spec == Init /\ [][Next]_vars

TypeOK == /\ S!TypeOK /\ R!TypeOK /\ F!TypeOK /\ K!TypeOK
          /\ L!TypeOK /\ V!TypeOK /\ D!TypeOK

(* The session fixtures, their finalizers and setup_longhorn: what a       *)
(* session leaves is of a fixture that failed, a fixture fails by itself   *)
(* only after that, and a session whose set-up returned has all of it,     *)
(* unless an earlier one broke off half-way.                               *)
SessionsAreSeparate ==
    S!LeftoversAreOfFailures /\ S!FailsAfterFailures /\ L!SetupIsComplete

(* The create_env helpers: they raise only for a reason, and return with   *)
(* their services active.                                                  *)
RecipesActivate == R!RaisesAreExplained /\ R!ActivatedMeansActive

(* delete_instances, stop_containers, restart_containers and               *)
(* wait_for_scale_to_adjust: the service is at its scale afterwards.       *)
(* check_round_robin_access_lb_ip: a balancer that passes serves all.      *)
ServicesAreRestored == F!ScaleIsReached /\ F!BalancerServesAll

(* teardown_ns, cleanup_k8s, waitfor_delete, delete_ingress: deleted means *)
(* gone, and cleanup_k8s ends without an error but for a reason.           *)
DeletedMeansGone == K!DeletedMeansGone /\ K!CleanupEndsWell

(* revert_volume_to_snapshot_for_vm_service and its sibling for backups:   *)
(* what passes was taken back, and what fails met a failure.               *)
VolumeIsTakenBack == V!PassMeansReverted /\ V!FailsOnlyByFaults

(* The deletions and kills of a VM's replicas, and the removal of the VM:  *)
(* one replica with all data is left, as long as none fails on its own,    *)
(* and no volume in the end.                                               *)
ReplicaLeftAndRemoved == D!ReplicaLeft /\ D!RemovedMeansPurged
=============================================================================
