# Specifications of the Longhorn test harness

The repository tests Longhorn, a distributed block storage system for Kubernetes and, in its early days, for
Rancher. It is itself a concurrent client of distributed systems: it edits objects that controllers edit at the same
time, retries calls whose replies may be lost, runs threads, coroutines and processes next to each other, and
switches machines off under all of them. When this code is wrong a test passes that should fail, or fails for a
reason that has nothing to do with Longhorn. These modules model the parts of the repository where that can happen:
the end-to-end suite (`src/e2e`), the stress tests and the validation tests of the engine (`src/engine/stress`,
`src/engine/validation-test`), the scripts that set up their machines (`src/engine/environment-setup`), the
scalability test (`src/scalability_test/script`) and the reporter of the pipelines
(`src/pipelines/utilities/junit_to_qase.py`). TLC model-checks them, and TLAPS proves the safety
properties of all passing runs. Paths
below are relative to `src/e2e/` unless they begin with `src/`; in sections 1 and 5, CF stands for
`src/engine/validation-test/storagetest/core/common_fixtures.py` and DF for
`src/engine/validation-test/disabled/common_fixtures.py`.

## 1. Inventory

### Components with state and concurrency

| Component | State it keeps | Operations | Interacts with |
|---|---|---|---|
| object updates (`libs/volume/crd.py`, `libs/utility/utility.py`) | a copy of a custom object with its resourceVersion; the attempt | `set_annotation`, `update_volume_spec`, `get_cr` | API server; Longhorn's controllers and other harness threads on the same object |
| node power (`keywords/host.resource`, `workload.resource`, `common.resource`, `libs/keywords/host_keywords.py`, `libs/host/harvester.py`) | `@{powered_off_nodes}`, the monitor thread | power off/on, reboot, teardown, `_monitor_worker_nodes` | Harvester's VM API, SSH, two threads over one list |
| volume attachment (`libs/volume/crd.py`) | the VolumeAttachment's tickets (in the cluster) | `attach`, `detach`, `enable_volume_frontend` | CSI attacher and Longhorn's controllers on the same object |
| volume migration (`libs/volume/crd.py`, `libs/engine/crd.py`, `tests/negative/ha_volume_migration.robot`) | rounds of a wait, engines and volume as last read | waits for ready, complete, rolled back | Longhorn's volume and engine controllers |
| kubelet outages (`libs/keywords/k8s_keywords.py`, `libs/k8s/k8s.py`, `tests/negative/service_restart.robot`) | a thread per outage, with the nodes it is still to start | `restart_kubelet`, `restart_kubelet_on_nodes`, the loop of a test over outages | kubelets over ssh, Longhorn's view of the nodes, later rounds and tests |
| replica rebuilding (`libs/volume/rest.py`, `libs/keywords/volume_keywords.py`) | two coroutines with a round and a node each | the three keywords that watch one or two rebuildings, the monitor of concurrent ones | asyncio's event loop, Longhorn's rebuildings |
| backup checksum (`libs/backup/rest.py`, `libs/backup/base.py`, `libs/keywords/backup_keywords.py`) | annotations of volume and backup, a background thread per backup | `create`, its `background()`, lookup by id, check of a restored volume | Longhorn's backups, the annotations of the first component |
| snapshots (`libs/snapshot/rest.py`, `libs/keywords/snapshot_keywords.py`) | an id per snapshot, stored as an annotation; rounds of a wait | create, delete, revert, purge, the checks and waits | Longhorn's snapshots, the purge in each replica, a volume's purgeStatus |
| volume creation and restoration (`libs/volume/crd.py`, `activate` of `libs/volume/rest.py`) | attempts of a request, rounds of a wait | `create`, `delete`, waits for a restoration, `activate` | Longhorn's volume and its engine, backups of another volume |
| rebuild stress (`src/engine/stress/rebuild-test.py`) | patterns written, replicas known, count of snapshots; two processes per volume | `read_write`, `rebuild_replicas` | a controller and replicas in docker |
| pattern stress (`src/engine/stress/stress-test.py`) | an array of patterns shared by processes | `random_write`, `read_and_check`, `rebuild_replicas` | a volume, the clock |
| teardown stress (`src/engine/stress/teardown-test.py`) | the iteration of each process | `run_test` | docker, the devices of one name |
| validation fixtures (CF) | what a session has set up, and its finalizers | the session fixtures | pytest, hosts and a Rancher server that outlive a session |
| stacks and services (CF) | a service's containers, a balancer's backends | `create_env...`, activate, scale, stop, delete, restart, round robin check | the Rancher server, which restores what helpers take away |
| kubectl helpers (CF) | namespaces, pods, addresses of an ingress | `teardown_ns`, `cleanup_k8s`, waits | kubectl over ssh, of which only the output is seen |
| virtual machines (DF, `test_longhorn_vm.py`, `test_longhorn_vmsnapshot.py`) | files on a disk and in its snapshots, replicas of a disk | `setup_longhorn`, snapshots, revert, restore, deletion and kill of replicas, removal of volumes | the Rancher server, commands in a VM, a volume's controller |
| environment setup (`src/engine/environment-setup`) | machines, the key, the property file; a thread per host | create, register, tear down | two cloud providers shared by all jobs |
| scalability test (`src/scalability_test/script`) | StatefulSets, lists of metrics, a file from which it resumes | scale, monitor, all | Kubernetes and its metrics API |
| report to Qase (`src/pipelines/utilities/junit_to_qase.py`) | suites, cases and a run at the service | find or create, post in batches, complete | other reporters on the same service |
| node exec (`libs/node_exec`) | a pod named after the node | `issue_cmd`, `cleanup`, `launch_pod` | every thread that runs a command on the node |
| settings, PVCs (`libs/setting`, `libs/backupstore`, `libs/persistentvolumeclaim`) | previous and current values in the cluster | update verified by reading again | Longhorn's setting controller, API server |

All but the last three are modelled. The other directories are the manager's integration tests, Terraform and Jenkins
files, manifests, manual test plans and helper scripts; `PROJECT.json` lists each of them with the reason for
leaving it out.

### What makes them correct

* An update changes its own key only, once, atomically, and does not undo a write it has not seen.
* A node that a test has put down and listed stays down; a node that nobody listed comes back; the list
  is empty when a test begins.
* A detach deletes one ticket, the test's own, and reports the truth; no call drops a ticket of CSI
  or Longhorn by working on an old copy.
* A wait that returns has seen a state that is what its name says and that does not go away.
* A kubelet is down for as long as its test asked, and whoever stopped it starts it again.
* A keyword about two rebuildings passes or fails for what the rebuildings did, not for when they were read.
* The checksum stored with a backup is the one of its data, and a backup found by its id is complete.
* A snapshot reported missing is in no replica, a purge reported done has removed what it had to.
* A created volume is not one that was left over under its name; a restored one has the data of its backup, an
  activated one of the last backup.
* Every one of these calls ends, whatever the cluster does; but one keyword loops for as long as a rebuilding is in progress.
* A stress test keeps one replica with all data, and raises an alarm only about data that was damaged.
* A process uses its own device, not one that was left under the same name.
* What a session leaves behind comes from a failure, and a session fails only after one.
* A helper that returns has brought the service, balancer or namespace into the state its name says.
* A session's set-up that returned is complete; a disk that was taken back has the files of the snapshot and no later ones.
* A property file stands for registered hosts, and a teardown leaves no machine of its job.
* The scalability test measures what it has scaled, and keeps its starting point over a restart.
* A completed run has all results of its report, once and under the right cases.

### What is hard about them

Reads of two objects that are not one snapshot; a list consulted before a slow call and not after it;
retries of calls that had already worked; exceptions caught by the very loop that is meant to let
them out, or lost at a join; loops that end without an error; background threads whose results arrive later
than the test thinks; names and labels shared by actors who do not know of each other; servers that
put back what was taken away; commands whose failure prints the same as their success; settings stored before the
work they stand for. `PROJECT.json` lists each hazard at its line, with the properties that cover it.

## 2. Plan

Modules, in the order in which they were planned; all are written.

1. `AtomicObject`, `ObjectUpdate`: the update loop and the abstract specification it implements. Everything
   that stores an annotation rests on it. With proofs in `ObjectUpdate_proofs`.
2. `NodePower`: keywords, teardown and monitor over one list.
3. `VolumeAttachment`: the same retry pattern where it is not idempotent; `TicketSet`, the abstract specification that it implements.
4. `VolumeMigration`: waits over two objects.
5. `ReplicaRebuilding`: coroutines over polls.
6. `BackupChecksum`: background threads over annotations.
7. `Snapshots`: lookups by annotation and polls of a status that lags.
8. `VolumeRestoration`: one name for a deleted, a created and a restored volume.
9. `RebuildStress`, `PatternStress`, `TeardownStress`: processes over one volume, one array, one docker.
10. `ScaleTest`, `QaseReport`, `RancherSetup`: scripts that share a file, a service or a key with other runs.
11. `FixtureSession`, `StackRecipes`, `ServiceFixtures`, `KubectlFixtures`: the helpers of the validation tests.
12. `LonghornSetup`, `VmSnapshots`, `VmReplicas`: the validation tests of virtual machines on Longhorn.
13. `KubeletOutage`: threads that outlive their tests.

Left for later: `NodeExec` (commands that may run twice, and run on in a pod that was deleted), and the checks of
links between services (CF 1189-1301).

Abstract specifications: `AtomicObject` and `TicketSet` are written. Worth stating is a snapshot of a migration that reads engines and volume
in one, for its waits. A composition worth checking: `BackupChecksum` over `AtomicObject` instead of its own fault.

Theorems: those of section 6. With them every safety property of a passing run is proved, and both refinements are. What is left to prove is what the modules left for later will state.

## 3. Modules

Definitions keep the code's names where they can; `map` in `PROJECT.json` gives the lines of each. A
definition whose comment begins with "Slip for" is a plausible error in the one it names: putting
it in that one's place must break the property it is listed with, which shows that the property
depends on the code. Everything marked external stands for software outside the repository and
is modelled from how the code uses it.

### ObjectUpdate

One object with a value per key and a version. A call (`Call`) reads the object (`Get`), sets its key in
the copy and sends the whole copy with the version it read; the server stores it (`ServeReplace`), refuses it with
409 if the version is old (`ServeConflict`), or fails, before or after storing (`ServeError`). A 409 is retried after
a sleep (`Conflict`) and the last one ends the loop without an error: state `gaveUp`. Any other
exception leaves the function (`Raise`), also the ones without a `status`, for which the handler itself raises. `Reconcile`
is a write of Longhorn's controllers. A stored body that equals the object does not change the version.

`AtomicObject` says what a caller may rely on: a call takes effect at most once, in one step, on its own key;
it has taken effect if it returns; it has not if it gave up; it may have if it raised. The refinement
mapping reads the phase of a call off its program counter (`AtomicPhase`).

The HTTP library's own resending of a request is not modelled.

### NodePower

A keyword is the sequence of calls it makes on nodes (`Keywords`): append to the list, stop, wait for
stopped, start, remove. Other threads and the machines move between any two calls. `off` is a sequence because
Robot's list may name a node twice; `Remove Values From List` removes all of them. Robot's FOR
walks a copy of the list. `WaitTimesOut` and `StartFails` fail the test and begin the teardown; in the
teardown errors are ignored (`tryStart`). `PowerOffVolumeNode` looks up the volume's node twice, as
the workload keywords do. `ReportedRunning` is true of a machine that has been asked to stop but has not yet.

The monitor (`Mon...`) lists the workers, looks for each in the list (`MonCheck`), tries SSH (`MonSsh`) and powers the node
on (`MonPosts`, `MonStarted`); an error goes to the next node (`MonGivesUp`). Waiting for a node to be not
ready, and ready, is part of the wait and of the start. With a provider other than Harvester the monitor does not run.

### VolumeAttachment

The tickets are records with id, node and the frontend flag. A harness ticket carries the node's name as its id. One
harness thread calls `Attach`, `Detach` and `EnableFrontend`; each reads (`GetFor...`), sends (`Stored`, `StoredReplyLost`, `Refused`)
and retries after any exception (`Retry`). A detach that does not find its ticket takes one with that
nodeID instead (`GetForDetach`), and if there is none it retries (`NoTicketToDelete`). A patch carries the
resourceVersion too, so a stale one is refused like a replace. `removed` and `lost` are history variables.

`TicketSet` says what the callers may rely on: a call changes the tickets as they are at one moment, which is the harness' own ticket or, for an enable,
all frontends (`Change`), takes effect once if it returns, and not at all if it fails. Only a lost reply makes room for one effect more than the caller knows of
(`TakeEffectUnheard`), and an enable does not tell (`Silence`). The refinement mapping takes the call from the thread's arguments, its phase from the
program counter (`AtomicPhase`) and `unheard` from `lost`: reads and attempts that go on stutter.

### VolumeMigration

The test attaches the old node, then the new one, waits for the migration to be ready, detaches the old (confirm)
or the new (roll back) and waits for the outcome. Every wait reads the engines (`ReadEngines`) and the volume
(`ReadVolume`, `TryAgain`) in two steps, for a bounded number of rounds. Longhorn's part is the sequence of changes to spec
and status that these waits look at; it may stop at any point, and an engine may crash.

### ReplicaRebuilding

A replica is missing, in mode WO, WO with its rebuild status in progress, or RW. A coroutine first looks for a
replica in mode WO (`Find`), then for its rebuild status (`Start`). It gives the loop to the other one only at its sleeps
(`Yield`), so two coroutines alternate; Longhorn moves between any two reads. Between its two loops a coroutine does not
sleep, which is why nothing wakes up there (`Idle`). `WakeOnFirst` and `WakeOnAll` are the two uses of `asyncio.wait`; the
first takes any task that completed and does not look at its exception. `Check` compares the volumes one read at a time.
`onlyOne` runs the monitor of concurrent rebuildings afterwards, as the suites do. `onlyOneOnNode` goes round between
two checks while the first rebuilding is in progress (`Loops`), with no bound on the rounds. Longhorn starts a rebuilding
within its limits per node and per volume, which are constants, so that both kept and broken promises are checked.

### BackupChecksum

A write changes the disk, then notes the checksum in the volume's annotation (`Write`, `NoteLast`). `Create` takes a snapshot now or
uses an earlier one, and runs `background()` in the caller's thread or in one of its own: wait for the completion, find the backup, store
its id, read the volume's last checksum, store it. With waiting, `AwaitLastBackup` compares the volume's lastBackup. A test
looks a backup up by its id (`Found`) and compares a restored volume with the stored checksum (`CheckRestored`); a
restored volume has the data of the backup. An annotation may be lost in silence or with an exception, as
`ObjectUpdate` shows. Each snapshot is backed up once, and the model has one snapshot that is named by the test.

### Snapshots

A snapshot is asked for, taken, then annotated with its id (`Create`, `Take`, `SetSnapshotId`); it is marked as removed by `Delete`, and stays
in each replica until a purge there ends. A lookup by id is a list (`List`) and, later, reads of the annotations (`Got`), which answer
"not found" to any error. The checks (`Present`, `Absent`, `Marked`) and waits (`LookAgain`, `WaitsOn`) build on it;
the waits by name (`AwaitByName`) take one list. `Purge` starts the purge of all replicas and may poll `purgeStatus`, which `Report` brings
up to date: until then it is empty or of the purge before. The two waits on it (`PurgeStarted`, `PurgeCompleted`) are calls of their own, that a
test may make in any order. The checks of a snapshot's parent only log and sleep, so they are not actions.

### VolumeRestoration

One name, under which volumes are created, restored and deleted. `Create` posts the volume, with or without retries
(`Posted`, `PostFails`, `PostGivesUp`), polls its state and `restoreRequired`, and compares it with what was asked for (`Verify`). `Delete` clears the
finalizers and deletes, which takes effect when Longhorn has put none back (`ClearFinalizers`, `Remove`, `FinishDelete`); every exception in it is
swallowed. `AwaitStarted` and `AwaitRestored` are the waits for a restoration, `Activate` makes a standby a volume of its own: it looks at the
engine's last restored backup and at the volume's last one, then sends the request, up to RetryCount times, and then checks. All polls are one action each (`PollEnds`,
`PollGoesOn`, `PollTimesOut`); `Reached` says what they wait for and `Then` which one follows. A backup stands for its data and is a number: later backups
are larger. A standby learns of backups later than they are made (`LearnLastBackup`).

### RebuildStress

One volume with its two processes, the writer `w` and the child `b`; the ten volumes of the script share nothing. A replica is an address
(`get_new_ip` takes one that the two in use do not have), `known` to the controller and `healthy` with all data, which are separate because
`PickAndKill` leaves a dead one known. The writer writes two pages and checks them, counts the snapshots, takes one if there are few enough
(`CountSnapshots`, `CreateSnapshot`), writes again and checks again; `Finally` tells the child to stop. The child kills a replica, runs a
new one, removes the old from the controller, adds the new, and removes the snapshots it has listed. Any command may fail, which ends its process, except the listing of
snapshots: it is a pipeline into `tail`, whose status is that of `tail`, so a listing that fails is an empty one (`get_snapshot_list`). The writer then takes a snapshot whatever there is, and the child removes none
and goes on to its next rebuilding. `unlisted` counts these listings.

### PatternStress

A write is three steps, a pattern with its time (`GenPattern`), the shared array (`Share`) and the disk (`WriteToDisk`); a comparison is
the read of the block, of the clock and of the array (`ReadDisk`, `TakeTime`, `Compare`). `Tick` cannot let a writer or a reader wait longer than
WriteDelay and ReadDelay, whose sum is assumed to be below MAX_TIME_SLACK. `LosesBlock` is what an alarm should be about. `Purge`, `RmReplica` and `AddReplica` are the
third kind of process. Requests for several blocks are requests for one each, since the script compares block by block.

### TeardownStress

`thread[t]` is one process with its iteration and where it is in it: replicas and the controller are started at fixed addresses (`AddressesFree`), the
device is waited for, used, the controller stopped, the device waited away, the containers removed. `Lines(t)` is what docker's filter by name
answers about a failed start; it takes names that contain the one asked for, given by the constant Matching. Devices appear and go in their own time and the waits give up in
silence (`gaveUp`), so one iteration can meet another's device. `cause` keeps why a process ended.

### ScaleTest

One action per request of the script. A list of metrics is its length; a pod is a name that the pod replacing it gets again. `CountPods` is the part of an
update that looks for late pods and stores the starting point; `PadLoop` and `PadMetrics` are the loops that fill up short lists, with the variable of the loop before
them as it is after that loop. `Truncate` and `Save` are the two steps of storing the data. A run may be interrupted anywhere, and the next
resumes from the file. `Draw` raises a NameError, as the code does, so a run makes one update.

### QaseReport

Suites, cases and runs of a service that several reporters use at once. Each reporter walks through its report; for each
test it searches a suite and a case by name (`get_suite_id`, `get_case_id`), adds what it did not find, and at the end creates the run, posts batches and
completes it. `Matches` says which titles a search finds and `TitleOf` which title a name is stored under: names that are cut are not found again. `collect_test_results`
knows failures and skips that have a message: an error of a test's setup or teardown, and a skip without a message, are posted as passed (`Overlooked`). A
refused batch is noted in `refused` and does not stop the script; any other unexpected answer does.

### RancherSetup

A job stores its key (`packet_upload_key`, at one label for all jobs), creates servers with the one provider and starts a thread per host. A thread creates its device, waits for it
without a bound (`AwaitActive`) and registers it in a bounded number of attempts (`packet_register_to_cattle`). `WritePropertyFile` joins them, which
loses their exceptions. `Abort` ends a job where it is; `Teardown` lists devices and servers and deletes them with retries. `device` is the job whose key the device accepts.

### FixtureSession

A fixture is a sequence of steps (`Steps`): create an item of a kind, wait for it, check it. Its finalizer exists only when it is complete (`CompleteFixture`).
Items use names, and ports of a host; those that a session leaves are in the way of the next one. pytest runs one fixture at a time and keeps a failure for the session;
the finalizers run in reverse order at its end, unless the session is killed. `ha_hosts` takes hosts of the pool, by counting them in the code's own way, and asks the cloud for
the ones it misses (`AddHosts`), which raises with none of them made if there is no access key, or with some of them if a request fails.

### StackRecipes

Each helper is a sequence of steps read by one interpreter (`Step`, `Create`, `AwaitCreated`, `Activate`, the waits); the sequences are the helpers' own. The server
turns requested states into reached ones, or into an error. `Override` replaces the indexes in port rules with ids in the caller's object; `reused` notes
that a caller passed such rules again, and `late` that a stack was settled before one of its services had begun. The helper for services on the host network lists the active hosts between two of its services and asserts that there is more than one
(`ListHosts`); how many there are is not this code's doing, so they may be too few, noted in `fewHosts`.

### ServiceFixtures

One service, its containers and its balancer. A helper acts on a container (`ActOnInstance`), waits for it, then for the service to be active, lists the containers, reads and
inspects each. The server is in between: `ServiceStep` and `ContainerStep` bring the service back to its scale, and it reports "active" until it has
noticed. `FirstRequests` and `RepeatedRequests` are the two halves of the round robin check; `Reload` configures the balancer anew and is noted in `reloaded`.

### KubectlFixtures

Namespaces, the pods of a replication controller, and an ingress with its addresses. A helper sends a command and polls with others: each may succeed or fail, and a failed
one answers like one that found nothing (`Fails`, noted in `blind`). A namespace is looked for in the text, so it also counts as listed when a longer name
contains it (`InResponse`). Rounds stands for the helpers' timeouts.

### LonghornSetup

`setup_longhorn` over the objects it makes the server create. The setting `catalog.url` is the request for the catalog, and the project's flag the one for the VM stack; both
are stored before their object is waited for, and their presence makes the next session skip the rest (`AddCatalog`, `EnableVms`). A wait that takes too long or meets a failure
ends the session and is kept in `brokeOff`. Without a backup server, any target that exists is used.

### VmSnapshots

One virtual machine with the disk under test, root or data. Files are numbers: 0 is written before the snapshots, k before the k-th one. `volume` is what Longhorn stores,
`below` is what lands in the data disk's directory when it is not mounted, and `cache` what was written and not synced. `MountDir` may fail without an error, because `exec_ssh_cmd` reads only the
output; starting the VM anew always loses the mount. `TakeBack` is the revert or the restoration, which Longhorn may get wrong; `CheckFiles` is the loop over files
that must and must not be there. A file with other content counts as missing.

### VmReplicas

Two replica containers of a disk, the controller's list of them (`mode`, under the address it has), and what they store. Deletions take the containers of one list in turn, with a list taken anew
for the wait that follows; a kill takes one container and does not wait. `Reconcile` is the server, which gives a replaced container another address or starts it again at its own;
`Notice`, `Join` and `RebuildDone` are the controller. `DeleteVm` and `DeleteVolume` remove the VM and the volumes that are inactive when they are listed.

### KubeletOutage

`restart_kubelet_on_nodes` stops the kubelets of a list of nodes one by one (`BeginOutage`, `StopKubelet`), sleeps (`Downtime`) and starts them one by one (`StartKubelet`), in the robot thread or
in one of its own, which nobody joins; `restart_kubelet` is the same with one node. `outage` has all of them in the order they began. The tests of `service_restart.robot` loop over an outage and the
waits that follow (`AwaitDown`, `AwaitHealthy`), of which any may take too long; a test that fails goes to its teardown, which does nothing about kubelets, and the next test begins. `Notice` is the time it takes
Kubernetes and Longhorn to see that a node is down or back. Every node has a replica of each volume, as with the three workers and three replicas these tests run with, and the 120 s of the tests that go on meanwhile
are more than that time: hence the guard of `Downtime`.

### Compositions

`MC_Volumes`, `MC_Keywords`, `MC_EngineStress`, `MC_Pipelines` and `MC_RancherTests` instantiate several modules with small constants. Their parts
are about different objects and share no state, so a variable `part`, chosen at the start, says which one moves: each is explored on its own, in one run. A
property of the composition is the conjunction of the parts' properties that it names. Each of these modules evaluates the bounds its parts assume.
They have all bounds, nodes and names as constants, which their cfg files give values:
the theorems about them are for every value. A part that does not move stays in its initial state, so a theorem about the composition is one about each part.

## 4. Runs

Every passing run also checks the type invariant of its modules.

| Run | Checks | Shows |
|---|---|---|
| `object_update` | `FreshBodyInv`, `GaveUpInv`, `CallsEnd`, `ImplementsAtomicObject` | two threads and a controller on one object: no lost update, a silent end only after a foreign write per attempt, every call ends, the loop refines one atomic write |
| `node_power` | `ListedNodeStaysDown`, `TestsStartWithEmptyList` | the monitor revives a node that a test keeps down only if it had passed its look at the list when the node was put there; every teardown empties the list |
| `node_power_liveness` | `UnlistedWorkersComeBack`, `TestsEnd` | a worker that crashed or was stopped unlisted comes back; every test gets to the end of its teardown |
| `volumes` (`MC_Volumes`) | `DetachDeletesOne`, `ForeignTicketsSafe` | a detach deletes one ticket, plus one for each lost reply, and its outcome is true without lost replies (`DetachOutcome`); foreign tickets only go by the nodeID fallback |
| | `CallsAreAtomic` | attach, detach and enable implement `TicketSet`: each is as good as one step, and no older copy undoes what others wrote |
| | `OutcomeIsFinal` | two reads are enough for the outcome of a migration, because it is the last state of it |
| | `BothMeansTogether` | the keyword for simultaneous rebuildings is right though it reads one after the other; the wait for a rebuilding on a node, if it goes after that node, ends when one has started there (`StartsOnTheNode`) |
| | `CreatedIsNew`, `RestoredHasTheData` | after a deletion that saw the name free, a create that returns has made the volume, also when replies were lost; the waits of create are what makes the wait for a restoration right; activating twice does no harm (`ActivatedHasLastBackup`) |
| | `CallsEnd` | all these calls, waits and keywords end, however long Longhorn stalls, but for the loop of `onlyOneOnNode` during a rebuilding that stays in progress (`RebuildingStalls`) |
| `keywords` (`MC_Keywords`) | `AbsentMeansGone`, `PurgeIsDone` | a snapshot that a check or wait did not find is in no replica, unless its id was never stored or could not be read; a purge that waited is done if the status it read was its own; waiting for the start and then for the end is sound even with a status that lags |
| | `BackupIsRight` | with waiting and a snapshot of now the checksum is right whatever other threads do; a backup found by its id is complete |
| | `OutagesAreWhole`, `DownMeansPending` | a thread that nobody joins ends another outage early only after a test with one failed, or after a node was listed twice; a kubelet that is down is one that somebody is still to start, unless a command failed |
| `engine_stress` (`MC_EngineStress`) | `VolumeKeepsItsData` | however a rebuild goes, one replica has all data and no alarm is raised; two snapshots above the limit, and one for each listing that failed, is the most there are (`SnapshotsBounded`) |
| | `AlarmsAreAboutDamage` | delays below the slack raise no alarm about a block that is sound |
| | `ProcessesAreApart` | a process uses another iteration's device only after a wait gave up; docker's race ends it early only if another's name contains its own |
| `pipelines` (`MC_Pipelines`) | `MeasuredFromTheStart` | monitoring starts with all StatefulSets at the count (`MonitoredIsScaled`), and the starting point is of the first late pod, also over interruptions (`PointIsTheFirst`) |
| | `CompleteRunHasAllResults` | a completed run has each test of its report once, under the right case, unless a batch was refused, with its outcome, except that errors and silent skips pass (`Overlooked`); and no reporter adds a case twice (`CasesAreAddedOnce`) |
| | `MachinesAreAccountedFor` | without a failure and without another job's key the property file is true (`FileMeansRegistered`); a teardown leaves only what it could not delete or could not see (`TeardownLeavesNothing`) |
| `rancher_tests` (`MC_RancherTests`) | `SessionsAreSeparate` | what a session leaves comes from a failure, and a fixture fails only after one; a set-up of Longhorn that returned is complete, unless an earlier session broke off after a setting was stored (`SetupIsComplete`) |
| | `RecipesActivate` | a helper raises only for a failure, a server that was done too early, port rules passed twice or too few active hosts, and returns with what it activates active |
| | `ServicesAreRestored` | the containers a helper has seen were the replaced ones (`ScaleIsReached`); a balancer that passes serves all (`BalancerServesAll`) |
| | `DeletedMeansGone` | deleted is gone, and the clean-up ends without an error, but for commands that failed, deletions that took too long and names within names |
| | `VolumeIsTakenBack` | a revert that passed took the volume back, mounted or not, and one that failed met a failure |
| | `ReplicaLeftAndRemoved` | each deletion or kill follows a rebuilding, so that a replica with all data is left as long as none fails on its own (`ReplicaLeft`); no volume of the VM is left (`RemovedMeansPurged`) |
| `volume_migration_ready` | `ReadyMeansMigrating`, violated | finding 1 |
| `replica_rebuilding_concurrent` | `ConcurrencyIsReported`, violated | finding 2 |
| `backup_checksum_check` | `CheckIsAboutTheData`, violated | finding 3 |
| `scale_metrics` | `MissingMetricsAreZero`, violated | finding 4 |

### Bounds

* `object_update`: two clients, two keys (the controllers write one of them), RetryCount 2, one call each, controllers
  write up to version 2. A call can conflict on both attempts with a controller, with the other client, or with one of each. Keys
  have no more than two values: the properties compare values only for equality. The symmetry of the clients is not used, since
  the run checks liveness.
* `node_power`: two workers and one other node, two tests with two keywords between them, one crash, one failing
  call. Two workers let the monitor be busy with one node while a test works on the other; two keywords are enough for off and on, off twice, and off in
  one test and reboot in the next. `node_power_liveness` has one test and one keyword.
* `volumes`: attachment with two nodes, two foreign tickets, three calls of three attempts, two lost replies per call, others'
  writes up to version 2: a call can meet a conflict, a lost reply and the fallback in turn, and a node can hold the harness's ticket and two others.
  Migration with two nodes, one engine crash, four rounds per wait, so that a wait can look before, during and after what it waits for.
  Rebuilding with two nodes, two volumes, RetryCount 2, one fault, a limit of two per node and one per volume. Restoration with two backups, two calls of create, RetryCount 2, one
  fault: the second create can meet the volume of the first, and a standby can be one backup behind.
* `replica_rebuilding_concurrent`: RetryCount 3, a limit of one per node and two per volume, no faults; the shortest counterexample needs a third
  round. `volume_migration_ready`: four rounds, no crash.
* `keywords`: two snapshots and two replicas, RetryCount 2, one fault: one replica can be done before the other, one snapshot can be the volume
  head's, and a purge can follow one whose status is still reported; purges are not bounded. Two backups, two writes, one fault: writes before, between and after the backups.
  Two nodes, two tests of two rounds, three outages in all and one failure of ssh: an outage of a failed test can meet one of the next, and two of one test each other. Nodes, and replicas, are symmetric.
* `engine_stress`: two pages and two patterns, so that an iteration's pages may be the same, three addresses, a limit of two snapshots, two
  faults, so that a listing can fail in each process, or one listing and another command; two writers, a reader, one block, a slack of 2 over delays of 1 and 0, four ticks, one fault; processes 1 and 10, of which the second's
  name contains the first's, two iterations on the same addresses, two attempts and three faults, so that all attempts fail.
* `pipelines`: two nodes and two pods with one replica each, two runs, one error, one pod replaced (`scale_metrics`: none); two reporters with three reports between them,
  batches of two, one refusal; two jobs of two hosts, two attempts, two errors, so that a deletion can fail as often as it is tried.
* `rancher_tests`: the eight fixtures of which a session uses two, three hosts of which one is the test's own, two hosts wanted by `ha_hosts`, two sessions, one fault; two services behind a balancer and two
  helpers in turn; a scale of two and one container that is not managed, two repeated requests; three namespaces, one in another's name and one protected, two pods, two
  addresses, two rounds, one fault. For Longhorn three sessions, so that one that breaks off and one that skips are followed by another, one failure; two snapshots, two calls after them, two failures,
  which a data disk that is never mounted takes; two rounds of deletions or kills, one replica that fails on its own.

### Fairness

* `ObjectUpdate`: weak fairness of each thread's next step and of the server's answer to it. The threads are not blocked by each
  other, and the HTTP client has an answer or an exception for each request. Nobody is obliged to make a call or to write.
* `NodePower`: weak fairness of the robot thread within a keyword and of the monitor thread, which the operating system schedules, and of each
  machine that is stopping or booting. Failures are bounded by a constant: a request does not fail for ever. Tests and keywords need not start.
* `volumes`: weak fairness of the thread that calls, waits or runs the keyword, in each part; the other clients and Longhorn have none. Longhorn may
  stall anywhere, so what ends a test or a wait is that its rounds are bounded. The one loop without a bound is the exception in `CallsEnd`: a rebuilding that neither ends nor fails keeps
  `onlyOneOnNode` (`RebuildingStalls`).
* All other runs check invariants only and assume no fairness.

`CHECK_DEADLOCK FALSE` stands where the behaviour ends: the calls, tests, sessions or runs that the bounds allow have been made.

## 5. Findings

1. `libs/volume/crd.py:480`. `wait_for_volume_migration_to_be_ready` assigns its three conditions to the
   same variable; only the last counts, and it holds before the migration starts. The manual test asks for all four node IDs
   (`src/docs/content/manual/pre-release/ha/ha-volume-migration.md:99`). A scenario can detach the old node with no migration under way.
2. `libs/volume/rest.py:192` and `358`. The assertion on concurrent rebuildings is inside the `try` whose `except` logs and continues. Concurrent
   rebuildings are never reported if they are over before the rounds are.
3. `libs/backup/rest.py:51`. The checksum stored with a backup is the volume's last one when the thread gets there. After a
   later write, or for a backup of an earlier snapshot, the check of a restored volume fails on correct data.
4. `src/scalability_test/script/monitor.py:107` and `110`. The loops over nodes whose lists are too short extend `cpu_metric`, the CPU list of the node that was
   processed last, and never the short list. The comment (`:104`) says that missing metrics become 0. The lists of a node that missed an update stay short.

Other behaviours are stated as they are, as conditions of the properties that hold or in the actions:

* A detach whose reply was lost may delete another client's ticket (`DetachDeletesOne`, `ForeignTicketsSafe`).
* The monitor may power on a node that a test put on the list after the monitor looked (`overlap` in `ListedNodeStaysDown`).
* The keyword for exclusive rebuildings can fail when one rebuilding ends and the other begins between its two reads, and it does not
  look at the exception of the first task that completed (`libs/keywords/volume_keywords.py:294`): if that one timed out with nothing in progress it
  passes, having observed nothing.
* The wait for a rebuilding on a node goes after another node if a replica there is in mode WO and listed first (`libs/volume/rest.py:168`): hence the
  condition in `StartsOnTheNode`.
* A purge that waits returns at once on an empty status or on that of an earlier purge (`libs/snapshot/rest.py:143`): hence `fresh` in `PolledPurgeIsDone`.
  The check of its progress never fails (`:138`), and the wait for its completion does not see errors.
* The keyword that only one of two volumes rebuilds on a node asks for the first rebuilding in a loop without a bound (`libs/keywords/volume_keywords.py:299`): hence the
  exception in `CallsEnd`.
* A failed read of an annotation passes for a snapshot that is not there (`libs/utility/utility.py:298`): hence the condition in `ToldAbsent`.
* The wait by name for a snapshot's deletion ends when it is marked as removed, with its data still there (`libs/snapshot/rest.py:83`).
* For a standby the wait for a restoration to complete ends as soon as the volume has an engine (`libs/volume/crd.py:555`):
  `RestoredHasTheData` is about the other volumes. `activate` compares with a last backup that lags.
* `create` goes on to its waits when every attempt failed (`libs/volume/crd.py:98`), and `delete` swallows the assertion of its own wait (`:160`):
  `CreatedIsNew` holds after a deletion that saw the name free.
* A failure while kubelets are stopped or started one by one leaves those that are down as they are for the rest of the suite: no teardown looks at them
  (`libs/keywords/k8s_keywords.py:66`, `DownMeansPending`). A node that has both workloads' volumes is stopped and started twice (`keywords/k8s.resource:27`).
* `src/engine/stress`: the code that reverts to a snapshot is never reached (`rebuild-test.py:224`); a listing of snapshots that fails is taken for an empty one
  (`rebuild-test.py:145`), so the limit on snapshots holds only while listings work; and a block of zeros is reported as a hole (`stress-test.py:143`).
* `src/engine/environment-setup/setupRancher.py`: an exception of a thread is lost at its join (`:298`), all jobs use one label for their key (`:257`), and the
  wait for a device has no bound (`:112`). `teardownRancher.py:45` takes any exception for a failed deletion.
* `src/scalability_test/script`: the file is emptied before it is written (`monitor.py:163`), a failed request for metrics answers a list where the caller needs a dictionary
  (`:87`), and the drawing ends in a NameError (`:195`).
* `src/pipelines/utilities/junit_to_qase.py`: a test skipped without a message counts as passed (`:31`), and so does one with an error of its setup or teardown (`:34`, `:186`); a name cut to its maximal length is
  not found again (`:120`), a refused batch is only printed (`:206`).
* CF: port rules of the caller are overwritten (2244, 2308); `create_env_with_2_svc_dns_hostnetwork` raises with one active host, after its first service was created (2555); the finalizer of `host_ssh_containers` does not wait (556); `ha_hosts` counts hosts of the cloud wrongly (610);
  a failed kubectl command looks like a completed deletion (3037, 3090); a namespace is looked for as a substring (3038); `wait_for_ingress_to_become_active` appends the same addresses in each
  round (3142). Outside the models: the assertion of `cleanup_images` cannot fail (2611), "0% packet loss" is also found in "100% packet loss" (1467),
  the comparison in `validate_remove_service_link` is not asserted (907), `validate_linked_service` keeps the first link's name for the second service (1254).
* DF: a failed mount is not seen (2567): a revert to the last snapshot passes although nothing was ever written to the data disk (`PassMeansReverted`). A session that broke off while
  Longhorn was deployed leaves every later one without it (3111). A volume that is in use is skipped by the clean-up (3206); that this does not happen rests on the
  volumes being released before the VM's purge is over, which is Rancher's part. `kill_system_process_and_wait_for_service_reconcile` returns when the kill has been sent (2666), although its
  comment promises a wait for the service (2652). The listing that follows takes stopped containers too; if the server then replaces one under another address, the wait for the rebuilding times out.

## 6. Proofs

Eight modules of theorems, each about the specification that a run checks, and for every value of its constants: any number of nodes, replicas, clients,
attempts, rounds, pages or reports, and any number of failures. A theorem states the property of the run by its name.

| Module | Theorem | States `Spec => []...` of |
|---|---|---|
| `ObjectUpdate_proofs` | `TypeCorrect` | `TypeOK` |
| | `NoStaleOverwrite` | `FreshBodyInv` |
| | `GaveUpOnlyAfterConflicts` | `GaveUpInv` |
| | `ObjectUpdateImplementsAtomicObject` | `ImplementsAtomicObject` (a refinement) |
| `NodePower_proofs` | `TypeCorrect` | `TypeOK` |
| | `EveryTestStartsWithEmptyList` | `TestsStartWithEmptyList` |
| | `ListedNodeIsLeftAlone` | `ListedNodeStaysDown` |
| `Volumes_proofs` | `TypeCorrect` | `TypeOK` |
| | `OneTicketGoes` | `DetachDeletesOne` |
| | `ForeignTicketsStay` | `ForeignTicketsSafe` (an action property) |
| | `AttachmentImplementsTicketSet` | `CallsAreAtomic` (a refinement) |
| | `OutcomeStays` | `OutcomeIsFinal` |
| | `CreatedVolumeIsNew` | `CreatedIsNew` |
| | `RestoredVolumeHasData` | `RestoredHasTheData` |
| | `BothWereTogether` | `BothMeansTogether` |
| `Keywords_proofs` | `TypeCorrect` | `TypeOK` |
| | `AbsentSnapshotIsGone` | `AbsentMeansGone` |
| | `ReportedPurgeIsDone` | `PurgeIsDone` |
| | `BackupChecksumIsRight` | `BackupIsRight` |
| | `OutagesLastAsAsked` | `OutagesAreWhole` |
| | `DownKubeletIsPending` | `DownMeansPending` |
| `EngineStress_proofs` | `TypeCorrect` | `TypeOK` |
| | `VolumeIsKept` | `VolumeKeepsItsData` |
| | `NoFalseAlarm` | `AlarmsAreAboutDamage` |
| | `ProcessesStayApart` | `ProcessesAreApart` |
| `Pipelines_proofs` | `TypeCorrect` | `TypeOK` |
| | `TheStartIsTheFirst` | `MeasuredFromTheStart` |
| | `CompleteRunsAreWhole` | `CompleteRunHasAllResults` |
| | `NoMachineIsForgotten` | `MachinesAreAccountedFor` |
| `RancherTests_proofs` | `TypeCorrect` | `TypeOK` |
| | `SessionsStaySeparate` | `SessionsAreSeparate` |
| | `RecipesEndActive` | `RecipesActivate` |
| | `ServicesComeBack` | `ServicesAreRestored` |
| | `DeletedIsGone` | `DeletedMeansGone` |
| | `DiskIsTakenBack` | `VolumeIsTakenBack` |
| | `AReplicaIsLeft` | `ReplicaLeftAndRemoved` |

`RancherHelpers_proofs` has the lemmas on the fixtures, recipes, services and kubectl helpers that the last group rests on.

### Assumptions

Only the named ones of the modules (`...Assumption`, `Bounds`), which TLC evaluates on the runs. Most say that a bound is a natural number, and a number of attempts a positive one. The others:

* Names differ: no node or id is the value for the absence of one (`None`, `Any`, `Unset`), no job is called like a state of a device, no ticket of others like a node, two volumes are two.
* `NodePower`: there are finitely many nodes, of which some are workers.
* `ReplicaRebuilding`: the node that is asked for is one of the nodes. `RebuildStress`: there are more addresses than the two replicas that the volume begins with.
* `PatternStress`: `WriteDelay + ReadDelay < MAX_TIME_SLACK`, the reason for the code's slack: with longer delays a reader alarms about a sound block.
* `TeardownStress`: a name matches itself. `QaseReport`: a report has a test at least, and a cut title is a title.
* `ScaleTest`: there are finitely many nodes and pods. `FixtureSession`: the fixtures are some of the eight of the code, and one host is there at first. `ServiceFixtures`: there are finitely
  many containers, and no fewer managed ones than the scale. `KubectlFixtures`: a namespace's name is in itself, and addresses are finitely many.

### Inductive invariants

Hardly any of the properties is inductive by itself. The invariant that is, is a conjunction of the types and the parts below; a lemma per action shows that the
action keeps them, and a composition's `Invariance` puts the parts together: the part that moves keeps its invariant, the others do not move.

* `ObjectUpdate`: `GaveUpInv` counts foreign writes against attempts at the end of a call, so `VersionInv` keeps the count during it: the stored version is at least `start + attempt`
  at each read, the version of the copy lies between the two, and a conflict adds one because it needs a version above the copy's. `FreshBodyInv` is kept by
  writes of others because they raise the version, or leave the object as it is. In the refinement storing a fresh body is `TakeEffect` (by `FreshBodyInv` the
  replacement of the whole object changes one key), the ends of a call are `End`, reads and refusals stutter.
* `NodePower`: a keyword may fail anywhere, so `CleanupInv` speaks of what is left of the teardown's script: it removes all that is still listed. `MonitorInv` has the race: a listed node
  that the monitor is already past looking for is in `overlap`.
* `VolumeAttachment`: `CopyInv`, a copy whose version is the stored one differs from the stored tickets by the call's own edit; `DeletedInv`, a call that is still under way has removed no more tickets than replies were lost.
  The refinement rests on `CopyInv`: what is stored, with its reply or without, is the call's change of the tickets of that moment.
* `VolumeMigration`: `TicketInv` (which tickets there are at each place of the test) and `EngineInv`: the volume's node IDs are those of engines, and once there is one ticket, an engine elsewhere is not made again. So what a wait has read of
  the engines stays true while it reads the volume.
* `VolumeRestoration`: `CallInv` (where each call can be and what it was asked for), `DataInv` (the volume's data fall neither behind its backup nor behind what the test was told), `FreeInv` (if the name was free before the last create, the volume is of that create),
  `RestoredInv` (create saw the restoration required, so it is over when it no longer is).
* `ReplicaRebuilding`: `FoundInv`, while no rebuilding breaks off, one that was found on the node goes on or is over; `BothInv`, between the keyword's two reads either both were under way at one moment, or the second one is over, and its read will
  tell; `ScriptInv` and `OverlapInv` tie the keyword's place and the history to the replicas.
* `Snapshots`: `SnapshotShape` (what is held, named, removed or told absent was taken, so that an absent one cannot turn up later), `PurgeShape` (a replica that completed its purge has none of what was to go, and a status reported since the purge began is true where it says done).
* `BackupChecksum`: `BackupThread`: while the test waits for a thread, nothing is written, so the checksum it has read is of the backup's data; an id goes to completed backups only. `KubeletOutage`: `KubeletShape`, what an outage at work has still to start, and `OrderlyInv`: as long
  as no test failed with a thread of its own and no node is listed twice, the outage at work is the last one and of the test that runs, and what the robot has still to wait for tells that it is at work.
* `RebuildStress`: `WrittenInv` (what the writer has on the disk at each place), `ReplicaInv` (the replica that is not rebuilt serves until the new one does), `SnapshotInv` (one above the limit for the writer, one for the rebuilding, which removes all it lists before it adds another, and one more for each listing that failed). `PatternStress`: `WriterInv`, `BlockInv`, `ReaderInv`, inequalities between the clock, the times in the
  array and what is on the disk. `TeardownStress`: `DeviceShape`, no controller of another iteration runs and the own device is there where the own controller runs, unless a wait gave up; `RaceShape`, the attempts that docker's race leaves.
* `ScaleTest`: the loop over the nodes is followed position by position for the types of the lists (`PadLoop`, by induction over the positions). `ScaledInv`, what "all" has scaled is the complement of what it has to do; `PointInv`, of the Monitor's data and of a file that is not empty: the times of late updates are no later than the last one, and
  the point is unset or the first of them. It is about both, since either becomes the other.
* `QaseReport`: `IdsInv` (the ids collected are of cases that fit the first results), `RunInv` (what the batches so far have posted), `AddedInv`: a case that was added is there, so a search by a name that finds it finds something, and the
  reporter does not come to add it again. That cases are never taken away is why others do not disturb it.
* `RancherSetup`: `HostShape` (what a thread's place says of its device and its request), `SetupShape` (the script writes the file when every thread is over), `TeardownShape` (from its lists on, the machines that are left are in the rest of the lists, or lost to the teardown).
* `FixtureSession`: `OwnerInv`, every item is of a fixture that failed in its session, of one in hand (set up now, or with its finalizer registered), or on its way out under a finalizer that does not wait. For the second half, that a fixture without a
  fault fails only after one, `UniqueInv` and `InTimeInv` say that a session meets none of its own items, and `ErrorInv` and `FailedInv` trace each error back to an earlier session (`Excused`).
* `StackRecipes`: `ShapeInv` (the first object of a call is its own stack, and no service is there before it is listed), `StateInv` (what is made only settles until services are activated, and an error needs a fault, and a call that raised has one of its reasons), `ActivatedInv` (once the stack is
  active, its services have begun unless `late`; then the waits make them, and the load balancer, active one after the other).
* `ServiceFixtures`: `NoMoreThanScale` with `AsManyAsScale`, the containers that run and the ones still to be inspected are as many as the scale, because a container that runs stays while nobody deactivates (`NotStopped`). `RoundRobin`: the
  containers that answered follow each other up to the balancer's turn (`OneAfterTheOther`), so the first answer that repeats closes the circle; that a set closed under "the next one" is all of it is an induction over the positions.
* `KubectlFixtures`: `GoneInv`, without a failed poll what `cleanup_k8s` has still to delete is in its list or at hand; `InOrder`, without faults only the namespace that is waited for is terminating, so a deletion finds what it deletes.
* `LonghornSetup`: `InTurn` and `StoredIsDone`, what is stored stands for finished work unless a session broke off; `SessionIsAt`, how far the session is tells what is made.
* `VmSnapshots`: `ServiceIsAt` and `CallIsAt` (where the test is tells the server's state and which call it is in), `FilesAreHere` (the files so far are where the test sees them and nowhere else, but for the one between a write and its sync; so below the mount point there are all files or none),
  `NoFailureYet` (before the first failure each snapshot has its files, and a volume taken back has those of its snapshot).
* `VmReplicas`: `ReplicaInv`, as long as none fails on its own, every replica has all data when a round begins and all but the one taken away until it is rebuilt; `VolumesInv`, a VM is purged after its volumes are released, and those are the ones deleted.

### Only model-checked

* The liveness properties, `CallsEnd` of `object_update` and of `volumes`, `UnlistedWorkersComeBack` and `TestsEnd`: they rest on fairness and ENABLED, which are out of the prover's reach.
* The four findings: a counterexample needs no proof.

No module uses a RECURSIVE operator. The library's induction theorems that take an operator are not used: where a loop over a list, or a circle of
containers, needs induction, it is over numbers, from the least one that breaks the claim (`LeastNumber`, which follows from finite sets being well-founded).

## 7. What is not modelled, and why

* The waits, listings and one-shot requests that make up most of the harness. They keep no state and run alone; their
  pattern (a bounded loop that swallows exceptions) is in the modules above.
* Commands run on nodes (`libs/node_exec`), settings, PVCs and most object classes of `libs`: what they do lies in the cluster, and an
  update is one request that is verified by reading again.
* The second data engine's frontends in the migration waits, recurring backups, backup deletion, VM snapshots of the harness, and the list of deleted nodes in the teardown; checksums, sizes and
  counts of system snapshots, expansion and cloning of volumes.
* The validation tests' checks of links, DNS, ports, cookies, certificates and external services, which read once and compare; their test cases, other than those the VM
  modules are about; the rest of DF, an older copy of CF. The authentication at the cloud providers.
* In modelled code: a `docker ps` that fails (`src/engine/stress/teardown-test.py:161`), a request for a device that fails although the device is made (`setupRancher.py:212`), and
  a test that restores a disk a second time or writes between two reverts, which is beyond the sequence of `VmSnapshots`.
* The manager's integration tests, Robot and pytest cases, Terraform, Jenkins files, manifests and manual test plans: sequential scripts and text.
* Wording, logging and durations. A sleep is a point where others move; a timeout is a bounded number of rounds, or a choice to give up while what is waited for does not hold.
