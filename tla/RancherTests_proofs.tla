----------------------- MODULE RancherTests_proofs ------------------------
(***************************************************************************)
(* Proofs about the set-up of Longhorn and the tests of virtual machines   *)
(* in the two common_fixtures.py, for any number of sessions, snapshots,   *)
(* calls and rounds and any failures, and the theorems about all parts.    *)
(***************************************************************************)
EXTENDS RancherHelpers_proofs
-----------------------------------------------------------------------------
(* setup_longhorn                                                          *)

ThreeParts == {"longhorn", "services", "pool"}
AllMade == \A o \in ThreeParts : object[o] = "made"
NoneMade == \A o \in ThreeParts : object[o] = "none"
Settling == {"deploy", "longhorn", "services", "pool"}

(* Longhorn is there, or a session broke off while it was deployed.        *)
Deployed == AllMade \/ brokeOff \cap Settling # {}

(* The parts of Longhorn are made one after the other.                     *)
InTurn == /\ object["longhorn"] # "made" => object["services"] = "none"
          /\ object["services"] # "made" => object["pool"] = "none"

(* What a setting or a flag that is stored stands for is done, was broken  *)
(* off, or is what the session does now.                                   *)
StoredIsDone ==
    /\ object["catalog"] = "none" => AllMade \/ NoneMade
    /\ object["catalog"] # "none" => Deployed \/ setup.pc \in Settling
    /\ object["vms"] \in {"none", "made"} \/ "vms" \in brokeOff \/ setup.pc = "vms"

SessionIsAt ==
    /\ setup.pc \notin {"setting", "raised"} => object["catalog"] # "none"
    /\ setup.pc = "deploy" => AllMade \/ NoneMade \/ Deployed
    /\ setup.pc \in {"services", "pool"} => object["longhorn"] = "made"
    /\ setup.pc = "pool" => object["services"] = "made"
    /\ setup.pc = "returned" => object["vms"] # "none"
    /\ setup.pc \in {"project", "vms", "returned"} /\ setup.server => object["target"] = "made"

SetupInv == L!TypeOK /\ InTurn /\ StoredIsDone /\ SessionIsAt

LEMMA SetupInit == L!Init => SetupInv
<1> SUFFICES ASSUME L!Init PROVE SetupInv
  OBVIOUS
<1>1. PICK there \in {{}, ThreeParts} :
         object = [o \in L!OBJECTS |-> IF o \in there THEN "made" ELSE "none"]
  BY DEF L!Init, L!LONGHORN, ThreeParts
<1>2. PICK server \in BOOLEAN : setup = L!Session(1, server)
  BY DEF L!Init
<1>3. brokeOff = {} /\ setupFaults = 0 /\ SetupSessions \in Nat \ {0} /\ SetupFaults \in Nat \ {0}
  BY SetupBounds DEF L!Init, L!Bounds
<1>4. L!TypeOK
  BY <1>1, <1>2, <1>3 DEF L!TypeOK, L!Session, L!OBJECTS, L!LONGHORN, ThreeParts
<1> QED
  BY <1>1, <1>2, <1>3, <1>4 DEF SetupInv, InTurn, StoredIsDone, SessionIsAt, AllMade, NoneMade,
     Deployed, ThreeParts, L!OBJECTS, L!LONGHORN, L!Session

LEMMA SetupStep ==
  ASSUME SetupInv, [L!Next]_longhorn
  PROVE  SetupInv'
<1> USE SetupBounds DEF L!Bounds, L!At, L!Goto, L!Raise, L!Ask, L!Wait
<1> USE DEF SetupInv, InTurn, StoredIsDone, SessionIsAt, AllMade, NoneMade, Deployed, ThreeParts,
            Settling, L!TypeOK, L!OBJECTS, L!LONGHORN
<1>1. CASE L!AddCatalog /\ UNCHANGED setupFaults
  BY <1>1 DEF L!AddCatalog
<1>2. CASE L!deploy_longhorn /\ UNCHANGED setupFaults
  BY <1>2 DEF L!deploy_longhorn
<1>3. CASE L!AwaitLonghorn /\ UNCHANGED setupFaults
  BY <1>3 DEF L!AwaitLonghorn
<1>4. CASE L!AddBackup /\ UNCHANGED setupFaults
  BY <1>4 DEF L!AddBackup
<1>5. CASE L!AwaitBackup /\ UNCHANGED setupFaults
  BY <1>5 DEF L!AwaitBackup
<1>6. CASE L!EnableVms /\ UNCHANGED setupFaults
  BY <1>6 DEF L!EnableVms
<1>7. CASE L!AwaitVms /\ UNCHANGED setupFaults
  BY <1>7 DEF L!AwaitVms
<1>8. CASE L!NextSession
  BY <1>8 DEF L!NextSession, L!Session
<1>9. CASE L!Server
  BY <1>9 DEF L!Server, L!Following
<1>10. CASE UNCHANGED longhorn
  BY <1>10 DEF longhorn
<1> QED
  BY <1>1, <1>2, <1>3, <1>4, <1>5, <1>6, <1>7, <1>8, <1>9, <1>10 DEF L!Next, L!setup_longhorn

LEMMA SetupFollows == SetupInv => L!TypeOK /\ L!SetupIsComplete
<1> SUFFICES ASSUME SetupInv, L!At("returned") PROVE L!SetupIsComplete
  BY DEF SetupInv, L!SetupIsComplete
<1>1. object["catalog"] # "none" /\ object["vms"] # "none"
  BY DEF SetupInv, SessionIsAt, L!At
<1>2. Deployed
  BY <1>1 DEF SetupInv, StoredIsDone, Settling, L!At
<1>3. \A o \in L!LONGHORN : object[o] = "made" \/ brokeOff \cap (L!LONGHORN \cup {"deploy"}) # {}
  BY <1>2 DEF Deployed, AllMade, ThreeParts, Settling, L!LONGHORN
<1>4. object["vms"] = "made" \/ "vms" \in brokeOff
  BY <1>1 DEF SetupInv, StoredIsDone, L!At
<1>5. object["target"] = "made" \/ ~setup.server
  BY DEF SetupInv, SessionIsAt, L!At
<1> QED
  BY <1>3, <1>4, <1>5 DEF L!SetupIsComplete

-----------------------------------------------------------------------------
(* The snapshots of a VM's disk                                            *)

Written(pc) == pc \in {"write", "sync", "read", "snapshot"}
Indexes == 1 .. SnapshotCount
Files == 0 .. SnapshotCount
TakesBack == vmTest.call \in {"revert", "restore"}

(* Where the test is tells how far the server is.                          *)
ServiceIsAt ==
    /\ vmTest.pc \in {"healthy", "dir", "write", "sync", "read", "snapshot", "check", "returned",
                      "backup", "deactivate"} => vmService = "active"
    /\ vmTest.pc \in {"activate", "stopped", "revert"} => vmService = "inactive"
    /\ vmTest.pc = "active" => vmService \in {"activating", "active"}
    /\ vmTest.pc = "inactive" => vmService \in {"deactivating", "inactive"}
    /\ vmService = "active" => vm.state = "running"
    /\ vmTest.pc \in {"revert", "activate"} => vm.state = "stopped"

CallIsAt ==
    /\ Written(vmTest.pc) => vmTest.call = "create"
    /\ vmTest.pc = "backup" => vmTest.call = "restore"
    /\ vmTest.pc \in {"deactivate", "inactive", "stopped", "revert", "check"} => TakesBack
    /\ vmTest.call = "delete" => vmTest.pc = "returned"

(* The files so far are where the test sees them, and nowhere else; what   *)
(* is not yet there is in the cache, between a write and its sync.         *)
Here == IF V!OnDisk THEN volume ELSE below
There == IF V!OnDisk THEN below ELSE volume

FilesAreHere ==
    /\ vmTest.call = "create" /\ vmTest.pc \in {"activate", "active", "healthy", "dir"} =>
          volume = {} /\ below = {} /\ vmTest.file = 0
    /\ Written(vmTest.pc) => There = {} /\ vmTest.file \in Files
    /\ vmTest.pc = "write" => Here = 0 .. vmTest.file - 1
    /\ vmTest.pc = "sync" => Here \cup cache = 0 .. vmTest.file
    /\ vmTest.pc \in {"read", "snapshot"} => Here = 0 .. vmTest.file
    /\ vmTest.pc = "snapshot" => vmTest.file \in Indexes
    /\ vmTest.pc # "sync" => cache = {}
    /\ vm.state = "stopped" => cache = {}
    /\ ~Written(vmTest.pc) => below \in {{}, Files}

(* Before the first failure                                                *)
NoFailureYet ==
    /\ vmTest.pc = "raised" => vmFaults > 0
    /\ vmFaults = 0 =>
       /\ Written(vmTest.pc) \/ vmTest.pc \in {"check", "returned"} => V!OnDisk
       /\ \A k \in Indexes : snap[k].there => snap[k].files \cap Indexes = 1 .. k
       /\ vmTest.pc \in {"backup", "deactivate", "inactive", "stopped", "revert"} =>
             snap[vmTest.index].there
       /\ vmTest.call = "restore" /\ vmTest.pc \in {"deactivate", "inactive", "stopped", "revert"} =>
             backup = snap[vmTest.index]
       /\ TakesBack /\ vmTest.pc \in {"activate", "active", "healthy", "dir", "check"} =>
             volume \cap Indexes = 1 .. vmTest.index

VmPlaces == {"activate", "active", "healthy", "dir", "write", "sync", "read", "snapshot", "backup",
             "deactivate", "inactive", "stopped", "revert", "check", "returned", "raised"}
VmTests == [call : {"create", "delete", "revert", "restore"}, index : Indexes,
            file : 0 .. SnapshotCount + 1, calls : 0 .. Reverts, pc : VmPlaces]
VmStates == [state : {"stopped", "running"}, healthy : BOOLEAN, mounted : BOOLEAN]
SnapStates == [there : BOOLEAN, files : SUBSET Files]

VmTypes ==
    /\ disk \in {"root", "data"}
    /\ vmService \in {"inactive", "activating", "active", "deactivating"}
    /\ vm \in VmStates /\ volume \in SUBSET Files
    /\ below \in SUBSET Files /\ cache \in SUBSET Files
    /\ snap \in [Indexes -> SnapStates] /\ backup \in SnapStates
    /\ vmTest \in VmTests /\ vmFaults \in 0 .. VmFaults

VmInv == /\ VmTypes /\ ServiceIsAt /\ CallIsAt /\ FilesAreHere /\ NoFailureYet
         /\ V!PassMeansReverted

(* The test goes to another place.                                         *)
LEMMA VmGoto ==
  ASSUME vmTest \in VmTests, NEW pc \in VmPlaces, V!Goto(pc)
  PROVE  /\ vmTest' \in VmTests /\ vmTest'.pc = pc /\ vmTest'.call = vmTest.call
         /\ vmTest'.index = vmTest.index /\ vmTest'.file = vmTest.file
BY DEF V!Goto, VmTests

LEMMA VmInit == V!Init => VmInv
BY SnapshotBounds DEF V!Init, V!Bounds, VmInv, VmTypes, VmStates, SnapStates, VmTests, VmPlaces,
   ServiceIsAt, CallIsAt, FilesAreHere, NoFailureYet,
   V!PassMeansReverted, Written, Indexes, Files, TakesBack, V!Files, V!Indexes, V!none, V!At,
   There, Here, V!OnDisk

LEMMA MountDirStep ==
  ASSUME VmInv, V!MountDir
  PROVE  VmInv'
<1> VmTypes /\ ServiceIsAt /\ CallIsAt /\ FilesAreHere /\ NoFailureYet /\ V!PassMeansReverted
  BY DEF VmInv
<1>1. /\ vmTest.pc = "dir" /\ UNCHANGED <<disk, volume, below, cache, snap, backup, vmService>>
      /\ \E pc \in {V!AfterDir, "raised"} : V!Goto(pc) /\ (pc = "raised" => V!Fault)
      /\ V!Fault \/ (UNCHANGED vmFaults /\ vm' = [vm EXCEPT !.mounted = (disk = "data")])
      /\ UNCHANGED vm \/ vm' = [vm EXCEPT !.mounted = (disk = "data")]
  <2>1. /\ vmTest.pc = "dir" /\ UNCHANGED <<disk, volume, below, cache, snap, backup, vmService>>
        /\ \/ /\ V!Goto(V!AfterDir) /\ UNCHANGED vmFaults
              /\ vm' = [vm EXCEPT !.mounted = (disk = "data")]
           \/ V!Goto(V!AfterDir) /\ V!Fault /\ UNCHANGED vm
           \/ V!Goto("raised") /\ V!Fault /\ UNCHANGED vm
    BY DEF V!MountDir, V!At, V!disks, V!NoFault
  <2>2. V!AfterDir # "raised"
    BY DEF V!AfterDir
  <2> QED
    BY <2>1, <2>2, Zenon
<1>2. vm' \in VmStates /\ vm'.state = vm.state
  BY <1>1 DEF VmTypes, VmStates
<1>3. vmFaults' = 0 => vmFaults = 0 /\ V!OnDisk'
  <2>1. V!Fault => vmFaults' > 0
    BY DEF VmTypes, V!Fault
  <2>2. ASSUME vm' = [vm EXCEPT !.mounted = (disk = "data")] PROVE V!OnDisk'
    BY <1>1, <2>2 DEF VmTypes, VmStates, V!OnDisk
  <2> QED
    BY <1>1, <2>1, <2>2 DEF VmTypes
<1>4. PICK pc \in {V!AfterDir, "raised"} : V!Goto(pc) /\ (pc = "raised" => V!Fault)
  BY <1>1
<1>5. /\ vmTest' \in VmTests /\ vmTest'.pc = pc /\ vmTest'.call = vmTest.call
      /\ vmTest'.index = vmTest.index /\ vmTest'.file = vmTest.file
      /\ pc \in {"write", "check", "raised"}
      /\ pc = "write" => vmTest.call = "create"
      /\ pc = "check" => vmTest.call # "create"
  <2>1. /\ pc \in {"write", "check", "raised"} /\ pc \in VmPlaces
        /\ pc = "write" => vmTest.call = "create"
        /\ pc = "check" => vmTest.call # "create"
    BY <1>4 DEF V!AfterDir, VmPlaces
  <2> QED
    BY <1>4, <2>1, VmGoto DEF VmTypes
<1>6. vmFaults' \in 0 .. VmFaults /\ (pc = "raised" => vmFaults' > 0)
  BY <1>1, <1>4, SnapshotBounds DEF VmTypes, V!Fault, V!Bounds
<1>7. VmTypes'
  BY <1>1, <1>2, <1>5, <1>6 DEF VmTypes
<1>8. ServiceIsAt' /\ CallIsAt'
  BY <1>1, <1>2, <1>5 DEF VmTypes, ServiceIsAt, CallIsAt, TakesBack, VmTests, Written
<1>9. FilesAreHere'
  <2>1. vm'.state = "running" /\ cache = {} /\ pc # "sync"
    BY <1>1, <1>2, <1>5 DEF FilesAreHere, ServiceIsAt
  <2>2. CASE pc = "write"
    <3>1. volume = {} /\ below = {} /\ vmTest.file = 0 /\ 0 \in Files
      BY <1>1, <1>5, <2>2, SnapshotBounds DEF FilesAreHere, Files, V!Bounds
    <3>2. Here' = {} /\ There' = {} /\ Here' = 0 .. vmTest'.file - 1
      BY <1>1, <1>5, <3>1 DEF Here, There
    <3> QED
      BY <1>1, <1>5, <2>1, <2>2, <3>1, <3>2 DEF FilesAreHere, Written
  <2>3. CASE pc # "write"
    BY <1>1, <1>5, <2>1, <2>3 DEF FilesAreHere, Written
  <2> QED
    BY <2>2, <2>3
<1>10. NoFailureYet'
  BY <1>1, <1>3, <1>5, <1>6 DEF VmTypes, NoFailureYet, TakesBack, Written
<1> QED
  BY <1>5, <1>7, <1>8, <1>9, <1>10 DEF VmInv, V!PassMeansReverted, V!At

(* What is in the cache goes where the test sees it.                       *)
LEMMA FlushStep ==
  ASSUME VmInv, V!Flush
  PROVE  /\ Here' = Here \cup cache /\ There' = There /\ cache' = {}
         /\ UNCHANGED <<disk, snap, backup, vmService, vm, vmFaults>> /\ V!OnDisk' = V!OnDisk
         /\ volume' \in SUBSET Files /\ below' \in SUBSET Files
<1>1. UNCHANGED <<disk, vm>>
  BY DEF V!Flush
<1>2. V!OnDisk' = V!OnDisk
  BY <1>1 DEF V!OnDisk
<1> QED
  BY <1>1, <1>2 DEF VmTypes, V!Flush, V!NoFault, Here, There, VmInv

LEMMA SyncStep ==
  ASSUME VmInv, V!Sync
  PROVE  VmInv'
<1> VmTypes /\ ServiceIsAt /\ CallIsAt /\ FilesAreHere /\ NoFailureYet /\ V!PassMeansReverted
  BY DEF VmInv
<1>1. /\ vmTest.pc = "sync" /\ "read" \in VmPlaces /\ V!Goto("read") /\ V!Flush
  BY DEF V!Sync, V!At, VmPlaces
<1>2. /\ vmTest' \in VmTests /\ vmTest'.pc = "read" /\ vmTest'.call = vmTest.call
      /\ vmTest'.index = vmTest.index /\ vmTest'.file = vmTest.file
  BY <1>1, VmGoto DEF VmTypes
<1>3. VmTypes'
  BY <1>1, <1>2, FlushStep DEF VmTypes, Files
<1>4. ServiceIsAt' /\ CallIsAt'
  BY <1>1, <1>2, FlushStep DEF ServiceIsAt, CallIsAt, TakesBack, Written
<1>5. FilesAreHere'
  BY <1>1, <1>2, FlushStep DEF FilesAreHere, Written
<1>6. NoFailureYet'
  BY <1>1, <1>2, FlushStep DEF NoFailureYet, TakesBack, Written
<1> QED
  BY <1>2, <1>3, <1>4, <1>5, <1>6 DEF VmInv, V!PassMeansReverted, V!At

LEMMA WritebackStep ==
  ASSUME VmInv, V!Writeback
  PROVE  VmInv'
<1> VmTypes /\ ServiceIsAt /\ CallIsAt /\ FilesAreHere /\ NoFailureYet /\ V!PassMeansReverted
  BY DEF VmInv
<1>1. vmTest.pc = "sync" /\ UNCHANGED vmTest /\ V!Flush
  BY DEF V!Writeback, FilesAreHere
<1>2. VmTypes'
  BY <1>1, FlushStep DEF VmTypes, Files
<1>3. ServiceIsAt' /\ CallIsAt'
  BY <1>1, FlushStep DEF ServiceIsAt, CallIsAt, TakesBack, Written
<1>4. FilesAreHere'
  BY <1>1, FlushStep DEF FilesAreHere, Written
<1>5. NoFailureYet'
  BY <1>1, FlushStep DEF NoFailureYet, TakesBack, Written
<1> QED
  BY <1>1, <1>2, <1>3, <1>4, <1>5 DEF VmInv, V!PassMeansReverted, V!At

LEMMA ReadDataStep ==
  ASSUME VmInv, V!read_data
  PROVE  VmInv'
<1> VmTypes /\ ServiceIsAt /\ CallIsAt /\ FilesAreHere /\ NoFailureYet /\ V!PassMeansReverted
  BY DEF VmInv
<1>1. /\ vmTest.pc = "read" /\ UNCHANGED <<V!disks, vmService, vm, vmFaults>>
      /\ vmTest.file \in V!Visible
  BY DEF VmTypes, V!read_data, V!At, V!NoFault, V!Visible, FilesAreHere, Here, Written, Files
<1>2. UNCHANGED <<disk, volume, below, cache, snap, backup, vmService, vm, vmFaults>>
  BY <1>1 DEF V!disks
<1>3. UNCHANGED <<Here, There, V!OnDisk>>
  BY <1>2 DEF Here, There, V!OnDisk
<1>4. /\ vmTest' \in VmTests /\ vmTest'.call = vmTest.call /\ vmTest'.index = vmTest.index
      /\ \/ vmTest'.pc = "snapshot" /\ vmTest'.file = vmTest.file /\ vmTest.file > 0
         \/ vmTest'.pc = "write" /\ vmTest'.file = 1 /\ vmTest.file = 0
  <2>1. CASE vmTest.file > 0
    <3>1. V!Goto("snapshot") /\ "snapshot" \in VmPlaces
      BY <1>1, <2>1 DEF V!read_data, VmPlaces
    <3> QED
      BY <2>1, <3>1, VmGoto DEF VmTypes
  <2>2. CASE ~(vmTest.file > 0)
    <3>1. vmTest.file = 0 /\ 1 \in 0 .. SnapshotCount + 1
      BY <2>2, SnapshotBounds DEF VmTypes, VmTests, V!Bounds
    <3>2. vmTest' = [vmTest EXCEPT !.pc = "write", !.file = 1]
      BY <1>1, <2>2 DEF V!read_data
    <3> QED
      BY <3>1, <3>2 DEF VmTypes, VmTests, VmPlaces
  <2> QED
    BY <2>1, <2>2
<1>5. vmTest'.file \in Files
  BY <1>1, <1>4, SnapshotBounds DEF V!Bounds, Files, FilesAreHere, Written
<1>6. VmTypes'
  BY <1>2, <1>4 DEF VmTypes
<1>7. ServiceIsAt' /\ CallIsAt'
  BY <1>1, <1>2, <1>4 DEF ServiceIsAt, CallIsAt, TakesBack, Written
<1>8. FilesAreHere'
  BY <1>1, <1>2, <1>3, <1>4, <1>5 DEF FilesAreHere, Written, Files, Indexes
<1>9. NoFailureYet'
  BY <1>1, <1>2, <1>3, <1>4 DEF NoFailureYet, TakesBack, Written
<1> QED
  BY <1>4, <1>6, <1>7, <1>8, <1>9 DEF VmInv, V!PassMeansReverted, V!At

LEMMA TakeSnapshotStep ==
  ASSUME VmInv, V!take_snapshot
  PROVE  VmInv'
<1> VmTypes /\ ServiceIsAt /\ CallIsAt /\ FilesAreHere /\ NoFailureYet /\ V!PassMeansReverted
  BY DEF VmInv
<1> DEFINE taken == [there |-> TRUE, files |-> volume]
           next == IF vmTest.file < SnapshotCount THEN "write" ELSE "returned"
<1>1. /\ vmTest.pc = "snapshot" /\ UNCHANGED <<disk, volume, below, cache, backup, vmService, vm, vmFaults>>
      /\ snap' = [snap EXCEPT ![vmTest.file] = taken]
      /\ vmTest' = [vmTest EXCEPT !.file = vmTest.file + 1, !.pc = next]
      /\ vmTest.call = "create" /\ vmTest.file \in Indexes /\ Here = 0 .. vmTest.file
  BY DEF V!take_snapshot, V!At, V!NoFault, CallIsAt, FilesAreHere, Written
<1>2. UNCHANGED <<Here, There, V!OnDisk>>
  BY <1>1 DEF Here, There, V!OnDisk
<1>3. /\ vmTest' \in VmTests /\ vmTest'.call = "create" /\ vmTest'.index = vmTest.index
      /\ vmTest'.file = vmTest.file + 1 /\ vmTest'.pc = next
  <2>1. vmTest.file + 1 \in 0 .. SnapshotCount + 1 /\ next \in VmPlaces
    BY <1>1, SnapshotBounds DEF Indexes, V!Bounds, VmPlaces
  <2> HIDE DEF next
  <2> QED
    BY <1>1, <2>1 DEF VmTypes, VmTests
<1>4. /\ next = "write" => vmTest.file + 1 \in Files
      /\ next = "returned" => vmTest.file = SnapshotCount
      /\ next \in {"write", "returned"}
  <2>1. vmTest.file \in 1 .. SnapshotCount /\ SnapshotCount \in Nat
    BY <1>1, SnapshotBounds DEF Indexes, V!Bounds
  <2> QED
    BY <2>1 DEF Files
<1>5. /\ snap' \in [Indexes -> SnapStates] /\ snap'[vmTest.file] = taken
      /\ \A k \in Indexes \ {vmTest.file} : snap'[k] = snap[k]
  <2>1. taken \in SnapStates
    BY DEF VmTypes, SnapStates
  <2> HIDE DEF taken
  <2> QED
    BY <1>1, <2>1 DEF VmTypes
<1> HIDE DEF next
<1>6. VmTypes'
  BY <1>1, <1>3, <1>5 DEF VmTypes
<1>7. ServiceIsAt' /\ CallIsAt'
  BY <1>1, <1>3, <1>4 DEF ServiceIsAt, CallIsAt, TakesBack, Written
<1>8. FilesAreHere'
  <2>1. below \in {{}, Files} \/ next = "write"
    <3>1. There = {} /\ (vmTest.file = SnapshotCount => Here = Files)
      BY <1>1 DEF FilesAreHere, Written, Files
    <3> QED
      BY <1>4, <3>1 DEF Here, There
  <2>2. vmTest.file + 1 - 1 = vmTest.file
    BY <1>1, SnapshotBounds DEF Indexes, V!Bounds
  <2> QED
    <3>1. CASE next = "write"
      <4>1. Here' = 0 .. vmTest'.file - 1
        <5>1. vmTest'.file - 1 = vmTest.file
          <6>1. vmTest'.file = vmTest.file + 1
            BY <1>3
          <6>2. vmTest.file \in Nat
            BY <1>1, SnapshotBounds DEF Indexes, V!Bounds
          <6> QED
            BY <6>1, <6>2
        <5>2. Here' = Here
          BY <1>2
        <5> QED
          BY <1>1, <5>1, <5>2
      <4>2. /\ There' = {} /\ vmTest'.file \in Files /\ vmTest'.pc = "write" /\ cache' = {}
        BY <1>1, <1>2, <1>3, <1>4, <3>1 DEF FilesAreHere, Written
      <4> QED
        BY <4>1, <4>2 DEF FilesAreHere, Written
    <3>2. CASE next = "returned"
      BY <1>1, <1>2, <1>3, <2>1, <3>2 DEF FilesAreHere, Written
    <3> QED
      BY <1>4, <3>1, <3>2
<1>9. NoFailureYet'
  <2>1. ASSUME vmFaults = 0 PROVE taken.files \cap Indexes = 1 .. vmTest.file
    <3>1. volume = 0 .. vmTest.file
      BY <1>1, <2>1 DEF NoFailureYet, Here, Written
    <3> QED
      BY <1>1, <3>1, SnapshotBounds DEF Indexes, V!Bounds
  <2> HIDE DEF taken
  <2>2. vmFaults = 0 => \A k \in Indexes : snap'[k].there => snap'[k].files \cap Indexes = 1 .. k
    BY <1>5, <2>1 DEF NoFailureYet
  <2> QED
    BY <1>1, <1>2, <1>3, <1>4, <2>2 DEF NoFailureYet, TakesBack, Written
<1> QED
  BY <1>3, <1>6, <1>7, <1>8, <1>9 DEF VmInv, V!PassMeansReverted, V!At

LEMMA NextVmCallStep ==
  ASSUME VmInv, V!NextCall
  PROVE  VmInv'
<1> VmTypes /\ ServiceIsAt /\ CallIsAt /\ FilesAreHere /\ NoFailureYet /\ V!PassMeansReverted
  BY DEF VmInv
<1>1. /\ vmTest.pc = "returned" /\ vmTest.call # "restore" /\ vmTest.calls < Reverts
      /\ UNCHANGED <<disk, volume, below, cache, backup, vmService, vm, vmFaults>>
  BY DEF V!NextCall, V!At, V!NoFault
<1> DEFINE place(c) == CASE c = "delete" -> "returned"
                         [] c = "revert" -> "deactivate"
                         [] c = "restore" -> "backup"
<1>2. PICK k \in Indexes, c \in {"delete", "revert", "restore"} :
         /\ snap[k].there
         /\ vmTest' = [vmTest EXCEPT !.call = c, !.index = k, !.calls = vmTest.calls + 1,
                                     !.pc = place(c)]
         /\ snap' = IF c = "delete" THEN [snap EXCEPT ![k] = V!none] ELSE snap
  BY Zenon DEF V!NextCall, Indexes, V!Indexes
<1>3. /\ c = "delete" => place(c) = "returned"
      /\ c = "revert" => place(c) = "deactivate"
      /\ c = "restore" => place(c) = "backup"
  OBVIOUS
<1>4. /\ vmTest' \in VmTests /\ vmTest'.call = c /\ vmTest'.index = k /\ vmTest'.pc = place(c)
  <2>1. vmTest.calls + 1 \in 0 .. Reverts /\ place(c) \in VmPlaces
    BY <1>1, <1>3, SnapshotBounds DEF VmTypes, VmTests, V!Bounds, VmPlaces
  <2> HIDE DEF place
  <2> QED
    BY <1>2, <2>1 DEF VmTypes, VmTests
<1> HIDE DEF place
<1>5. /\ snap' \in [Indexes -> SnapStates]
      /\ \A i \in Indexes : snap'[i] = snap[i] \/ (c = "delete" /\ ~snap'[i].there)
      /\ c # "delete" => snap'[k].there
  <2>1. V!none \in SnapStates /\ ~V!none.there
    BY DEF V!none, SnapStates
  <2> QED
    BY <1>2, <2>1 DEF VmTypes
<1>6. UNCHANGED <<Here, There, V!OnDisk>>
  BY <1>1 DEF Here, There, V!OnDisk
<1>7. VmTypes'
  BY <1>1, <1>4, <1>5 DEF VmTypes
<1>8. ServiceIsAt' /\ CallIsAt'
  BY <1>1, <1>3, <1>4 DEF ServiceIsAt, CallIsAt, TakesBack, Written
<1>9. FilesAreHere'
  BY <1>1, <1>3, <1>4, <1>6 DEF FilesAreHere, Written
<1>10. NoFailureYet'
  BY <1>1, <1>3, <1>4, <1>5, <1>6 DEF NoFailureYet, TakesBack, Written
<1> QED
  BY <1>3, <1>4, <1>7, <1>8, <1>9, <1>10 DEF VmInv, V!PassMeansReverted, V!At

LEMMA VmServerStep ==
  ASSUME VmInv, V!Server
  PROVE  VmInv'
<1> VmTypes /\ ServiceIsAt /\ CallIsAt /\ FilesAreHere /\ NoFailureYet /\ V!PassMeansReverted
  BY DEF VmInv
<1>1. UNCHANGED <<disk, volume, below, snap, backup, vmTest, vmFaults>>
  BY DEF V!Server, V!NoFault
<1>2. cache' = IF vm'.state = "running" THEN cache ELSE {}
  BY DEF V!Server
<1>3. \/ /\ vmService = "activating" /\ vm.state = "stopped" /\ vm'.state = "running"
         /\ UNCHANGED vmService
      \/ /\ vmService \in {"deactivating", "inactive"} /\ vm'.state = "stopped"
         /\ UNCHANGED vmService
      \/ vm.state = "running" /\ vm'.state = "running" /\ UNCHANGED <<vmService, vm.mounted>>
      \/ /\ UNCHANGED vm
         /\ \/ vmService = "activating" /\ vm.state = "running" /\ vmService' = "active"
            \/ vmService = "deactivating" /\ vmService' = "inactive"
  BY DEF VmTypes, V!Server, V!StartVm, V!StopVm, V!BecomeHealthy, V!Settle, VmStates
<1>4. vm' \in VmStates
  <2>1. \/ vm' \in {[state |-> s, healthy |-> FALSE, mounted |-> FALSE] : s \in {"stopped", "running"}}
        \/ vm' = [vm EXCEPT !.healthy = TRUE] \/ UNCHANGED vm
    BY DEF V!Server, V!StartVm, V!StopVm, V!BecomeHealthy, V!Settle
  <2>2. ASSUME NEW s \in {"stopped", "running"},
               vm' = [state |-> s, healthy |-> FALSE, mounted |-> FALSE]
        PROVE  vm' \in VmStates
    BY <2>2 DEF VmStates
  <2>3. ASSUME vm' = [vm EXCEPT !.healthy = TRUE] PROVE vm' \in VmStates
    BY <2>3 DEF VmTypes, VmStates
  <2> QED
    BY <2>1, <2>2, <2>3 DEF VmTypes
<1>5. VmTypes'
  BY <1>1, <1>2, <1>3, <1>4 DEF VmTypes
<1>6. ServiceIsAt' /\ CallIsAt'
  BY <1>1, <1>3 DEF VmTypes, ServiceIsAt, CallIsAt, TakesBack, Written, VmStates
<1>7. vmService = "active" => UNCHANGED <<Here, There, V!OnDisk, cache>>
  BY <1>1, <1>2, <1>3 DEF ServiceIsAt, Here, There, V!OnDisk
<1>8. FilesAreHere'
  <2>1. CASE vmService = "active"
    BY <1>1, <1>2, <1>3, <1>7, <2>1 DEF FilesAreHere, Written
  <2>2. CASE vmService # "active"
    BY <1>1, <1>2, <1>3, <2>2 DEF FilesAreHere, ServiceIsAt, Written
  <2> QED
    BY <2>1, <2>2
<1>9. NoFailureYet'
  BY <1>1, <1>7 DEF NoFailureYet, ServiceIsAt, TakesBack, Written
<1>10. V!PassMeansReverted'
  BY <1>1, <1>7 DEF V!PassMeansReverted, V!At, ServiceIsAt
<1> QED
  BY <1>5, <1>6, <1>8, <1>9, <1>10 DEF VmInv

(* The steps of which the outcome is only where the test goes: a wait, and *)
(* the check of the files.                                                 *)
LEMMA AwaitHealthyStep ==
  ASSUME VmInv, V!AwaitHealthy
  PROVE  VmInv'
<1> VmTypes /\ ServiceIsAt /\ CallIsAt /\ FilesAreHere /\ NoFailureYet /\ V!PassMeansReverted
  BY DEF VmInv
<1>1. /\ vmTest.pc \in {"active", "healthy"}
      /\ UNCHANGED <<disk, volume, below, cache, snap, backup, vmService, vm>>
      /\ \E pc \in {"healthy", "dir", "raised"} :
            /\ V!Goto(pc)
            /\ IF pc = "raised" THEN V!Fault ELSE UNCHANGED vmFaults
            /\ pc = "healthy" => vmTest.pc = "active" /\ vmService = "active"
            /\ pc = "dir" => vmTest.pc = "healthy"
  BY DEF V!AwaitHealthy, V!Wait, V!At, V!disks, V!NoFault
<1>2. PICK pc \in {"healthy", "dir", "raised"} :
         /\ V!Goto(pc)
         /\ IF pc = "raised" THEN V!Fault ELSE UNCHANGED vmFaults
         /\ pc = "healthy" => vmTest.pc = "active" /\ vmService = "active"
         /\ pc = "dir" => vmTest.pc = "healthy"
  BY <1>1
<1>3. /\ vmTest' \in VmTests /\ vmTest'.pc = pc /\ vmTest'.call = vmTest.call
      /\ vmTest'.index = vmTest.index /\ vmTest'.file = vmTest.file
  <2>1. pc \in VmPlaces
    BY <1>2 DEF VmPlaces
  <2> QED
    BY <1>2, <2>1, VmGoto DEF VmTypes
<1>4. /\ vmFaults' \in 0 .. VmFaults /\ (pc = "raised" => vmFaults' > 0)
      /\ vmFaults' = 0 => vmFaults = 0
  BY <1>2, SnapshotBounds DEF VmTypes, V!Fault, V!Bounds
<1>5. UNCHANGED <<Here, There, V!OnDisk>>
  BY <1>1 DEF Here, There, V!OnDisk
<1>6. VmTypes'
  BY <1>1, <1>3, <1>4 DEF VmTypes
<1>7. ServiceIsAt' /\ CallIsAt'
  BY <1>1, <1>2, <1>3 DEF ServiceIsAt, CallIsAt, TakesBack, Written
<1>8. FilesAreHere'
  BY <1>1, <1>2, <1>3, <1>5 DEF FilesAreHere, Written
<1>9. NoFailureYet'
  BY <1>1, <1>2, <1>3, <1>4, <1>5 DEF NoFailureYet, TakesBack, Written
<1> QED
  BY <1>2, <1>3, <1>6, <1>7, <1>8, <1>9 DEF VmInv, V!PassMeansReverted, V!At

LEMMA DeactivateStep ==
  ASSUME VmInv, V!Deactivate
  PROVE  VmInv'
<1> VmTypes /\ ServiceIsAt /\ CallIsAt /\ FilesAreHere /\ NoFailureYet /\ V!PassMeansReverted
  BY DEF VmInv
<1>1. /\ vmTest.pc \in {"deactivate", "inactive", "stopped"}
      /\ UNCHANGED <<disk, volume, below, cache, snap, backup, vm>>
      /\ \E pc \in {"inactive", "stopped", "revert", "raised"} :
            /\ V!Goto(pc)
            /\ IF pc = "raised" THEN V!Fault ELSE UNCHANGED vmFaults
            /\ vmService' = IF pc = "inactive" THEN "deactivating" ELSE vmService
            /\ pc = "stopped" => vmTest.pc = "inactive" /\ vmService = "inactive"
            /\ pc = "revert" => vmTest.pc = "stopped" /\ vm.state = "stopped"
  BY DEF V!Deactivate, V!Wait, V!At, V!disks, V!NoFault
<1>2. PICK pc \in {"inactive", "stopped", "revert", "raised"} :
         /\ V!Goto(pc)
         /\ IF pc = "raised" THEN V!Fault ELSE UNCHANGED vmFaults
         /\ vmService' = IF pc = "inactive" THEN "deactivating" ELSE vmService
         /\ pc = "stopped" => vmTest.pc = "inactive" /\ vmService = "inactive"
         /\ pc = "revert" => vmTest.pc = "stopped" /\ vm.state = "stopped"
  BY <1>1
<1>3. /\ vmTest' \in VmTests /\ vmTest'.pc = pc /\ vmTest'.call = vmTest.call
      /\ vmTest'.index = vmTest.index /\ vmTest'.file = vmTest.file
  <2>1. pc \in VmPlaces
    BY <1>2 DEF VmPlaces
  <2> QED
    BY <1>2, <2>1, VmGoto DEF VmTypes
<1>4. /\ vmFaults' \in 0 .. VmFaults /\ (pc = "raised" => vmFaults' > 0)
      /\ vmFaults' = 0 => vmFaults = 0
  BY <1>2, SnapshotBounds DEF VmTypes, V!Fault, V!Bounds
<1>5. UNCHANGED <<Here, There, V!OnDisk>>
  BY <1>1 DEF Here, There, V!OnDisk
<1>6. VmTypes'
  BY <1>1, <1>2, <1>3, <1>4 DEF VmTypes
<1>7. ServiceIsAt' /\ CallIsAt'
  BY <1>1, <1>2, <1>3 DEF ServiceIsAt, CallIsAt, TakesBack, Written
<1>8. FilesAreHere'
  BY <1>1, <1>2, <1>3, <1>5 DEF FilesAreHere, Written
<1>9. NoFailureYet'
  BY <1>1, <1>2, <1>3, <1>4, <1>5 DEF NoFailureYet, CallIsAt, TakesBack, Written
<1> QED
  BY <1>2, <1>3, <1>6, <1>7, <1>8, <1>9 DEF VmInv, V!PassMeansReverted, V!At

LEMMA CheckFilesStep ==
  ASSUME VmInv, V!CheckFiles
  PROVE  VmInv'
<1> VmTypes /\ ServiceIsAt /\ CallIsAt /\ FilesAreHere /\ NoFailureYet /\ V!PassMeansReverted
  BY DEF VmInv
<1> DEFINE reverted == \A k \in Indexes : k \in Here <=> k <= vmTest.index
<1>1. V!Visible = Here
  BY DEF V!Visible, V!CheckFiles, V!At, FilesAreHere, Here
<1>2. /\ vmTest.pc = "check" /\ Indexes = V!Indexes
      /\ UNCHANGED <<disk, volume, below, cache, snap, backup, vmService, vm, vmFaults>>
  BY DEF V!CheckFiles, V!At, V!disks, V!NoFault, Indexes, V!Indexes
<1>3. IF reverted THEN V!Goto("returned") ELSE V!Goto("raised")
  BY <1>1, <1>2 DEF V!CheckFiles
<1>4. PICK pc \in {"returned", "raised"} : V!Goto(pc) /\ (pc = "returned" <=> reverted)
  BY <1>3
<1>5. /\ vmTest' \in VmTests /\ vmTest'.pc = pc /\ vmTest'.call = vmTest.call
      /\ vmTest'.index = vmTest.index /\ vmTest'.file = vmTest.file
  <2>1. pc \in VmPlaces
    BY DEF VmPlaces
  <2> QED
    BY <1>4, <2>1, VmGoto DEF VmTypes
<1>6. UNCHANGED <<Here, There, V!OnDisk>>
  BY <1>2 DEF Here, There, V!OnDisk
<1>7. vmTest.index \in Indexes /\ vmTest.index \in Nat /\ SnapshotCount \in Nat /\ TakesBack
  BY <1>2, SnapshotBounds DEF VmTypes, VmTests, Indexes, V!Bounds, CallIsAt
<1>8. vmFaults = 0 => reverted
  <2> SUFFICES ASSUME vmFaults = 0 PROVE reverted
    OBVIOUS
  <2>1. Here \cap Indexes = 1 .. vmTest.index
    BY <1>2, <1>7 DEF NoFailureYet, Here
  <2> QED
    BY <1>7, <2>1 DEF Indexes
<1>9. reverted => Here \cap Indexes = 1 .. vmTest.index
  BY <1>7 DEF Indexes
<1> HIDE DEF reverted
<1>10. VmTypes'
  BY <1>2, <1>5 DEF VmTypes
<1>11. ServiceIsAt' /\ CallIsAt'
  BY <1>2, <1>5, <1>7 DEF ServiceIsAt, CallIsAt, TakesBack, Written
<1>12. FilesAreHere'
  BY <1>2, <1>5, <1>6 DEF FilesAreHere, Written
<1>13. NoFailureYet'
  <2>1. pc = "raised" => vmFaults > 0
    BY <1>4, <1>8 DEF VmTypes
  <2> QED
    BY <1>2, <1>5, <1>6, <2>1 DEF NoFailureYet, TakesBack, Written
<1>14. V!PassMeansReverted'
  <2> SUFFICES ASSUME pc = "returned"
               PROVE  IF V!OnDisk THEN volume \cap Indexes = 1 .. vmTest.index
                      ELSE vmTest.index = SnapshotCount /\ Indexes \subseteq below
    BY <1>2, <1>5, <1>6 DEF V!PassMeansReverted, V!At
  <2>1. Here \cap Indexes = 1 .. vmTest.index
    BY <1>4, <1>9
  <2>2. CASE V!OnDisk
    BY <2>1, <2>2 DEF Here
  <2>3. CASE ~V!OnDisk
    <3>1. below = Files
      <4>1. 1 \in 1 .. vmTest.index
        BY <1>7 DEF Indexes
      <4>2. below \in {{}, Files}
        BY <1>2 DEF FilesAreHere, Written
      <4> QED
        BY <2>1, <2>3, <4>1, <4>2 DEF Here
    <3>2. Indexes \subseteq below
      BY <3>1, <1>7 DEF Files, Indexes
    <3>3. Indexes = 1 .. vmTest.index
      BY <2>1, <2>3, <3>2 DEF Here
    <3>4. SnapshotCount \in 1 .. vmTest.index
      BY <1>7, <3>3 DEF Indexes
    <3> QED
      BY <1>7, <2>3, <3>2, <3>4 DEF Indexes
  <2> QED
    BY <2>2, <2>3
<1> QED
  BY <1>10, <1>11, <1>12, <1>13, <1>14 DEF VmInv

LEMMA VmStep ==
  ASSUME VmInv, [V!Next]_snapshots
  PROVE  VmInv'
<1> USE SnapshotBounds DEF V!Bounds, V!At, V!Goto, V!NoFault, V!Fault, V!disks, V!Files, V!Indexes
<1> USE DEF VmInv, VmTypes, VmTests, VmStates, SnapStates, VmPlaces, Files, Indexes
<1> USE DEF ServiceIsAt, CallIsAt, FilesAreHere, NoFailureYet, V!PassMeansReverted,
            TakesBack, There, Here, V!OnDisk, Written
<1>1. CASE V!Activate
  BY <1>1, SMTT(60) DEF V!Activate
<1>2. CASE V!AwaitHealthy
  BY <1>2, AwaitHealthyStep
<1>3. CASE V!MountDir
  BY <1>3, MountDirStep
<1>4. CASE V!write_data
  BY <1>4, SMTT(60) DEF V!write_data
<1>5. CASE V!Sync
  BY <1>5, SyncStep
<1>6. CASE V!read_data
  BY <1>6, ReadDataStep
<1>7. CASE V!take_snapshot
  BY <1>7, TakeSnapshotStep
<1>8. CASE V!NextCall
  BY <1>8, NextVmCallStep
<1>9. CASE V!Backup
  BY <1>9, SMTT(60) DEF V!Backup
<1>10. CASE V!Deactivate
  BY <1>10, DeactivateStep
<1>11. CASE V!TakeBack
  BY <1>11, SMTT(60) DEF V!TakeBack
<1>12. CASE V!CheckFiles
  BY <1>12, CheckFilesStep
<1>13. CASE V!Server
  BY <1>13, VmServerStep
<1>14. CASE V!Writeback
  BY <1>14, WritebackStep
<1>15. CASE UNCHANGED snapshots
  BY <1>15 DEF snapshots
<1> QED
  BY <1>1, <1>2, <1>3, <1>4, <1>5, <1>6, <1>7, <1>8, <1>9, <1>10, <1>11, <1>12, <1>13, <1>14, <1>15
     DEF V!Next, V!Test

LEMMA VmFollows == VmInv => V!TypeOK /\ V!PassMeansReverted /\ V!FailsOnlyByFaults
<1> SUFFICES ASSUME VmInv PROVE V!TypeOK /\ V!FailsOnlyByFaults
  BY DEF VmInv
<1>1. V!TypeOK
  BY DEF VmInv, VmTypes, V!TypeOK, VmStates, SnapStates, VmTests, VmPlaces, Files, Indexes,
     V!Files, V!Indexes
<1>2. V!FailsOnlyByFaults
  BY DEF VmInv, NoFailureYet, V!FailsOnlyByFaults, V!At
<1> QED
  BY <1>1, <1>2

-----------------------------------------------------------------------------
(* The replicas of a VM's disk                                             *)

ReplicaPlaces == {"list", "act", "find", "killed", "write", "relist", "rebuild", "end",
                  "vmRemoved", "vmPurged", "volumes", "returned", "raised"}
ReplicaStates == [state : {"running", "stopped", "removed"}, address : Nat, linked : BOOLEAN]
ReplicaModes == [address : Nat, mode : {"RW", "WO", "ERR"}]
ReplicaTests == [op : {"delete", "kill"}, round : 1 .. ReplicaRounds, todo : SUBSET D!Names,
                 name : D!Names, listed : [D!Names -> Nat], disks : SUBSET D!Disks,
                 pc : ReplicaPlaces]

VolumeTypes == /\ replica \in [D!Names -> ReplicaStates] /\ mode \in [D!Names -> ReplicaModes]
               /\ data \in [D!Names -> BOOLEAN]
MachineTypes == /\ machine \in {"running", "removed", "purging", "purged"}
                /\ vol \in [D!Disks -> {"active", "inactive", "removed", "purged"}]
ReplicaTypes == /\ VolumeTypes /\ MachineTypes /\ replicaTest \in ReplicaTests
                /\ replicaFaults \in 0 .. ReplicaFaults

(* What the controller writes to is connected, and has all data once it is *)
(* RW.  Only of the replica that the test took away it may not know yet.   *)
Connected(n) == replica[n].linked => /\ replica[n].state = "running" /\ mode[n].mode # "ERR"
                                     /\ mode[n].mode = "RW" => data[n]
Known(n) == mode[n].mode = "RW" => replica[n].linked
TakenAway == {"find", "killed", "write"}

ReplicaInv ==
    replicaFaults = 0 =>
       /\ \A n \in D!Names : Connected(n)
       /\ replicaTest.pc # "raised" =>
             \A n \in D!Names : Known(n) \/ (replicaTest.pc \in TakenAway /\ n = replicaTest.name)
       /\ replicaTest.pc \in {"list", "act"} => \A n \in D!Names : D!Sound(n)
       /\ replicaTest.pc \in TakenAway => \A n \in D!Names \ {replicaTest.name} : D!Sound(n)
       /\ \E n \in D!Names : D!Sound(n)

(* The volumes of the VM are released before it is purged, and those that  *)
(* were released are deleted.                                              *)
Purging == replicaTest.pc \in {"volumes", "returned", "raised"}
VolumesInv ==
    /\ ~Purging => \A d \in D!Disks : vol[d] \in {"active", "inactive"}
    /\ machine = "purged" => \A d \in D!Disks : vol[d] # "active"
    /\ replicaTest.pc \in {"volumes", "returned"} => machine = "purged"
    /\ replicaTest.pc = "volumes" =>
          \A d \in D!Disks : \/ vol[d] = "inactive" /\ d \in replicaTest.disks
                             \/ vol[d] = "purged" /\ d \notin replicaTest.disks
    /\ replicaTest.pc = "returned" => \A d \in D!Disks : vol[d] = "purged"

DiskInv == ReplicaTypes /\ ReplicaInv /\ VolumesInv

LEMMA DiskInit == D!Init => DiskInv
<1> SUFFICES ASSUME D!Init PROVE DiskInv
  OBVIOUS
<1>1. PICK op \in {"delete", "kill"} :
         replicaTest = [op |-> op, round |-> 1, todo |-> {}, name |-> 1, pc |-> "list",
                        listed |-> [n \in D!Names |-> n], disks |-> {}]
  BY DEF D!Init
<1>2. ReplicaTypes
  BY <1>1, ReplicaBounds DEF D!Init, D!Bounds, ReplicaTypes, VolumeTypes, MachineTypes, ReplicaStates,
     ReplicaModes, ReplicaTests, ReplicaPlaces, D!Names
<1>3. ReplicaInv
  BY <1>1 DEF D!Init, ReplicaInv, Connected, Known, TakenAway, D!Sound, D!Names
<1>4. VolumesInv
  BY <1>1 DEF D!Init, VolumesInv, Purging
<1> QED
  BY <1>2, <1>3, <1>4 DEF DiskInv

(* The test goes to another place, and may do something else with it.      *)
LEMMA DiskGoto ==
  ASSUME replicaTest \in ReplicaTests, NEW pc \in ReplicaPlaces, D!Goto(pc)
  PROVE  /\ replicaTest' \in ReplicaTests /\ replicaTest'.pc = pc
         /\ replicaTest'.name = replicaTest.name /\ replicaTest'.disks = replicaTest.disks
BY DEF D!Goto, ReplicaTests

AllSound == replicaFaults = 0 => \A n \in D!Names : D!Sound(n)

(* A step of the test that leaves the replicas and the VM as they are.     *)
LEMMA IdleStep ==
  ASSUME DiskInv, D!Idle, replicaTest' \in ReplicaTests, replicaTest'.name = replicaTest.name,
         replicaTest'.pc \in {"act", "list"} => AllSound,
         replicaTest'.pc \in TakenAway => replicaTest.pc \in TakenAway,
         replicaTest.pc \in TakenAway => replicaTest'.pc \in TakenAway \cup {"raised"},
         replicaTest'.pc \notin {"volumes", "returned"}, replicaTest.pc # "raised",
         Purging => replicaTest'.pc = "raised"
  PROVE  DiskInv'
<1>1. UNCHANGED <<replica, mode, data, machine, vol, replicaFaults>>
  BY DEF D!Idle, D!volume, D!machine
<1>2. ReplicaTypes'
  BY <1>1 DEF DiskInv, ReplicaTypes, VolumeTypes, MachineTypes
<1>3. ReplicaInv'
  <2>1. \A n \in D!Names : UNCHANGED <<Connected(n), Known(n), D!Sound(n)>>
    BY <1>1 DEF Connected, Known, D!Sound
  <2> QED
    BY <1>1, <2>1 DEF DiskInv, ReplicaInv, AllSound
<1>4. VolumesInv'
  BY <1>1 DEF DiskInv, VolumesInv, Purging
<1> QED
  BY <1>2, <1>3, <1>4 DEF DiskInv

LEMMA ListReplicasStep ==
  ASSUME DiskInv, D!ListContainers
  PROVE  DiskInv'
<1>1. D!Idle /\ replicaTest.pc \in {"list", "relist"} /\ replicaTest \in ReplicaTests /\ VolumeTypes
  BY Zenon DEF D!ListContainers, D!At, DiskInv, ReplicaTypes
<1>2. CASE D!Goto("raised")
  BY <1>1, <1>2, DiskGoto, IdleStep DEF ReplicaPlaces, TakenAway, Purging
<1>3. ASSUME NEW todo \in SUBSET D!Names, replicaTest.pc = "list",
             replicaTest' = [replicaTest EXCEPT !.pc = "act", !.todo = todo]
      PROVE  DiskInv'
  <2>1. /\ replicaTest' \in ReplicaTests /\ replicaTest'.pc = "act"
        /\ replicaTest'.name = replicaTest.name
    BY <1>1, <1>3 DEF ReplicaTests, ReplicaPlaces
  <2>2. AllSound
    BY <1>3 DEF DiskInv, ReplicaInv, AllSound
  <2> QED
    BY <1>1, <1>3, <2>1, <2>2, IdleStep DEF TakenAway, Purging
<1>4. ASSUME NEW listed \in [D!Names -> Nat], replicaTest.pc = "relist",
             replicaTest' = [replicaTest EXCEPT !.pc = "rebuild", !.listed = listed]
      PROVE  DiskInv'
  <2>1. /\ replicaTest' \in ReplicaTests /\ replicaTest'.pc = "rebuild"
        /\ replicaTest'.name = replicaTest.name
    BY <1>1, <1>4 DEF ReplicaTests, ReplicaPlaces
  <2> QED
    BY <1>1, <1>4, <2>1, IdleStep DEF TakenAway, Purging
<1>5. [n \in D!Names |-> replica[n].address] \in [D!Names -> Nat]
  BY <1>1 DEF VolumeTypes, ReplicaStates
<1>6. \A todo \in IF replicaTest.op = "delete" THEN {D!Names} ELSE {{n} : n \in D!Names} :
         todo \in SUBSET D!Names
  OBVIOUS
<1> QED
  BY <1>2, <1>3, <1>4, <1>5, <1>6, Zenon DEF D!ListContainers, D!At

(* The test takes a replica away that is not the last one.                 *)
TakesAway(n, pc, state) ==
    /\ replicaTest.pc = "act" /\ UNCHANGED <<mode, D!machine, replicaFaults>>
    /\ replica' = [replica EXCEPT ![n].state = state, ![n].linked = FALSE]
    /\ data' = data \/ data' = [data EXCEPT ![n] = FALSE]
    /\ replicaTest' = [replicaTest EXCEPT !.pc = pc, !.name = n, !.todo = @ \ {n}]

LEMMA TakeAwayStep ==
  ASSUME DiskInv, NEW n \in replicaTest.todo, NEW pc \in TakenAway, NEW state \in {"removed", "stopped"},
         TakesAway(n, pc, state)
  PROVE  DiskInv'
<1> USE DEF TakesAway
<1>1. n \in D!Names /\ VolumeTypes /\ MachineTypes /\ replicaTest \in ReplicaTests
      /\ replicaFaults \in 0 .. ReplicaFaults
  BY DEF DiskInv, ReplicaTypes, ReplicaTests
<1>2. UNCHANGED <<mode, machine, vol, replicaFaults>>
  BY DEF D!machine
<1>3. /\ replica' \in [D!Names -> ReplicaStates] /\ ~replica'[n].linked
      /\ \A m \in D!Names \ {n} : replica'[m] = replica[m]
  <2> DEFINE taken == [replica[n] EXCEPT !.state = state, !.linked = FALSE]
  <2>1. taken \in ReplicaStates /\ ~taken.linked
    BY <1>1 DEF VolumeTypes, ReplicaStates
  <2>2. replica' = [replica EXCEPT ![n] = taken]
    BY <1>1 DEF VolumeTypes, ReplicaStates
  <2> HIDE DEF taken
  <2> QED
    BY <1>1, <2>1, <2>2 DEF VolumeTypes
<1>4. data' \in [D!Names -> BOOLEAN] /\ \A m \in D!Names \ {n} : data'[m] = data[m]
  BY <1>1 DEF VolumeTypes
<1>5. replicaTest' \in ReplicaTests /\ replicaTest'.pc = pc /\ replicaTest'.name = n
  BY <1>1 DEF ReplicaTests, ReplicaPlaces, TakenAway
<1>6. ReplicaTypes'
  BY <1>1, <1>2, <1>3, <1>4, <1>5 DEF ReplicaTypes, VolumeTypes, MachineTypes
<1>7. ReplicaInv'
  <2> SUFFICES ASSUME replicaFaults = 0 PROVE ReplicaInv'
    BY <1>2 DEF ReplicaInv
  <2>1. \A m \in D!Names : Connected(m) /\ D!Sound(m)
    BY DEF DiskInv, ReplicaInv
  <2>2. \A m \in D!Names \ {n} : Connected(m)' /\ D!Sound(m)' /\ Known(m)'
    BY <1>2, <1>3, <1>4, <2>1 DEF Connected, D!Sound, Known
  <2>3. Connected(n)'
    BY <1>3 DEF Connected
  <2>4. \E m \in D!Names \ {n} : TRUE
    BY <1>1 DEF D!Names
  <2> QED
    BY <1>1, <1>5, <2>2, <2>3, <2>4 DEF ReplicaInv, TakenAway
<1>8. VolumesInv'
  BY <1>2, <1>5 DEF DiskInv, VolumesInv, Purging, TakenAway
<1> QED
  BY <1>6, <1>7, <1>8 DEF DiskInv

LEMMA DeleteReplicaStep ==
  ASSUME DiskInv, D!DeleteReplica
  PROVE  DiskInv'
<1>1. CASE D!Wait("find", replica[replicaTest.name].state = "running", "write")
  <2>1. D!Idle /\ replicaTest.pc = "find" /\ replicaTest \in ReplicaTests
        /\ (D!Goto("write") \/ D!Goto("raised"))
    BY <1>1 DEF D!Wait, D!At, DiskInv, ReplicaTypes
  <2> QED
    BY <2>1, DiskGoto, IdleStep DEF ReplicaPlaces, TakenAway, Purging
<1>2. ASSUME NEW n \in replicaTest.todo, TakesAway(n, "find", "removed") PROVE DiskInv'
  BY <1>2, TakeAwayStep DEF TakenAway
<1> QED
  BY <1>1, <1>2, Zenon DEF D!DeleteReplica, D!At, TakesAway

LEMMA KillProcessStep ==
  ASSUME DiskInv, D!KillProcess
  PROVE  DiskInv'
<1>1. CASE D!At("killed") /\ D!Goto("write") /\ D!Idle
  <2>1. D!Idle /\ replicaTest.pc = "killed" /\ replicaTest \in ReplicaTests /\ D!Goto("write")
    BY <1>1 DEF D!At, DiskInv, ReplicaTypes
  <2> QED
    BY <2>1, DiskGoto, IdleStep DEF ReplicaPlaces, TakenAway, Purging
<1>2. ASSUME NEW n \in replicaTest.todo, TakesAway(n, "killed", "stopped") PROVE DiskInv'
  BY <1>2, TakeAwayStep DEF TakenAway
<1> QED
  BY <1>1, <1>2, Zenon DEF D!KillProcess, D!At, TakesAway

(* A write makes the controller notice what is not connected.              *)
LEMMA WriteStep ==
  ASSUME DiskInv, D!validate_writes
  PROVE  DiskInv'
<1>1. /\ replicaTest.pc = "write" /\ UNCHANGED <<replica, machine, vol, replicaFaults>>
      /\ data' = [n \in D!Names |-> data[n] /\ D!Writable(n)]
      /\ mode' = [n \in D!Names |-> IF D!Writable(n) THEN mode[n] ELSE [mode[n] EXCEPT !.mode = "ERR"]]
      /\ D!Goto("relist") \/ D!Goto("raised")
  BY DEF D!validate_writes, D!At, D!machine
<1>2. VolumeTypes /\ MachineTypes /\ replicaTest \in ReplicaTests /\ replicaFaults \in 0 .. ReplicaFaults
  BY DEF DiskInv, ReplicaTypes
<1>3. replicaTest' \in ReplicaTests /\ replicaTest'.pc \in {"relist", "raised"}
  BY <1>1, <1>2, DiskGoto DEF ReplicaPlaces
<1>4. /\ data' \in [D!Names -> BOOLEAN] /\ mode' \in [D!Names -> ReplicaModes]
      /\ \A n \in D!Names :
            /\ data'[n] <=> (data[n] /\ D!Writable(n))
            /\ D!Writable(n) => mode'[n] = mode[n]
            /\ ~D!Writable(n) => mode'[n].mode = "ERR"
  BY <1>1, <1>2 DEF VolumeTypes, ReplicaModes
<1>5. ReplicaTypes'
  BY <1>1, <1>2, <1>3, <1>4 DEF ReplicaTypes, VolumeTypes, MachineTypes
<1>6. ReplicaInv'
  <2> SUFFICES ASSUME replicaFaults = 0 PROVE ReplicaInv'
    BY <1>1 DEF ReplicaInv
  <2>1. ASSUME NEW n \in D!Names
        PROVE  Connected(n)' /\ Known(n)' /\ (D!Sound(n) => D!Sound(n)')
    <3>1. Connected(n)
      BY DEF DiskInv, ReplicaInv
    <3> QED
      BY <1>1, <1>4, <3>1 DEF Connected, Known, D!Sound, D!Writable
  <2>2. \E n \in D!Names : D!Sound(n)
    BY DEF DiskInv, ReplicaInv
  <2> QED
    BY <1>3, <2>1, <2>2 DEF ReplicaInv, TakenAway
<1>7. VolumesInv'
  BY <1>1, <1>3 DEF DiskInv, VolumesInv, Purging
<1> QED
  BY <1>5, <1>6, <1>7 DEF DiskInv

LEMMA RebuildStep ==
  ASSUME DiskInv, D!wait_for_replica_rebuild
  PROVE  DiskInv'
<1>1. D!Idle /\ replicaTest.pc = "rebuild" /\ replicaTest \in ReplicaTests
  BY DEF D!wait_for_replica_rebuild, D!At, DiskInv, ReplicaTypes
<1>2. ASSUME \A n \in D!Names : D!Rebuilt(n) PROVE AllSound
  BY <1>1, <1>2 DEF DiskInv, ReplicaInv, AllSound, D!Rebuilt, Known, Connected, D!Sound, TakenAway
<1>3. \/ D!Goto("raised") \/ D!Goto("end") \/ (D!Goto("act") /\ AllSound)
      \/ /\ replicaTest.round < ReplicaRounds /\ AllSound
         /\ replicaTest' = [replicaTest EXCEPT !.pc = "list", !.round = replicaTest.round + 1]
  BY <1>2, Zenon DEF D!wait_for_replica_rebuild
<1>4. ASSUME D!Goto("raised") \/ D!Goto("end") \/ (D!Goto("act") /\ AllSound) PROVE DiskInv'
  BY <1>1, <1>4, DiskGoto, IdleStep DEF ReplicaPlaces, TakenAway, Purging
<1>5. ASSUME replicaTest.round < ReplicaRounds, AllSound,
             replicaTest' = [replicaTest EXCEPT !.pc = "list", !.round = replicaTest.round + 1]
      PROVE  DiskInv'
  <2>1. replicaTest.round + 1 \in 1 .. ReplicaRounds
    BY <1>1, <1>5, ReplicaBounds DEF ReplicaTests, D!Bounds
  <2>2. /\ replicaTest' \in ReplicaTests /\ replicaTest'.pc = "list"
        /\ replicaTest'.name = replicaTest.name
    BY <1>1, <1>5, <2>1 DEF ReplicaTests, ReplicaPlaces
  <2> QED
    BY <1>1, <1>5, <2>2, IdleStep DEF TakenAway, Purging
<1> QED
  BY <1>3, <1>4, <1>5

(* The VM is removed and purged.                                           *)
LEMMA DeleteVmStep ==
  ASSUME DiskInv, D!DeleteVm
  PROVE  DiskInv'
<1>1. /\ UNCHANGED <<replica, mode, data, vol, replicaFaults>>
      /\ replicaTest.pc \in {"end", "vmRemoved", "vmPurged"}
      /\ \/ machine' \in {"removed", "purging"} /\ machine # "purged"
         \/ UNCHANGED machine
         \/ replicaTest.pc = "end" /\ machine' = "removed"
      /\ \/ D!Goto("vmRemoved") \/ D!Goto("vmPurged") \/ D!Goto("raised")
         \/ /\ machine = "purged" /\ machine' = "purged"
            /\ replicaTest' = [replicaTest EXCEPT !.pc = "volumes",
                                                  !.disks = {d \in D!Disks : vol[d] = "inactive"}]
  BY DEF D!DeleteVm, D!At, D!Idle, D!volume, D!machine
<1>2. ReplicaTypes /\ ReplicaInv /\ VolumesInv
  BY DEF DiskInv
<1>3. /\ replicaTest' \in ReplicaTests
      /\ \/ replicaTest'.pc \in {"vmRemoved", "vmPurged", "raised"}
         \/ /\ machine = "purged" /\ machine' = "purged" /\ replicaTest'.pc = "volumes"
            /\ replicaTest'.disks = {d \in D!Disks : vol[d] = "inactive"}
  <2>1. ASSUME NEW pc \in {"vmRemoved", "vmPurged", "raised"}, D!Goto(pc)
        PROVE  replicaTest' \in ReplicaTests /\ replicaTest'.pc = pc
    BY <1>2, <2>1, DiskGoto DEF ReplicaTypes, ReplicaPlaces
  <2>2. ASSUME replicaTest' = [replicaTest EXCEPT !.pc = "volumes",
                                                  !.disks = {d \in D!Disks : vol[d] = "inactive"}]
        PROVE  /\ replicaTest' \in ReplicaTests /\ replicaTest'.pc = "volumes"
               /\ replicaTest'.disks = {d \in D!Disks : vol[d] = "inactive"}
    <3> DEFINE released == {d \in D!Disks : vol[d] = "inactive"}
    <3>1. released \in SUBSET D!Disks
      OBVIOUS
    <3>2. replicaTest \in ReplicaTests
      BY <1>2 DEF ReplicaTypes
    <3>3. replicaTest' = [replicaTest EXCEPT !.pc = "volumes", !.disks = released]
      BY <2>2
    <3> HIDE DEF released
    <3>4. /\ replicaTest' \in ReplicaTests /\ replicaTest'.pc = "volumes"
          /\ replicaTest'.disks = released
      BY <3>1, <3>2, <3>3 DEF ReplicaTests, ReplicaPlaces
    <3> QED
      BY <3>4 DEF released
  <2> QED
    BY <1>1, <2>1, <2>2
<1>4. ReplicaTypes'
  BY <1>1, <1>2, <1>3 DEF ReplicaTypes, VolumeTypes, MachineTypes
<1>5. ReplicaInv'
  <2>1. \A n \in D!Names : UNCHANGED <<Connected(n), Known(n), D!Sound(n)>>
    BY <1>1 DEF Connected, Known, D!Sound
  <2> QED
    BY <1>1, <1>2, <1>3, <2>1 DEF ReplicaInv, TakenAway
<1>6. VolumesInv'
  BY <1>1, <1>2, <1>3 DEF VolumesInv, Purging, ReplicaTypes, MachineTypes
<1> QED
  BY <1>4, <1>5, <1>6 DEF DiskInv

LEMMA DeleteVolumeStep ==
  ASSUME DiskInv, D!DeleteVolume
  PROVE  DiskInv'
<1>1. /\ UNCHANGED <<replica, mode, data, machine, replicaFaults>> /\ replicaTest.pc = "volumes"
      /\ \/ \E d \in replicaTest.disks :
               \/ /\ vol' = [vol EXCEPT ![d] = "purged"]
                  /\ replicaTest' = [replicaTest EXCEPT !.disks = @ \ {d}]
               \/ vol' = [vol EXCEPT ![d] = "removed"] /\ D!Goto("raised")
         \/ replicaTest.disks = {} /\ D!Goto("returned") /\ UNCHANGED vol
  BY DEF D!DeleteVolume, D!At, D!volume
<1>2. ReplicaTypes /\ ReplicaInv /\ VolumesInv /\ replicaTest \in ReplicaTests
      /\ vol \in [D!Disks -> {"active", "inactive", "removed", "purged"}]
  BY DEF DiskInv, ReplicaTypes, MachineTypes
<1>3. ASSUME replicaTest' \in ReplicaTests, replicaTest'.pc \in {"volumes", "returned", "raised"},
             vol' \in [D!Disks -> {"active", "inactive", "removed", "purged"}], VolumesInv'
      PROVE  DiskInv'
  <2>1. ReplicaTypes'
    BY <1>1, <1>2, <1>3 DEF ReplicaTypes, VolumeTypes, MachineTypes
  <2>2. \A n \in D!Names : UNCHANGED <<Connected(n), Known(n), D!Sound(n)>>
    BY <1>1 DEF Connected, Known, D!Sound
  <2>3. ReplicaInv'
    BY <1>1, <1>2, <1>3, <2>2 DEF ReplicaInv, TakenAway
  <2> QED
    BY <1>3, <2>1, <2>3 DEF DiskInv
<1>4. ASSUME NEW d \in replicaTest.disks, vol' = [vol EXCEPT ![d] = "purged"],
             replicaTest' = [replicaTest EXCEPT !.disks = @ \ {d}]
      PROVE  DiskInv'
  <2>1. /\ replicaTest' \in ReplicaTests /\ replicaTest'.pc = "volumes" /\ d \in D!Disks
        /\ replicaTest'.disks = replicaTest.disks \ {d}
    BY <1>1, <1>2, <1>4 DEF ReplicaTests, ReplicaPlaces
  <2>2. VolumesInv'
    BY <1>1, <1>2, <1>4, <2>1 DEF VolumesInv, Purging
  <2> QED
    BY <1>2, <1>3, <1>4, <2>1, <2>2
<1>5. ASSUME NEW d \in replicaTest.disks, vol' = [vol EXCEPT ![d] = "removed"], D!Goto("raised")
      PROVE  DiskInv'
  <2>1. replicaTest' \in ReplicaTests /\ replicaTest'.pc = "raised" /\ d \in D!Disks
    BY <1>2, <1>5, DiskGoto DEF ReplicaPlaces, ReplicaTests
  <2>2. VolumesInv'
    BY <1>1, <1>2, <1>5, <2>1 DEF VolumesInv, Purging
  <2> QED
    BY <1>2, <1>3, <1>5, <2>1, <2>2
<1>6. ASSUME replicaTest.disks = {}, D!Goto("returned"), UNCHANGED vol
      PROVE  DiskInv'
  <2>1. replicaTest' \in ReplicaTests /\ replicaTest'.pc = "returned"
    BY <1>2, <1>6, DiskGoto DEF ReplicaPlaces
  <2>2. VolumesInv'
    BY <1>1, <1>2, <1>6, <2>1 DEF VolumesInv, Purging
  <2> QED
    BY <1>2, <1>3, <1>6, <2>1, <2>2
<1> QED
  BY <1>1, <1>4, <1>5, <1>6

(* The server and the controller change one replica: what is connected     *)
(* stays so, and what all can rely on stays sound.                         *)
LEMMA OneReplicaStep ==
  ASSUME DiskInv, NEW n \in D!Names, UNCHANGED <<D!machine, replicaTest>>,
         VolumeTypes', replicaFaults' \in 0 .. ReplicaFaults, replicaFaults' = 0 => replicaFaults = 0,
         \A m \in D!Names \ {n} : UNCHANGED <<replica[m], mode[m], data[m]>>,
         replicaFaults' = 0 /\ Connected(n) => /\ Connected(n)'
                                               /\ Known(n) => Known(n)'
                                               /\ D!Sound(n) => D!Sound(n)'
  PROVE  DiskInv'
<1>1. UNCHANGED <<machine, vol, replicaTest>>
  BY DEF D!machine
<1>2. ReplicaTypes'
  BY <1>1 DEF DiskInv, ReplicaTypes, MachineTypes
<1>3. VolumesInv'
  BY <1>1 DEF DiskInv, VolumesInv, Purging
<1>4. ReplicaInv'
  <2> SUFFICES ASSUME replicaFaults' = 0 PROVE ReplicaInv'
    BY DEF ReplicaInv
  <2>1. replicaFaults = 0 /\ ReplicaInv /\ \A m \in D!Names : Connected(m)
    BY DEF DiskInv, ReplicaInv
  <2>2. \A m \in D!Names : Connected(m)' /\ (Known(m) => Known(m)') /\ (D!Sound(m) => D!Sound(m)')
    <3> SUFFICES ASSUME NEW m \in D!Names, m # n
                 PROVE  Connected(m)' /\ (Known(m) => Known(m)') /\ (D!Sound(m) => D!Sound(m)')
      BY <2>1
    <3> QED
      BY <2>1 DEF Connected, Known, D!Sound
  <2> QED
    BY <1>1, <2>1, <2>2 DEF ReplicaInv
<1> QED
  BY <1>2, <1>3, <1>4 DEF DiskInv

LEMMA ReplicaStep ==
  ASSUME DiskInv, D!Replica
  PROVE  DiskInv'
<1>1. UNCHANGED <<D!machine, replicaTest>> /\ VolumeTypes /\ replicaFaults \in 0 .. ReplicaFaults
  BY DEF D!Replica, DiskInv, ReplicaTypes
<1>2. PICK n \in D!Names : D!Reconcile(n) \/ D!Notice(n) \/ D!Join(n) \/ D!RebuildDone(n) \/ D!Fail(n)
  BY DEF D!Replica
<1>3. CASE D!Reconcile(n)
  <2>1. PICK r \in ReplicaStates, known \in BOOLEAN :
           /\ replica[n].state # "running" /\ r.linked = replica[n].linked
           /\ replica' = [replica EXCEPT ![n] = r] /\ data' = [data EXCEPT ![n] = known]
           /\ UNCHANGED <<mode, replicaFaults>>
    <3>1. CASE /\ replica[n].state # "running" /\ data' = [data EXCEPT ![n] = FALSE]
               /\ replica' = [replica EXCEPT ![n].state = "running", ![n].address = @ + 2]
      <4> DEFINE place == replica[n].address + 2
                 r == [replica[n] EXCEPT !.state = "running", !.address = place]
      <4>0. replica[n] \in ReplicaStates /\ place \in Nat
        BY <1>1 DEF VolumeTypes, ReplicaStates
      <4> HIDE DEF place
      <4>1. r \in ReplicaStates /\ r.linked = replica[n].linked
        BY <4>0 DEF ReplicaStates
      <4>2. replica' = [replica EXCEPT ![n] = r]
        BY <1>1, <3>1, <4>0 DEF VolumeTypes, ReplicaStates, place
      <4> HIDE DEF r
      <4> QED
        BY <1>3, <3>1, <4>1, <4>2 DEF D!Reconcile
    <3>2. CASE /\ replica[n].state = "stopped" /\ replica' = [replica EXCEPT ![n].state = "running"]
               /\ UNCHANGED data
      <4> DEFINE r == [replica[n] EXCEPT !.state = "running"]
      <4>1. r \in ReplicaStates /\ r.linked = replica[n].linked
        BY <1>1 DEF VolumeTypes, ReplicaStates
      <4>2. replica' = [replica EXCEPT ![n] = r] /\ data' = [data EXCEPT ![n] = data[n]]
        BY <1>1, <3>2 DEF VolumeTypes, ReplicaStates
      <4>3. data[n] \in BOOLEAN
        BY <1>1 DEF VolumeTypes
      <4> HIDE DEF r
      <4> QED
        BY <1>3, <3>2, <4>1, <4>2, <4>3 DEF D!Reconcile
    <3> QED
      BY <1>3, <3>1, <3>2 DEF D!Reconcile
  <2>2. VolumeTypes' /\ replica'[n].linked = replica[n].linked
    BY <1>1, <2>1 DEF VolumeTypes
  <2>3. \A m \in D!Names \ {n} : UNCHANGED <<replica[m], mode[m], data[m]>>
    BY <1>1, <2>1 DEF VolumeTypes
  <2>4. Connected(n) => Connected(n)' /\ (Known(n) => Known(n)') /\ (D!Sound(n) => D!Sound(n)')
    BY <2>1, <2>2 DEF Connected, Known, D!Sound
  <2> QED
    BY <1>1, <2>1, <2>2, <2>3, <2>4, OneReplicaStep
<1>4. CASE D!Notice(n)
  <2>1. /\ ~replica[n].linked /\ UNCHANGED <<replica, data, replicaFaults>>
        /\ mode' = [mode EXCEPT ![n].mode = "ERR"]
    BY <1>4 DEF D!Notice
  <2>2. VolumeTypes' /\ mode'[n].mode = "ERR"
    BY <1>1, <2>1 DEF VolumeTypes, ReplicaModes
  <2>3. \A m \in D!Names \ {n} : UNCHANGED <<replica[m], mode[m], data[m]>>
    BY <1>1, <2>1 DEF VolumeTypes
  <2>4. Connected(n) => Connected(n)' /\ (Known(n) => Known(n)') /\ (D!Sound(n) => D!Sound(n)')
    BY <2>1, <2>2 DEF Connected, Known, D!Sound
  <2> QED
    BY <1>1, <2>1, <2>2, <2>3, <2>4, OneReplicaStep
<1>5. CASE D!Join(n)
  <2>1. /\ replica[n].state = "running" /\ ~replica[n].linked /\ UNCHANGED <<data, replicaFaults>>
        /\ replica' = [replica EXCEPT ![n].linked = TRUE]
        /\ mode' = [mode EXCEPT ![n] = [address |-> replica[n].address, mode |-> "WO"]]
    BY <1>5 DEF D!Join
  <2>2. VolumeTypes' /\ mode'[n].mode = "WO" /\ replica'[n].state = "running"
    BY <1>1, <2>1 DEF VolumeTypes, ReplicaStates, ReplicaModes
  <2>3. \A m \in D!Names \ {n} : UNCHANGED <<replica[m], mode[m], data[m]>>
    BY <1>1, <2>1 DEF VolumeTypes
  <2>4. Connected(n) => Connected(n)' /\ (Known(n) => Known(n)') /\ (D!Sound(n) => D!Sound(n)')
    BY <2>1, <2>2 DEF Connected, Known, D!Sound
  <2> QED
    BY <1>1, <2>1, <2>2, <2>3, <2>4, OneReplicaStep
<1>6. CASE D!RebuildDone(n)
  <2>1. /\ replica[n].linked /\ UNCHANGED <<replica, replicaFaults>>
        /\ mode' = [mode EXCEPT ![n].mode = "RW"] /\ data' = [data EXCEPT ![n] = TRUE]
    BY <1>6 DEF D!RebuildDone
  <2>2. VolumeTypes' /\ mode'[n].mode = "RW" /\ data'[n]
    BY <1>1, <2>1 DEF VolumeTypes, ReplicaModes
  <2>3. \A m \in D!Names \ {n} : UNCHANGED <<replica[m], mode[m], data[m]>>
    BY <1>1, <2>1 DEF VolumeTypes
  <2>4. Connected(n) => Connected(n)' /\ (Known(n) => Known(n)') /\ (D!Sound(n) => D!Sound(n)')
    BY <2>1, <2>2 DEF Connected, Known, D!Sound
  <2> QED
    BY <1>1, <2>1, <2>2, <2>3, <2>4, OneReplicaStep
<1>7. CASE D!Fail(n)
  <2>1. /\ replicaFaults < ReplicaFaults /\ replicaFaults' = replicaFaults + 1
        /\ replica' = [replica EXCEPT ![n].state = "stopped", ![n].linked = FALSE]
        /\ UNCHANGED <<mode, data>>
    BY <1>7 DEF D!Fail
  <2>2. replicaFaults' \in 0 .. ReplicaFaults /\ replicaFaults' # 0
    BY <1>1, <2>1, ReplicaBounds DEF D!Bounds
  <2>3. VolumeTypes' /\ \A m \in D!Names \ {n} : UNCHANGED <<replica[m], mode[m], data[m]>>
    <3> DEFINE r == [replica[n] EXCEPT !.state = "stopped", !.linked = FALSE]
    <3>1. r \in ReplicaStates
      BY <1>1 DEF VolumeTypes, ReplicaStates
    <3>2. replica' = [replica EXCEPT ![n] = r]
      BY <1>1, <2>1 DEF VolumeTypes, ReplicaStates
    <3> HIDE DEF r
    <3> QED
      BY <1>1, <2>1, <3>1, <3>2 DEF VolumeTypes
  <2> QED
    BY <1>1, <2>2, <2>3, OneReplicaStep
<1> QED
  BY <1>2, <1>3, <1>4, <1>5, <1>6, <1>7

LEMMA ReleaseStep ==
  ASSUME DiskInv, D!Release
  PROVE  DiskInv'
<1>1. /\ UNCHANGED <<replica, mode, data, replicaFaults, replicaTest>> /\ machine \in {"removed", "purging"}
      /\ \/ machine = "removed" /\ machine' = "purging" /\ UNCHANGED vol
         \/ \E d \in D!Disks : /\ vol[d] = "active" /\ vol' = [vol EXCEPT ![d] = "inactive"]
                               /\ UNCHANGED machine
         \/ /\ machine = "purging" /\ \A d \in D!Disks : vol[d] # "active"
            /\ machine' = "purged" /\ UNCHANGED vol
  BY DEF D!Release, D!volume
<1>2. ReplicaTypes /\ ReplicaInv /\ VolumesInv
  BY DEF DiskInv
<1>3. ReplicaTypes'
  BY <1>1, <1>2 DEF ReplicaTypes, VolumeTypes, MachineTypes
<1>4. ReplicaInv'
  <2>1. \A n \in D!Names : UNCHANGED <<Connected(n), Known(n), D!Sound(n)>>
    BY <1>1 DEF Connected, Known, D!Sound
  <2> QED
    BY <1>1, <1>2, <2>1 DEF ReplicaInv
<1>5. VolumesInv'
  BY <1>1, <1>2 DEF VolumesInv, Purging, ReplicaTypes, MachineTypes
<1> QED
  BY <1>3, <1>4, <1>5 DEF DiskInv

LEMMA DiskStep ==
  ASSUME DiskInv, [D!Next]_replicas
  PROVE  DiskInv'
<1>1. CASE UNCHANGED replicas
  <2>1. UNCHANGED <<replica, mode, data, machine, vol, replicaTest, replicaFaults>>
    BY <1>1 DEF replicas
  <2>2. ReplicaTypes' /\ VolumesInv'
    BY <2>1 DEF DiskInv, ReplicaTypes, VolumeTypes, MachineTypes, VolumesInv, Purging
  <2>3. \A n \in D!Names : UNCHANGED <<Connected(n), Known(n), D!Sound(n)>>
    BY <2>1 DEF Connected, Known, D!Sound
  <2>4. ReplicaInv'
    BY <2>1, <2>3 DEF DiskInv, ReplicaInv
  <2> QED
    BY <2>2, <2>4 DEF DiskInv
<1> QED
  BY <1>1, ListReplicasStep, DeleteReplicaStep, KillProcessStep, WriteStep, RebuildStep,
     DeleteVmStep, DeleteVolumeStep, ReplicaStep, ReleaseStep DEF D!Next, D!Test

LEMMA DiskFollows == DiskInv => D!TypeOK /\ D!ReplicaLeft /\ D!RemovedMeansPurged
<1> SUFFICES ASSUME DiskInv PROVE D!TypeOK /\ D!ReplicaLeft /\ D!RemovedMeansPurged
  OBVIOUS
<1>1. D!TypeOK
  BY DEF DiskInv, ReplicaTypes, VolumeTypes, MachineTypes, D!TypeOK, ReplicaStates, ReplicaModes,
     ReplicaTests, ReplicaPlaces
<1>2. D!ReplicaLeft /\ D!RemovedMeansPurged
  BY DEF DiskInv, ReplicaInv, VolumesInv, D!ReplicaLeft, D!RemovedMeansPurged, D!At
<1> QED
  BY <1>1, <1>2

-----------------------------------------------------------------------------
(* The parts together: each is as it is left alone, or makes a step.       *)

Inv == /\ SessionInv /\ RecipeInv /\ ServiceInv /\ KubeInv
       /\ SetupInv /\ VmInv /\ DiskInv

LEMMA Invariance == Spec => []Inv
<1>1. Init => Inv
  BY SessionInit, RecipeInit, ServiceInit, KubeInit, SetupInit, VmInit, DiskInit DEF Init, Inv
<1>2. Inv /\ [Next]_vars => Inv'
  <2> SUFFICES ASSUME Inv, [Next]_vars PROVE Inv'
    OBVIOUS
  <2>1. /\ SessionInv /\ RecipeInv /\ ServiceInv /\ KubeInv
        /\ SetupInv /\ VmInv /\ DiskInv
    BY DEF Inv
  <2>2. /\ [S!Next]_sessions /\ [R!Next]_recipes /\ [F!Next]_services /\ [K!Next]_kubectl
        /\ [L!Next]_longhorn /\ [V!Next]_snapshots /\ [D!Next]_replicas
    <3>1. CASE Helpers
      BY <3>1 DEF Helpers, machines
    <3>2. CASE Machines
      BY <3>2 DEF Machines, helpers
    <3>3. CASE UNCHANGED vars
      BY <3>3 DEF vars, helpers, machines
    <3> QED
      BY <3>1, <3>2, <3>3 DEF Next
  <2>3. SessionInv' /\ RecipeInv' /\ ServiceInv' /\ KubeInv'
    BY <2>1, <2>2, SessionStep, RecipeStep, ServiceStep, KubeStep
  <2>4. SetupInv' /\ VmInv' /\ DiskInv'
    BY <2>1, <2>2, SetupStep, VmStep, DiskStep
  <2> QED
    BY <2>3, <2>4 DEF Inv
<1> QED
  BY <1>1, <1>2, PTL DEF Spec

(***************************************************************************)
(* What the fixtures, the helpers, the server, the cluster and the volumes *)
(* keep has its type, in every part.                                       *)
(***************************************************************************)
THEOREM TypeCorrect == Spec => []TypeOK
<1>1. Inv => TypeOK
  BY SessionFollows, RecipeFollows, ServiceFollows, KubeFollows, SetupFollows, VmFollows,
     DiskFollows DEF Inv, TypeOK
<1> QED
  BY <1>1, Invariance, PTL

(***************************************************************************)
(* The session fixtures and setup_longhorn, for any fixtures and hosts and *)
(* any number of sessions: what a session leaves behind is of a fixture    *)
(* that failed or was killed, a fixture in which nothing goes wrong fails  *)
(* only after that or if the finalizer before did not wait, and a session  *)
(* whose setup_longhorn returned has all of Longhorn unless an earlier one *)
(* broke off between a setting and what it stands for.                     *)
(***************************************************************************)
THEOREM SessionsStaySeparate == Spec => []SessionsAreSeparate
<1>1. Inv => SessionsAreSeparate
  BY SessionFollows, SetupFollows DEF Inv, SessionsAreSeparate
<1> QED
  BY <1>1, Invariance, PTL

(***************************************************************************)
(* The create_env helpers, for any number of services behind the load      *)
(* balancer and any number of calls: one that raises met a failure, a      *)
(* server that was done with the stack too early, the port rules that a    *)
(* call before had changed, or a single active host where it wants two;    *)
(* one that activates and returns has its services and its load balancer   *)
(* active.                                                                 *)
(***************************************************************************)
THEOREM RecipesEndActive == Spec => []RecipesActivate
<1>1. Inv => RecipesActivate
  BY RecipeFollows DEF Inv, RecipesActivate
<1> QED
  BY <1>1, Invariance, PTL

(***************************************************************************)
(* delete_instances, stop_containers, restart_containers and               *)
(* wait_for_scale_to_adjust return with the service at its scale, whatever *)
(* its scale and however the server replaces containers, but for the       *)
(* unmanaged ones that are counted too; check_round_robin_access_lb_ip     *)
(* passes only a load balancer that serves the containers listed, no other *)
(* and no fewer than the scale, unless it was reloaded between requests.   *)
(***************************************************************************)
THEOREM ServicesComeBack == Spec => []ServicesAreRestored
<1>1. Inv => ServicesAreRestored
  BY ServiceFollows DEF Inv, ServicesAreRestored
<1> QED
  BY <1>1, Invariance, PTL

(***************************************************************************)
(* teardown_ns, cleanup_k8s, waitfor_delete and delete_ingress return only *)
(* when what they delete is gone, unless a poll failed and so found        *)
(* nothing, whichever names contain each other; cleanup_k8s raises only if *)
(* a command failed, a deletion took too long or the name of a namespace   *)
(* is a part of another's.                                                 *)
(***************************************************************************)
THEOREM DeletedIsGone == Spec => []DeletedMeansGone
<1>1. Inv => DeletedMeansGone
  BY KubeFollows DEF Inv, DeletedMeansGone
<1> QED
  BY <1>1, Invariance, PTL

(***************************************************************************)
(* revert_volume_to_snapshot_for_vm_service and its sibling for backups,   *)
(* for any number of snapshots and calls: what passes left the volume with *)
(* the files of its snapshot, unless the data disk was never written to,   *)
(* and a test raises only after a failure.                                 *)
(***************************************************************************)
THEOREM DiskIsTakenBack == Spec => []VolumeIsTakenBack
<1>1. Inv => VolumeIsTakenBack
  BY VmFollows DEF Inv, VolumeIsTakenBack
<1> QED
  BY <1>1, Invariance, PTL

(***************************************************************************)
(* The tests that delete or kill the replicas of a VM's disk, for any      *)
(* number of rounds: a replica with all data stays as long as none fails   *)
(* on its own, and a VM removed has no volume left.                        *)
(***************************************************************************)
THEOREM AReplicaIsLeft == Spec => []ReplicaLeftAndRemoved
<1>1. Inv => ReplicaLeftAndRemoved
  BY DiskFollows DEF Inv, ReplicaLeftAndRemoved
<1> QED
  BY <1>1, Invariance, PTL
===========================================================================
