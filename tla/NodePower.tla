------------------------------ MODULE NodePower ------------------------------
(***************************************************************************)
(* Who switches the cluster's nodes off and on: the robot keywords, which  *)
(* record the nodes they take down in @{powered_off_nodes}; the teardown,  *)
(* which brings the recorded ones back; and the node monitor, a background *)
(* thread that powers on every worker it cannot reach over SSH and does    *)
(* not find in that list.                                                  *)
(*                                                                         *)
(*   keywords      e2e/keywords/host.resource, workload.resource           *)
(*   teardown      e2e/keywords/common.resource                            *)
(*   monitor       e2e/libs/keywords/host_keywords.py                      *)
(*   power calls   e2e/libs/host/harvester.py                              *)
(*                                                                         *)
(* A keyword is the sequence of the calls it makes; other threads and the  *)
(* virtual machines move between any two of them.                          *)
(***************************************************************************)
EXTENDS Naturals, FiniteSets, Sequences, SequencesExt

CONSTANTS
    Nodes, Workers,
    MaxTests,      \* bound: tests run
    MaxKeywords,   \* bound: power keywords in all the tests
    MaxCrashes,    \* bound: VMs that go down by themselves
    MaxFailures    \* bound: calls to the VM provider or over SSH that fail

ASSUME NodesAssumption == IsFiniteSet(Nodes)
ASSUME WorkersAssumption == Workers \subseteq Nodes /\ Workers # {}
ASSUME BoundAssumption == {MaxTests, MaxKeywords, MaxCrashes, MaxFailures} \subseteq Nat

VARIABLES
    vm,          \* what each VM does; "stopping": asked to stop, still reported Running
    volumeNode,  \* the node the workload's volume is attached to
    off,         \* ${powered_off_nodes}
    phase,       \* "idle" between tests, then "test", then "teardown"
    script,      \* the calls the running keyword has still to make
    mon,         \* the monitor thread: pc, worker nodes to visit, node at hand
    confirmed,   \* history: listed nodes a test saw down and has not started since
    overlap,     \* history: nodes listed after the monitor had looked for them
    bound        \* how much of each bound is used

vars == <<vm, volumeNode, off, phase, script, mon, confirmed, overlap, bound>>

Calls == [do : {"append", "remove", "stop", "stopVolumeNode", "wait", "start", "tryStart"},
          node : Nodes]

TypeOK == /\ vm \in [Nodes -> {"running", "stopping", "stopped", "starting"}]
          /\ volumeNode \in Nodes
          /\ off \in Seq(Nodes)
          /\ phase \in {"idle", "test", "teardown"}
          /\ script \in Seq(Calls)
          /\ mon \in [pc : {"none", "sleep", "check", "ssh", "power"},
                     todo : SUBSET Workers, node : Workers]
          /\ confirmed \subseteq Nodes /\ overlap \subseteq Workers
          /\ bound \in [tests : 0 .. MaxTests, keywords : 0 .. MaxKeywords,
                       crashes : 0 .. MaxCrashes, failures : 0 .. MaxFailures]

Init == /\ vm = [n \in Nodes |-> "running"]
        /\ volumeNode \in Workers
        /\ off = <<>>
        /\ phase = "idle"
        /\ script = <<>>
        /\ mon = [pc |-> "none", todo |-> {}, node |-> CHOOSE n \in Workers : TRUE]
        /\ confirmed = {} /\ overlap = {}
        /\ bound = [tests |-> 0, keywords |-> 0, crashes |-> 0, failures |-> 0]

Listed(n) == n \in Range(off)

Spend(what) == bound' = [bound EXCEPT ![what] = @ + 1]

Fail == bound.failures < MaxFailures /\ Spend("failures")

-----------------------------------------------------------------------------
(* The keywords, as the calls they make.                                   *)

Do(what, n) == [do |-> what, node |-> n]

Each(what, nodes) == [i \in DOMAIN nodes |-> Do(what, nodes[i])]

(* Two calls per node, for one node after the other.                       *)
EachTwice(first, second, nodes) ==
    [i \in 1 .. 2 * Len(nodes) |-> IF i % 2 = 1 THEN Do(first, nodes[(i + 1) \div 2])
                                                ELSE Do(second, nodes[i \div 2])]

(* reboot_node, reboot_all_worker_nodes and reboot_all_nodes: all of them  *)
(* down one after the other, the downtime, all of them up.                 *)
RebootNodes(nodes) == EachTwice("stop", "wait", nodes) \o Each("start", nodes)

(* Power off node / volume node / replica node, with and without waiting.  *)
PowerOff(n) == <<Do("append", n), Do("stop", n), Do("wait", n)>>
PowerOffWithoutWaiting(n) == <<Do("append", n), Do("stop", n)>>

(* The workload variants look the volume's node up once for the list and   *)
(* once more in power_off_volume_node.                                     *)
PowerOffVolumeNode == <<Do("append", volumeNode), Do("stopVolumeNode", volumeNode)>>

(* Power off node N for M mins, and all worker nodes for M mins.           *)
PowerOffFor(nodes) == Each("append", nodes) \o RebootNodes(nodes) \o Each("remove", nodes)

PowerOnNode(n) == <<Do("start", n), Do("remove", n)>>

(* Slip for PowerOnList: removing from the list being walked skips every   *)
(* other node.                                                             *)
PowerOnWhileRemoving(list) ==
    EachTwice("tryStart", "remove", [i \in 1 .. (Len(list) + 1) \div 2 |-> list[2 * i - 1]])

(* Power on off nodes, and the loop of Cleanup test resources: over a copy *)
(* of the list, ignoring the errors of power_on_node.                      *)
PowerOnList(list) == EachTwice("tryStart", "remove", list)

Keywords == {PowerOff(n) : n \in Workers}
            \cup {PowerOffWithoutWaiting(n) : n \in Workers}
            \cup {PowerOffVolumeNode}
            \cup {PowerOffFor(<<n>>) : n \in Workers}
            \cup {PowerOffFor(SetToSeq(Workers))}
            \cup {RebootNodes(<<n>>) : n \in Workers}
            \cup {RebootNodes(SetToSeq(Workers)), RebootNodes(SetToSeq(Nodes))}
            \cup {PowerOnNode(n) : n \in Workers}
            \cup {PowerOnList(off)}

-----------------------------------------------------------------------------
(* The robot thread: tests, keywords and teardown.                         *)

(* Set up test environment calls start_node_monitoring, which leaves a     *)
(* running thread alone.                                                   *)
StartTest == /\ phase = "idle" /\ bound.tests < MaxTests
             /\ phase' = "test"
             /\ mon' = IF mon.pc = "none" THEN [mon EXCEPT !.pc = "sleep"] ELSE mon
             /\ Spend("tests")
             /\ UNCHANGED <<vm, volumeNode, off, script, confirmed, overlap>>

RunKeyword == /\ phase = "test" /\ script = <<>> /\ bound.keywords < MaxKeywords
              /\ script' \in Keywords
              /\ Spend("keywords")
              /\ UNCHANGED <<vm, volumeNode, off, phase, mon, confirmed, overlap>>

BeginTeardown == /\ phase' = "teardown"
                 /\ script' = PowerOnList(off)

EndTest == /\ phase = "test" /\ script = <<>>
           /\ BeginTeardown
           /\ UNCHANGED <<vm, volumeNode, off, mon, confirmed, overlap, bound>>

EndTeardown == /\ phase = "teardown" /\ script = <<>>
               /\ phase' = "idle"
               /\ UNCHANGED <<vm, volumeNode, off, script, mon, confirmed, overlap, bound>>

-----------------------------------------------------------------------------
(* The calls of a keyword.                                                 *)

NextCall(what, n) == script # <<>> /\ Head(script) = Do(what, n)

Done == script' = Tail(script) /\ UNCHANGED phase

(* The monitor is past its look at the list for node n.                    *)
PastCheck(n) == mon.node = n /\ mon.pc \in {"ssh", "power"}

AppendToList(n) == /\ NextCall("append", n)
                   /\ off' = Append(off, n)
                   /\ overlap' = IF PastCheck(n) /\ ~Listed(n) THEN overlap \cup {n}
                                                               ELSE overlap
                   /\ Done
                   /\ UNCHANGED <<vm, volumeNode, mon, confirmed, bound>>

(* Robot's Remove Values From List: the others stay, in their order.       *)
Without(list, n) ==
    LET kept == {i \in DOMAIN list : list[i] # n}
        Rank(i) == Cardinality({j \in kept : j <= i})
    IN  [k \in 1 .. Cardinality(kept) |-> list[CHOOSE i \in kept : Rank(i) = k]]

RemoveFromList(n) == /\ NextCall("remove", n)
                     /\ off' = Without(off, n)
                     /\ overlap' = overlap \ {n}
                     /\ confirmed' = confirmed \ {n}
                     /\ Done
                     /\ UNCHANGED <<vm, volumeNode, mon, bound>>

(* power_off_volume_node resolves the volume's node once more.             *)
StopVolumeNode(n) ==
    /\ NextCall("stopVolumeNode", n)
    /\ \E waiting \in BOOLEAN :
          script' = <<Do("stop", volumeNode)>>
                    \o (IF waiting THEN <<Do("wait", volumeNode)>> ELSE <<>>)
                    \o Tail(script)
    /\ UNCHANGED <<vm, volumeNode, off, phase, mon, confirmed, overlap, bound>>

(* The stop request is retried; when no attempt is accepted the loop ends  *)
(* without an error.  A VM that is down refuses it.                        *)
StopNode(n) ==
    /\ NextCall("stop", n)
    /\ \/ /\ vm[n] \in {"running", "starting"}
          /\ vm' = [vm EXCEPT ![n] = "stopping"]
          /\ UNCHANGED bound
       \/ /\ (vm[n] \in {"stopped", "stopping"} /\ UNCHANGED bound) \/ Fail
          /\ UNCHANGED vm
    /\ Done
    /\ UNCHANGED <<volumeNode, off, mon, confirmed, overlap>>

WaitStopped(n) == /\ NextCall("wait", n)
                  /\ vm[n] = "stopped"
                  /\ confirmed' = IF Listed(n) THEN confirmed \cup {n} ELSE confirmed
                  /\ Done
                  /\ UNCHANGED <<vm, volumeNode, off, mon, overlap, bound>>

(* Slip for WaitTimesOut: no limit on the wait for Stopped.                *)
WaitUnbounded(n) == /\ NextCall("wait", n)
                    /\ Fail
                    /\ BeginTeardown
                    /\ UNCHANGED <<vm, volumeNode, off, mon, confirmed, overlap>>

(* The VM is not seen Stopped in time, or its node stays Ready: the test   *)
(* fails and its teardown begins.                                          *)
WaitTimesOut(n) == /\ NextCall("wait", n)
                   /\ (vm[n] # "stopped" /\ UNCHANGED bound) \/ Fail
                   /\ BeginTeardown
                   /\ UNCHANGED <<vm, volumeNode, off, mon, confirmed, overlap>>

(* One round of power_on_node: ask for a start, then look at the status.   *)
PostStart(n) == /\ vm[n] = "stopped"
                /\ vm' = [vm EXCEPT ![n] = "starting"]

ReportedRunning(n) == vm[n] \in {"running", "stopping"}

StartCalled(n) == NextCall("start", n) \/ NextCall("tryStart", n)

StartPosted(n) == /\ StartCalled(n)
                  /\ PostStart(n)
                  /\ confirmed' = confirmed \ {n}
                  /\ UNCHANGED <<volumeNode, off, phase, script, mon, overlap, bound>>

StartReturns(n) == /\ StartCalled(n)
                   /\ ReportedRunning(n)
                   /\ confirmed' = confirmed \ {n}
                   /\ Done
                   /\ UNCHANGED <<vm, volumeNode, off, mon, overlap, bound>>

(* No attempt sees the VM Running, or its node does not become Ready.      *)
StartFails(n) == /\ StartCalled(n)
                 /\ Fail
                 /\ confirmed' = confirmed \ {n}
                 /\ IF NextCall("start", n) THEN BeginTeardown ELSE Done
                 /\ UNCHANGED <<vm, volumeNode, off, mon, overlap>>

Call(n) == \/ AppendToList(n) \/ RemoveFromList(n) \/ StopVolumeNode(n)
           \/ StopNode(n) \/ WaitStopped(n) \/ WaitTimesOut(n)
           \/ StartPosted(n) \/ StartReturns(n) \/ StartFails(n)

-----------------------------------------------------------------------------
(* The node monitor, _monitor_worker_nodes.                                *)

MonStays == UNCHANGED <<volumeNode, off, phase, script, confirmed, overlap>>

(* Slip for MonWake: it visits the nodes of every role.                    *)
MonWakeAllRoles == /\ mon.pc = "sleep"
                   /\ mon' = [mon EXCEPT !.pc = "check", !.todo = Nodes]
                   /\ UNCHANGED <<vm, bound>> /\ MonStays

(* After CHECK_INTERVAL_SECONDS, list the workers.  A failure to list them *)
(* goes back to sleep and changes nothing.                                 *)
MonWake == /\ mon.pc = "sleep"
           /\ mon' = [mon EXCEPT !.pc = "check", !.todo = Workers]
           /\ UNCHANGED <<vm, bound>> /\ MonStays

(* Slip for MonCheck: the list is not consulted.                           *)
MonCheckIgnoresList(n) ==
    /\ mon.pc = "check" /\ n \in mon.todo
    /\ mon' = [pc |-> "ssh", todo |-> mon.todo \ {n}, node |-> n]
    /\ UNCHANGED <<vm, bound>> /\ MonStays

MonCheck(n) == /\ mon.pc = "check" /\ n \in mon.todo
               /\ mon' = [pc   |-> IF Listed(n) THEN "check" ELSE "ssh",
                          todo |-> mon.todo \ {n},
                          node |-> n]
               /\ UNCHANGED <<vm, bound>> /\ MonStays

MonRoundEnds == /\ mon.pc = "check" /\ mon.todo = {}
                /\ mon' = [mon EXCEPT !.pc = "sleep"]
                /\ UNCHANGED <<vm, bound>> /\ MonStays

MonSsh == /\ mon.pc = "ssh"
          /\ \/ /\ vm[mon.node] \in {"running", "stopping"}
                /\ mon' = [mon EXCEPT !.pc = "check"]
                /\ UNCHANGED bound
             \/ /\ (vm[mon.node] # "running" /\ UNCHANGED bound) \/ Fail
                /\ mon' = [mon EXCEPT !.pc = "power"]
          /\ UNCHANGED vm /\ MonStays

MonPosts == /\ mon.pc = "power"
            /\ PostStart(mon.node)
            /\ UNCHANGED <<mon, bound>> /\ MonStays

MonStarted == /\ mon.pc = "power"
              /\ ReportedRunning(mon.node)
              /\ mon' = [mon EXCEPT !.pc = "check"]
              /\ UNCHANGED <<vm, bound>> /\ MonStays

(* Slip for MonGivesUp: the error of power_on_node ends the thread.        *)
MonDies == /\ mon.pc = "power"
           /\ Fail
           /\ mon' = [mon EXCEPT !.pc = "none"]
           /\ UNCHANGED vm /\ MonStays

(* Every error of power_on_node is swallowed.                              *)
MonGivesUp == /\ mon.pc = "power"
              /\ Fail
              /\ mon' = [mon EXCEPT !.pc = "check"]
              /\ UNCHANGED vm /\ MonStays

Monitor == \/ MonWake \/ MonRoundEnds \/ MonSsh
           \/ MonPosts \/ MonStarted \/ MonGivesUp
           \/ \E n \in Workers : MonCheck(n)

-----------------------------------------------------------------------------
(* The virtual machines and the cluster on them (external).                *)

VmStops(n) == vm[n] = "stopping" /\ vm' = [vm EXCEPT ![n] = "stopped"]
VmBoots(n) == vm[n] = "starting" /\ vm' = [vm EXCEPT ![n] = "running"]

VmMoves(n) == /\ VmStops(n) \/ VmBoots(n)
              /\ UNCHANGED <<volumeNode, off, phase, script, mon, confirmed, overlap, bound>>

VmCrashes(n) == /\ vm[n] = "running" /\ bound.crashes < MaxCrashes
                /\ vm' = [vm EXCEPT ![n] = "stopped"]
                /\ Spend("crashes")
                /\ UNCHANGED <<volumeNode, off, phase, script, mon, confirmed, overlap>>

(* The workload of a node that goes away is rescheduled with its volume.   *)
VolumeMoves == /\ vm[volumeNode] \in {"stopping", "stopped"}
               /\ \E n \in Workers \ {volumeNode} : volumeNode' = n
               /\ UNCHANGED <<vm, off, phase, script, mon, confirmed, overlap, bound>>

-----------------------------------------------------------------------------
Main == EndTest \/ EndTeardown \/ \E n \in Nodes : Call(n)

Next == \/ StartTest \/ RunKeyword \/ Main
        \/ Monitor
        \/ VolumeMoves
        \/ \E n \in Nodes : VmMoves(n) \/ VmCrashes(n)

(* Both threads keep running, and a VM that stops or boots gets there.     *)
Fairness == /\ WF_vars(Main) /\ WF_vars(Monitor)
            /\ \A n \in Nodes : WF_vars(VmMoves(n))

Spec == Init /\ [][Next]_vars /\ Fairness

-----------------------------------------------------------------------------
(* Properties.                                                             *)

(* A node that a test listed and saw down stays down until the test starts *)
(* it: the monitor only spoils this when it had looked for the node in the *)
(* list before the test put it there, and is still at work on that node.   *)
ListedNodeStaysDown ==
    \A n \in confirmed : vm[n] # "stopped" => n \in overlap

(* A test never begins with nodes in the list: whatever the previous test  *)
(* did, and wherever it failed, its teardown takes every node off the list *)
(* even when it cannot be powered on.                                      *)
TestsStartWithEmptyList == phase = "idle" => off = <<>>

(* A worker that is down and not in the list, because it crashed or        *)
(* because a power-on returned while the VM was still going down, is       *)
(* brought back by the monitor (or taken down on purpose meanwhile).       *)
UnlistedWorkersComeBack ==
    \A n \in Workers :
        (mon.pc # "none" /\ vm[n] = "stopped" /\ ~Listed(n))
            ~> (vm[n] = "running" \/ Listed(n))

(* The test thread never hangs on a node: every test reaches its end.      *)
TestsEnd == phase # "idle" ~> phase = "idle"
=============================================================================
