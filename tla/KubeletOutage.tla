--------------------------- MODULE KubeletOutage ---------------------------
(***************************************************************************)
(* src/e2e: the keywords that stop the kubelet of one node or of several   *)
(* and start it again after a downtime (restart_kubelet and restart_       *)
(* kubelet_on_nodes of libs/keywords/k8s_keywords.py, stop_kubelet and     *)
(* start_kubelet of libs/k8s/k8s.py), under the tests of                   *)
(* tests/negative/service_restart.robot.  With wait=False a thread ends    *)
(* the outage, which nobody joins; neither a test's set-up nor its         *)
(* teardown looks at a kubelet.  Kubernetes and Longhorn learn in their    *)
(* own time whether a kubelet runs.  Every node has a replica of each      *)
(* volume, so a volume is healthy when all nodes are seen up.              *)
(***************************************************************************)
EXTENDS Integers, SequencesExt

CONSTANTS
    Nodes,
    LastTest,      \* tests of the suite
    LOOP_COUNT,
    MaxOutages,    \* bound of all outages
    MaxFaults      \* ssh commands that fail

Bounds == {LastTest, LOOP_COUNT, MaxOutages} \subseteq Nat \ {0} /\ MaxFaults \in Nat

VARIABLES
    kubelet,       \* whether it runs on a node
    seen,          \* whether the node counts as ready
    outage,        \* the outages in the order they began
    test,          \* the robot thread
    broken,        \* tests that failed
    cutShort,      \* outages a node of which was started by another one, and that one
    faults

vars == <<kubelet, seen, outage, test, broken, cutShort, faults>>

Outages == DOMAIN outage
Tests == 1 .. LastTest
Pairs == Nodes \X Nodes
NodeLists == {<<n>> : n \in Nodes} \cup Pairs
Outage == [node_list : NodeLists, todo : {<<>>} \cup NodeLists, wait : BOOLEAN, test : Tests,
           state : {"stopping", "sleeping", "starting", "ended", "failed"}]

TypeOK ==
    /\ {kubelet, seen} \subseteq [Nodes -> {"up", "down"}]
    /\ outage \in Seq(Outage)
    /\ Len(outage) <= MaxOutages
    /\ test \in [no : Tests, round : 1 .. LOOP_COUNT, wait : BOOLEAN,
                 pc : {"begin", "stop", "join", "unknown", "degraded", "healthy0", "healthy1", "end"}]
    /\ broken \subseteq Tests /\ cutShort \subseteq Outages \X Outages
    /\ faults \in 0 .. MaxFaults

Init == /\ kubelet = [n \in Nodes |-> "up"] /\ seen = kubelet
        /\ outage = <<>> /\ broken = {} /\ cutShort = {} /\ faults = 0
        /\ \E w \in BOOLEAN : test = [no |-> 1, round |-> 1, wait |-> w, pc |-> "begin"]

At(pc) == test.pc = pc
Goto(pc) == test' = [test EXCEPT !.pc = pc]
Current == outage[Len(outage)]
Fault == faults < MaxFaults /\ faults' = faults + 1

(* The test fails: its teardown does not touch the kubelets. *)
TestFails == Goto("end") /\ broken' = broken \cup {test.no}

-----------------------------------------------------------------------------
(***************************************************************************)
(* One node, or those of two workloads' volumes: a node that has both is   *)
(* listed twice.  The tests with wait=False name two workloads.            *)
(***************************************************************************)
BeginOutage ==
    /\ At("begin") /\ Len(outage) < MaxOutages /\ Goto("stop") /\ UNCHANGED <<kubelet, seen, broken, cutShort, faults>>
    /\ \E list \in IF test.wait THEN NodeLists ELSE Pairs :
          outage' = Append(outage, [node_list |-> list, todo |-> list, wait |-> test.wait,
                                    test |-> test.no, state |-> "stopping"])

(* stop_kubelet, in the robot thread; after the last node a thread is started or not. *)
StopKubelet ==
    /\ At("stop") /\ UNCHANGED <<seen, cutShort>>
    /\ LET o == Len(outage)
           n == Head(Current.todo)
       IN \/ /\ kubelet' = [kubelet EXCEPT ![n] = "down"] /\ UNCHANGED <<broken, faults>>
             /\ IF Len(Current.todo) > 1
                THEN outage' = [outage EXCEPT ![o].todo = Tail(@)] /\ UNCHANGED test
                ELSE /\ outage' = [outage EXCEPT ![o].todo = Current.node_list,
                                                 ![o].state = "sleeping"]
                     /\ Goto(IF Current.wait THEN "join" ELSE "unknown")
          \/ /\ Fault /\ TestFails /\ outage' = [outage EXCEPT ![o].state = "failed"]
             /\ UNCHANGED kubelet

(***************************************************************************)
(* time.sleep: the tests that go on meanwhile ask for a downtime in which  *)
(* all notice that the nodes are down.                                     *)
(***************************************************************************)
Downtime(o) ==
    /\ outage[o].state = "sleeping"
    /\ ~outage[o].wait => \A i \in DOMAIN outage[o].node_list :
                              LET n == outage[o].node_list[i] IN seen[n] = kubelet[n]
    /\ outage' = [outage EXCEPT ![o].state = "starting"]
    /\ UNCHANGED <<kubelet, seen, test, broken, cutShort, faults>>

(* An outage that has not yet lasted as long as it should. *)
Stopped(o) == IF outage[o].state = "stopping"
              THEN {outage[o].node_list[i] : i \in 1 .. Len(outage[o].node_list) - Len(outage[o].todo)}
              ELSE IF outage[o].state = "sleeping" THEN ToSet(outage[o].node_list) ELSE {}

(* Slip for StartKubelet: only the first node is started. *)
StartFirstKubelet(o) ==
    /\ outage[o].state = "starting" /\ UNCHANGED <<seen, broken, faults>>
    /\ LET n == Head(outage[o].todo)
       IN /\ kubelet' = [kubelet EXCEPT ![n] = "up"]
          /\ cutShort' = cutShort \cup {<<v, o>> : v \in {x \in Outages \ {o} : n \in Stopped(x)}}
    /\ outage' = [outage EXCEPT ![o].state = "ended", ![o].todo = <<>>]
    /\ IF outage[o].wait THEN Goto("healthy0") ELSE UNCHANGED test

(***************************************************************************)
(* background: start_kubelet for one node after the other.  An exception   *)
(* ends the thread and is lost with it; without a thread it fails the test.*)
(***************************************************************************)
StartKubelet(o) ==
    /\ outage[o].state = "starting" /\ UNCHANGED seen
    /\ LET n == Head(outage[o].todo)
           more == Len(outage[o].todo) > 1
       IN \/ /\ kubelet' = [kubelet EXCEPT ![n] = "up"] /\ UNCHANGED <<broken, faults>>
             /\ cutShort' = cutShort \cup {<<v, o>> : v \in {x \in Outages \ {o} : n \in Stopped(x)}}
             /\ outage' = [outage EXCEPT ![o].state = IF more THEN @ ELSE "ended", ![o].todo = Tail(@)]
             /\ IF outage[o].wait /\ ~more THEN Goto("healthy0") ELSE UNCHANGED test
          \/ /\ Fault /\ outage' = [outage EXCEPT ![o].state = "failed"]
             /\ UNCHANGED <<kubelet, cutShort>>
             /\ IF outage[o].wait THEN TestFails ELSE UNCHANGED <<test, broken>>

-----------------------------------------------------------------------------
AllSeenUp == \A n \in Nodes : seen[n] = "up"

(* A wait of the test: for what holds at last, or until it takes too long. *)
Wait(pc, holds, next) ==
    /\ At(pc) /\ UNCHANGED <<kubelet, seen, outage, cutShort, faults>>
    /\ \/ holds /\ Goto(next) /\ UNCHANGED broken
       \/ ~holds /\ TestFails

(* Statefulset 0's volume is on the first node of the list; the other is degraded by any. *)
AwaitDown == \/ Wait("unknown", seen[Current.node_list[1]] = "down", "degraded")
             \/ Wait("degraded", ~AllSeenUp, "healthy0")

(* Slip for AwaitHealthy: it is enough that the first volume's own node is back. *)
AwaitHealthyNode ==
    \/ Wait("healthy0", seen[Current.node_list[1]] = "up", "healthy1")
    \/ Wait("healthy1", seen[Current.node_list[1]] = "up", "end")

AwaitHealthy == \/ Wait("healthy0", AllSeenUp, "healthy1")
                \/ Wait("healthy1", AllSeenUp, "end")

(* The next round of the loop, or the next test. *)
NextRound == /\ At("end") /\ UNCHANGED <<kubelet, seen, outage, broken, cutShort, faults>>
             /\ \/ /\ test.no \notin broken /\ test.round < LOOP_COUNT
                   /\ test' = [test EXCEPT !.round = @ + 1, !.pc = "begin"]
                \/ /\ test.no \in broken \/ test.round = LOOP_COUNT
                   /\ test.no < LastTest
                   /\ \E w \in BOOLEAN :
                         test' = [no |-> test.no + 1, round |-> 1, wait |-> w, pc |-> "begin"]

-----------------------------------------------------------------------------
Notice(n) == /\ seen[n] # kubelet[n] /\ seen' = [seen EXCEPT ![n] = kubelet[n]]
             /\ UNCHANGED <<kubelet, outage, test, broken, cutShort, faults>>

Robot == BeginOutage \/ StopKubelet \/ AwaitDown \/ AwaitHealthy \/ NextRound

Next == \/ Robot
        \/ \E o \in Outages : Downtime(o) \/ StartKubelet(o)
        \/ \E n \in Nodes : Notice(n)

Spec == Init /\ [][Next]_vars

-----------------------------------------------------------------------------
(***************************************************************************)
(* An outage lasts as long as its test asked, although nobody joins the    *)
(* threads: the waits of a test that passes are over only when its own are *)
(* done.  Another's thread ends an outage early only after a test failed   *)
(* that had begun one in a thread, or after a list named a node twice, so  *)
(* that its second start came when all was healthy again.                  *)
(***************************************************************************)
Unjoined(o) == outage[o].test \in broken /\ ~outage[o].wait
ListedTwice(o) == ~IsInjective(outage[o].node_list)

OutagesAreWhole ==
    \A c \in cutShort : \E o \in 1 .. c[2] : Unjoined(o) \/ ListedTwice(o)

(***************************************************************************)
(* A kubelet that is down will be started by a keyword or a thread that    *)
(* stopped it, unless a command of it failed: then it stays down for the   *)
(* rest of the suite.                                                      *)
(***************************************************************************)
DownMeansPending ==
    \A n \in Nodes : kubelet[n] = "down" =>
        \E o \in Outages :
            \/ outage[o].state \in {"stopping", "sleeping", "failed"} /\ n \in ToSet(outage[o].node_list)
            \/ outage[o].state = "starting" /\ n \in ToSet(outage[o].todo)
=============================================================================
