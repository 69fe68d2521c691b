------------------------------ MODULE ScaleTest ------------------------------
(***************************************************************************)
(* src/scalability_test/script: scale-test.py creates a StatefulSet per    *)
(* worker node, scales them up and monitors their pods; the Monitor of     *)
(* monitor.py collects lists of metrics and stores them in a file, from    *)
(* which a later run resumes.  The function that draws the graph raises a  *)
(* NameError (an unknown name in its second line), so a run makes one      *)
(* update of the data.  The user may stop the script at any point.         *)
(*                                                                         *)
(* A list of metrics is its length; a pod is known by its name, which a    *)
(* StatefulSet gives again to the pod that replaces one.                   *)
(***************************************************************************)
EXTENDS Naturals, Sequences, FiniteSets, SequencesExt

CONSTANTS
    Nodes,         \* worker nodes
    Pods,          \* names of the workload pods
    MaxCrashing,   \* MAX_POD_CRASHING_COUNT
    Count,         \* replicas per StatefulSet that the user asks for
    MaxRuns,       \* bound: runs of the script
    MaxErrors,     \* bound: requests that fail
    MaxReplaced    \* bound: pods that are replaced or restarted

Bounds == /\ {MaxCrashing, MaxRuns, MaxErrors, MaxReplaced} \subseteq Nat /\ Count \in Nat \ {0}
          /\ IsFiniteSet(Nodes \cup Pods)

VARIABLES
    sts,       \* replicas of each node's StatefulSet, NoSts if there is none
    pod,       \* the pods: whether ready, ready late, restarted
    file,      \* monitor_data.txt
    script,    \* the run of the script: operation, pc and what it has read
    data,      \* the Monitor's data
    runs, errors, replaced

vars == <<sts, pod, file, script, data, runs, errors, replaced>>

NoSts == Count + 1
NoFile == [content |-> "none"]
EmptyFile == [content |-> "empty"]
Missing == [time |-> 0, pods |-> 0]    \* an annotating point that is not set

PodState == [ready : BOOLEAN, late : BOOLEAN, restarted : BOOLEAN]
Absent == [ready |-> FALSE, late |-> FALSE, restarted |-> FALSE]

Point == [time : Nat, pods : Nat]

(***************************************************************************)
(* The Monitor's data; "late" is a history of the updates that looked at a *)
(* ready pod which was late, and had never been in time under its name.    *)
(***************************************************************************)
Data == [times : Nat,                       \* length of timestamps and time_diffs
         order : Seq(Nodes),                \* nodes with metrics, in the order of the dict
         cpu : [Nodes -> Nat], ram : [Nodes -> Nat],
         startingPoint : Point, crashingPoint : Point,
         valid : SUBSET Pods, late : SUBSET Nat]

NoData == [times |-> 0, order |-> <<>>, cpu |-> [n \in Nodes |-> 0], ram |-> [n \in Nodes |-> 0],
           startingPoint |-> Missing, crashingPoint |-> Missing, valid |-> {}, late |-> {}]

TypeOK == /\ sts \in [Nodes -> 0 .. NoSts] /\ pod \in [Pods -> PodState]
          /\ file \in {NoFile, EmptyFile} \cup Data /\ data \in Data
          /\ script \in [pc : {"none", "create", "scale", "start", "pods", "metrics", "count",
                               "pad", "truncate", "write", "draw"},
                         op : {"all", "scale", "monitor"}, preload : BOOLEAN,
                         todo : SUBSET Nodes, seen : [Pods -> PodState],
                         reported : Seq(Nodes)]
          /\ runs \in 0 .. MaxRuns /\ errors \in 0 .. MaxErrors /\ replaced \in 0 .. MaxReplaced

NoScript == [pc |-> "none", op |-> "monitor", preload |-> FALSE, todo |-> {},
             seen |-> [p \in Pods |-> Absent], reported |-> <<>>]

Init == /\ sts = [n \in Nodes |-> NoSts] /\ pod = [p \in Pods |-> Absent]
        /\ file = NoFile /\ script = NoScript /\ data = NoData
        /\ runs = 0 /\ errors = 0 /\ replaced = 0

Fails == errors < MaxErrors /\ errors' = errors + 1

(* An exception that nobody catches, or the user, ends the run. *)
Ends == script' = NoScript /\ data' = NoData

-----------------------------------------------------------------------------
(* scale-test.py *)

(***************************************************************************)
(* The operations; dry_draw only draws.  "all" lists the worker nodes and  *)
(* creates their StatefulSets, the others list the StatefulSets there are. *)
(***************************************************************************)
Start ==
    /\ script.pc = "none" /\ runs < MaxRuns /\ runs' = runs + 1
    /\ script' \in
          {[NoScript EXCEPT !.op = "all", !.pc = "create", !.todo = Nodes],
           [NoScript EXCEPT !.op = "scale", !.pc = "scale",
                            !.todo = {n \in Nodes : sts[n] # NoSts}]}
          \cup {[NoScript EXCEPT !.pc = "start", !.preload = preload] : preload \in BOOLEAN}
    /\ UNCHANGED <<sts, pod, file, data, errors, replaced>>

(* A StatefulSet that exists is refused, and the exception ends the run. *)
CreateStatefulSet ==
    /\ script.pc = "create"
    /\ \/ /\ \E n \in script.todo :
                /\ sts[n] = NoSts
                /\ sts' = [sts EXCEPT ![n] = 0]
                /\ script' = [script EXCEPT !.todo = @ \ {n}]
          /\ UNCHANGED <<data, errors>>
       \/ /\ script.todo = {}
          /\ script' = [script EXCEPT !.pc = "scale", !.todo = Nodes]
          /\ UNCHANGED <<sts, data, errors>>
       \/ (\E n \in script.todo : sts[n] # NoSts) /\ Ends /\ UNCHANGED <<sts, errors>>
       \/ Fails /\ Ends /\ UNCHANGED sts
    /\ UNCHANGED <<pod, file, runs, replaced>>

(* Slip for ScaleStatefulSet: a patch that fails is passed over. *)
ScaleUnchecked ==
    /\ script.pc = "scale"
    /\ \/ \E n \in script.todo :
             /\ script' = [script EXCEPT !.todo = @ \ {n}] /\ UNCHANGED data
             /\ \/ sts' = [sts EXCEPT ![n] = Count] /\ UNCHANGED errors
                \/ Fails /\ UNCHANGED sts
       \/ /\ script.todo = {} /\ UNCHANGED <<sts, errors>>
          /\ IF script.op = "all" THEN script' = [script EXCEPT !.pc = "start"] /\ UNCHANGED data
             ELSE Ends
    /\ UNCHANGED <<pod, file, runs, replaced>>

(* One StatefulSet is read and patched at a time; a conflict ends the run. *)
ScaleStatefulSet ==
    /\ script.pc = "scale"
    /\ \/ /\ \E n \in script.todo :
                /\ sts' = [sts EXCEPT ![n] = Count]
                /\ script' = [script EXCEPT !.todo = @ \ {n}]
          /\ UNCHANGED <<data, errors>>
       \/ /\ script.todo = {}
          /\ IF script.op = "all" THEN script' = [script EXCEPT !.pc = "start"] /\ UNCHANGED data
             ELSE Ends
          /\ UNCHANGED <<sts, errors>>
       \/ Fails /\ Ends /\ UNCHANGED sts
    /\ UNCHANGED <<pod, file, runs, replaced>>

-----------------------------------------------------------------------------
(* Monitor *)

MonitorOnly == UNCHANGED <<sts, pod, runs, replaced>>

(* __init__: data from the file, if there is any, or none. *)
StartMonitor ==
    /\ script.pc = "start"
    /\ IF script.preload /\ file \in {NoFile, EmptyFile}
       THEN Ends
       ELSE /\ data' = IF script.preload THEN file ELSE NoData
            /\ script' = [script EXCEPT !.pc = "pods"]
    /\ MonitorOnly /\ UNCHANGED <<file, errors>>

(* The pods are listed; an error skips the update and goes on to draw. *)
ListPods ==
    /\ script.pc = "pods"
    /\ \/ script' = [script EXCEPT !.pc = "metrics", !.seen = pod] /\ UNCHANGED errors
       \/ script' = [script EXCEPT !.pc = "draw"] /\ Fails
    /\ MonitorOnly /\ UNCHANGED <<file, data>>

(***************************************************************************)
(* The metrics of the nodes that report some.  After an error node_list is *)
(* an empty list, which has no 'items': the run ends.                      *)
(***************************************************************************)
ListMetrics ==
    /\ script.pc = "metrics"
    /\ \/ /\ \E S \in SUBSET Nodes : \E order \in SetToSeqs(S) :
                script' = [script EXCEPT !.pc = "count", !.reported = order]
          /\ UNCHANGED <<data, errors>>
       \/ Fails /\ Ends
    /\ MonitorOnly /\ UNCHANGED file

Ready == {p \in Pods : script.seen[p].ready}
InTime == {p \in Ready : p \in data.valid \/ ~script.seen[p].late}
Crashing == {p \in Pods : script.seen[p].restarted}

NewPoint == [time |-> data.times + 1, pods |-> Cardinality(InTime)]

(* Slip for CountPods: each update that is over the limit sets the point. *)
CountPodsAgain ==
    /\ script.pc = "count"
    /\ data' = [data EXCEPT
          !.times = @ + 1,
          !.valid = @ \cup InTime,
          !.late = @ \cup {data.times + 1 : p \in Ready \ InTime},
          !.startingPoint = IF InTime # Ready THEN NewPoint ELSE @]
    /\ script' = [script EXCEPT !.pc = "pad"]
    /\ MonitorOnly /\ UNCHANGED <<file, errors>>

(* Pods are counted, and a point is noted the first time its limit is passed. *)
CountPods ==
    /\ script.pc = "count"
    /\ data' = [data EXCEPT
          !.times = @ + 1,
          !.valid = @ \cup InTime,
          !.late = @ \cup {data.times + 1 : p \in Ready \ InTime},
          !.startingPoint = IF InTime # Ready /\ @ = Missing THEN NewPoint ELSE @,
          !.crashingPoint = IF Cardinality(Crashing) > MaxCrashing /\ @ = Missing
                            THEN NewPoint ELSE @]
    /\ script' = [script EXCEPT !.pc = "pad"]
    /\ MonitorOnly /\ UNCHANGED <<file, errors>>

Appended(lists) == [n \in Nodes |-> IF n \in ToSet(script.reported) THEN lists[n] + 1 ELSE lists[n]]

(* A node that has no metrics yet comes last in the dict. *)
Order == LET order[i \in 0 .. Len(script.reported)] ==
               IF i = 0 THEN data.order
               ELSE IF script.reported[i] \in ToSet(data.order) THEN order[i - 1]
               ELSE Append(order[i - 1], script.reported[i])
         IN order[Len(script.reported)]

(***************************************************************************)
(* Both loops over short lists extend the CPU list of the node that was    *)
(* processed last.                                                         *)
(***************************************************************************)
PadLoop(lists, cpu, last) ==
    LET len(c, n) == IF lists = "cpu" THEN c[n] ELSE Appended(data.ram)[n]
        Pad(c, n) == IF len(c, n) < data.times
                     THEN [c EXCEPT ![last] = @ + (data.times - len(c, n))] ELSE c
        padded[i \in 0 .. Len(Order)] == IF i = 0 THEN cpu ELSE Pad(padded[i - 1], Order[i])
    IN padded[Len(Order)]

Padded == LET last == Last(script.reported)
          IN PadLoop("ram", PadLoop("cpu", Appended(data.cpu), last), last)

IsShort(n) == data.cpu[n] < data.times \/ data.ram[n] < data.times

PadMetrics ==
    /\ script.pc = "pad"
    /\ IF script.reported = <<>>
       THEN IF \E n \in ToSet(data.order) : IsShort(n)
            THEN Ends
            ELSE script' = [script EXCEPT !.pc = "truncate"] /\ UNCHANGED data
       ELSE /\ data' = [data EXCEPT !.cpu = Padded, !.ram = Appended(@), !.order = Order]
            /\ script' = [script EXCEPT !.pc = "truncate"]
    /\ MonitorOnly /\ UNCHANGED <<file, errors>>

(* The file is emptied by open(.., 'w') and written when it is closed. *)
Truncate == /\ script.pc = "truncate"
            /\ file' = EmptyFile
            /\ script' = [script EXCEPT !.pc = "write"]
            /\ MonitorOnly /\ UNCHANGED <<data, errors>>

Save == /\ script.pc = "write"
        /\ file' = data
        /\ script' = [script EXCEPT !.pc = "draw"]
        /\ MonitorOnly /\ UNCHANGED <<data, errors>>

(* draw raises a NameError. *)
Draw == /\ script.pc = "draw" /\ Ends
        /\ MonitorOnly /\ UNCHANGED <<file, errors>>

Interrupt == /\ script.pc # "none" /\ Fails /\ Ends
             /\ MonitorOnly /\ UNCHANGED file

-----------------------------------------------------------------------------
(***************************************************************************)
(* The cluster: a pod gets ready, in time or late; one that is deleted is  *)
(* replaced under its name, one that crashes is restarted.                 *)
(***************************************************************************)
PodGetsReady == /\ \E p \in Pods, late \in BOOLEAN :
                      /\ ~pod[p].ready /\ \E n \in Nodes : sts[n] \in 1 .. Count
                      /\ pod' = [pod EXCEPT ![p].ready = TRUE, ![p].late = late]
                /\ UNCHANGED <<sts, file, script, data, runs, errors, replaced>>

PodGoes == /\ replaced < MaxReplaced /\ replaced' = replaced + 1
           /\ \E p \in Pods, restarted \in BOOLEAN :
                 /\ pod[p].ready
                 /\ pod' = [pod EXCEPT ![p] = [Absent EXCEPT !.restarted = restarted]]
           /\ UNCHANGED <<sts, file, script, data, runs, errors>>

Script == \/ CreateStatefulSet \/ ScaleStatefulSet \/ StartMonitor \/ ListPods \/ ListMetrics
          \/ CountPods \/ PadMetrics \/ Truncate \/ Save \/ Draw

Next == Start \/ Script \/ Interrupt \/ PodGetsReady \/ PodGoes

Spec == Init /\ [][Next]_vars

(***************************************************************************)
(* "all" starts to monitor only when every StatefulSet has been scaled to  *)
(* the count, wherever an earlier run broke off.                           *)
(***************************************************************************)
MonitoredIsScaled ==
    script.op = "all" /\ script.pc \notin {"none", "create", "scale"}
       => \A n \in Nodes : sts[n] = Count

(***************************************************************************)
(* The stored starting point, whose number of pods is the result of the    *)
(* test, is of the first update that looked at a late pod, also when the   *)
(* monitoring was resumed since; there is none if no pod was late.         *)
(***************************************************************************)
PointIsTheFirst ==
    file \notin {NoFile, EmptyFile} =>
       IF file.late = {} THEN file.startingPoint = Missing
       ELSE /\ file.startingPoint.time \in file.late
            /\ \A time \in file.late : file.startingPoint.time <= time

(***************************************************************************)
(* "update node metrics with value 0 if the information is missing in the  *)
(* above update" (src/scalability_test/script/monitor.py:104): in the file *)
(* every node that has metrics has as many of them as there are times.     *)
(***************************************************************************)
MissingMetricsAreZero ==
    file \notin {NoFile, EmptyFile} =>
       \A n \in ToSet(file.order) : file.cpu[n] = file.times /\ file.ram[n] = file.times
=============================================================================
