------------------------- MODULE ReplicaRebuilding -------------------------
(***************************************************************************)
(* The keywords that watch replica rebuildings while Longhorn runs them:   *)
(*                                                                         *)
(*   onlyOneOnNode   volume_keywords.py, only one of two volumes rebuilds  *)
(*                   on a node at a time                                   *)
(*   bothOnNode      the two volumes rebuild there at the same time        *)
(*   startOnNode     a volume's replica on a node starts rebuilding        *)
(*   onlyOne         one replica of a volume rebuilds, and none beside it  *)
(*                   until all are rebuilt ("Monitor only one replica ...")*)
(*                                                                         *)
(* They are coroutines over the polls of e2e/libs/volume/rest.py.  A poll  *)
(* reads one volume over HTTP without awaiting, so the two coroutines      *)
(* alternate at their sleeps and Longhorn moves between any two reads.     *)
(***************************************************************************)
EXTENDS Naturals, FiniteSets

CONSTANTS
    V0, V1,        \* the two volumes
    Nodes,
    Target,        \* the node the keyword is about
    Any,           \* no node given
    Scripts,       \* keywords to run
    RetryCount,    \* rounds of a wait
    NodeLimit,     \* concurrent-replica-rebuild-per-node-limit
    VolumeLimit,   \* rebuildings Longhorn runs at once for a volume
    MaxFaults      \* bound: rebuildings that break off, and reads that fail

Bounds == /\ Target \in Nodes /\ Any \notin Nodes /\ V0 # V1
          /\ Scripts \subseteq {"onlyOneOnNode", "bothOnNode", "startOnNode", "onlyOne"}
          /\ RetryCount \in Nat \ {0} /\ MaxFaults \in Nat

VARIABLES
    replica,   \* mode of each volume's replica on each node
    task,      \* the coroutines wait_for_replica_rebuilding_start
    turn,      \* the coroutine the event loop runs next
    kw,        \* the keyword: script, pc, volumes compared, round
    outages,
    hist       \* what happened, for the properties

vars == <<replica, task, turn, kw, outages, hist>>

Volumes == {V0, V1}
Other(v) == CHOOSE u \in Volumes : u # v
Running == {"find", "start"}
Over == {"passed", "failed", "error"}

TypeOK == /\ replica \in [Volumes -> [Nodes -> {"none", "WO", "inProgress", "RW"}]]
          /\ task \in [Volumes -> [pc : Running \cup {"idle", "found", "raised", "cancelled"},
                                   node : Nodes \cup {Any}, round : 0 .. RetryCount]]
          /\ turn \in Volumes
          /\ kw \in [script : Scripts, first : Volumes, other : Volumes, round : 0 .. RetryCount,
                     pc : {"wait", "checkFirst", "checkOther", "monitor"} \cup Over]
          /\ outages \in 0 .. MaxFaults
          /\ hist \in [overlap : BOOLEAN, two : BOOLEAN, onTarget : BOOLEAN,
                       restarts : 0 .. MaxFaults]

TasksOf(s) == IF s \in {"onlyOneOnNode", "bothOnNode"} THEN Volumes ELSE {V0}
NodeOf(s) == IF s = "onlyOne" THEN Any ELSE Target

(* The replicas on the target node were deleted; others may be missing.    *)
Init == /\ \E s \in Scripts :
              /\ kw = [script |-> s, pc |-> "wait", first |-> V0, other |-> V1, round |-> 0]
              /\ task = [v \in Volumes |-> [pc |-> IF v \in TasksOf(s) THEN "find" ELSE "idle",
                                            node |-> NodeOf(s), round |-> 0]]
              /\ replica \in [Volumes -> [Nodes -> {"none", "RW"}]]
              /\ \A v \in Volumes : IF v \in TasksOf(s) THEN replica[v][Target] = "none"
                                    ELSE \A n \in Nodes : replica[v][n] = "RW"
        /\ turn = V0
        /\ outages = 0
        /\ hist = [overlap |-> FALSE, two |-> FALSE, onTarget |-> FALSE, restarts |-> 0]

-----------------------------------------------------------------------------
(* Longhorn (external).                                                    *)

Rebuilding(v, n) == replica[v][n] \in {"WO", "inProgress"}

Observed(r) == [hist EXCEPT
    !.overlap = @ \/ \A v \in Volumes : r[v][Target] = "inProgress",
    !.onTarget = @ \/ (kw.script = "startOnNode" /\ r[V0][Target] = "inProgress")]

Becomes(v, n, mode) == LET r == [replica EXCEPT ![v][n] = mode]
                       IN  /\ replica' = r
                           /\ hist' = Observed(r)
                           /\ UNCHANGED <<task, turn, kw, outages>>

Begin(v, n) == /\ replica[v][n] = "none"
               /\ Cardinality({u \in Volumes : Rebuilding(u, n)}) < NodeLimit
               /\ Cardinality({m \in Nodes : Rebuilding(v, m)}) < VolumeLimit
               /\ Becomes(v, n, "WO")

Transfer(v, n) == replica[v][n] = "WO" /\ Becomes(v, n, "inProgress")

Finish(v, n) == replica[v][n] = "inProgress" /\ Becomes(v, n, "RW")

FaultLeft == hist.restarts + outages < MaxFaults

Break(v, n) == /\ Rebuilding(v, n)
               /\ FaultLeft
               /\ replica' = [replica EXCEPT ![v][n] = "none"]
               /\ hist' = [hist EXCEPT !.restarts = @ + 1]
               /\ UNCHANGED <<task, turn, kw, outages>>

(* The model ends with the keyword: what Longhorn does later is not looked *)
(* at.                                                                     *)
Longhorn == /\ kw.pc \notin Over
            /\ \E v \in Volumes, n \in Nodes :
                  Begin(v, n) \/ Transfer(v, n) \/ Finish(v, n) \/ Break(v, n)

-----------------------------------------------------------------------------
(* wait_for_replica_rebuilding_start                                       *)

WriteOnly(v) == {n \in Nodes : Rebuilding(v, n)}

(* A failed read is caught and logged, and the round is spent.             *)
ReadFails == FaultLeft /\ outages' = outages + 1

(* The sleep lets the other coroutine run.  A wait for the first to        *)
(* complete has woken the keyword before a coroutine sleeps twice.         *)
Yield(v) == turn' = IF task[Other(v)].pc \in Running \/ kw.script = "onlyOneOnNode"
                    THEN Other(v) ELSE v

Await(v) == kw.pc = "wait" /\ turn = v

Spend(v) == /\ task' = [task EXCEPT ![v].round = @ + 1]
            /\ Yield(v)
            /\ UNCHANGED <<replica, kw>>

(* The first loop takes the first write-only replica of the list: on any   *)
(* other node than the one asked for, that node becomes the one awaited.   *)
(* It leaves the loop without a sleep.                                     *)
Find(v, n) == /\ Await(v) /\ task[v].pc = "find" /\ task[v].round < RetryCount
              /\ n \in WriteOnly(v)
              /\ task' = [task EXCEPT ![v] = [pc |-> "start", node |-> n, round |-> 0]]
              /\ UNCHANGED <<replica, turn, kw, outages, hist>>

(* Slip for FindMisses: the wait has no last round.                        *)
FindMissesForever(v) == /\ Await(v) /\ task[v].pc = "find"
                        /\ WriteOnly(v) = {}
                        /\ Yield(v)
                        /\ UNCHANGED <<replica, task, kw, outages, hist>>

FindMisses(v) == /\ Await(v) /\ task[v].pc = "find" /\ task[v].round < RetryCount
                 /\ \/ WriteOnly(v) = {} /\ UNCHANGED outages
                    \/ ReadFails
                 /\ Spend(v)
                 /\ UNCHANGED hist

(* The second loop asserts that one replica at most is write-only, inside  *)
(* the try: the handler takes the assertion for a failed read.             *)
Asserted(v) == Cardinality(WriteOnly(v)) <= 1

(* Slip for Start: a replica that is still write-only has started.         *)
StartAtOnce(v) == /\ Await(v) /\ task[v].pc = "start" /\ task[v].round < RetryCount
                  /\ Asserted(v) /\ Rebuilding(v, task[v].node)
                  /\ task' = [task EXCEPT ![v].pc = "found", ![v].round = 0]
                  /\ Yield(v)
                  /\ UNCHANGED <<replica, kw, outages, hist>>

Start(v) == /\ Await(v) /\ task[v].pc = "start" /\ task[v].round < RetryCount
            /\ Asserted(v) /\ replica[v][task[v].node] = "inProgress"
            /\ task' = [task EXCEPT ![v].pc = "found", ![v].round = 0]
            /\ Yield(v)
            /\ UNCHANGED <<replica, kw, outages, hist>>

StartMisses(v) == /\ Await(v) /\ task[v].pc = "start" /\ task[v].round < RetryCount
                  /\ \/ /\ ~(Asserted(v) /\ replica[v][task[v].node] = "inProgress")
                        /\ hist' = [hist EXCEPT !.two = @ \/ (kw.script = "onlyOne" /\ ~Asserted(v))]
                        /\ UNCHANGED outages
                     \/ ReadFails /\ UNCHANGED hist
                  /\ Spend(v)

Raise(v) == /\ Await(v) /\ task[v].pc \in Running /\ task[v].round = RetryCount
            /\ task' = [task EXCEPT ![v].pc = "raised", ![v].round = 0]
            /\ Yield(v)
            /\ UNCHANGED <<replica, kw, outages, hist>>

Coroutine(v) == \/ \E n \in Nodes : Find(v, n)
                \/ FindMisses(v) \/ Start(v) \/ StartMisses(v) \/ Raise(v)

-----------------------------------------------------------------------------
(* The keywords.                                                           *)

Completed == {v \in Volumes : task[v].pc \in {"found", "raised"}}

(* No coroutine is between its two loops, where it does not await.         *)
Idle == \A v \in Volumes : ~(task[v].pc = "start" /\ task[v].round = 0)

(* FIRST_COMPLETED: the exception of a coroutine that raised is not looked *)
(* at, and pending.pop() raises when both have completed.                  *)
WakeOnFirst ==
    /\ kw.pc = "wait" /\ kw.script = "onlyOneOnNode" /\ Idle
    /\ Completed # {}
    /\ \E v \in Completed :
          kw' = IF Completed = Volumes
                THEN [kw EXCEPT !.pc = "error"]
                ELSE [kw EXCEPT !.pc = "checkFirst", !.first = v, !.other = Other(v)]
    /\ task' = [v \in Volumes |-> IF v \in Completed THEN task[v]
                                  ELSE [task[v] EXCEPT !.pc = "cancelled", !.round = 0]]
    /\ UNCHANGED <<replica, turn, outages, hist>>

AfterAll == [bothOnNode |-> "checkFirst", onlyOne |-> "checkFirst", startOnNode |-> "passed"]

(* Slip for WakeOnAll: the keyword goes on when the first one completes.   *)
WakeOnAllEarly ==
    /\ kw.pc = "wait" /\ kw.script # "onlyOneOnNode" /\ Idle
    /\ Completed # {}
    /\ kw' = [kw EXCEPT !.pc = IF \E v \in Volumes : task[v].pc = "raised"
                               THEN "failed" ELSE AfterAll[kw.script]]
    /\ UNCHANGED <<replica, task, turn, outages, hist>>

(* ALL_COMPLETED, or a coroutine awaited alone: an exception fails it.     *)
WakeOnAll ==
    /\ kw.pc = "wait" /\ kw.script # "onlyOneOnNode"
    /\ Completed = TasksOf(kw.script)
    /\ kw' = [kw EXCEPT !.pc = IF \E v \in Volumes : task[v].pc = "raised"
                               THEN "failed" ELSE AfterAll[kw.script]]
    /\ UNCHANGED <<replica, task, turn, outages, hist>>

InProgress(v, n) == \E m \in Nodes : (n \in {m, Any}) /\ replica[v][m] = "inProgress"

(* is_replica_rebuilding_in_progress retries a failed read and answers no  *)
(* when all its rounds failed.                                             *)
Answers(v, a) == \/ a = InProgress(v, NodeOf(kw.script)) /\ UNCHANGED outages
                 \/ a = FALSE /\ ReadFails

(* Where the answer takes a keyword: onlyOneOnNode loops while the first   *)
(* is in progress, the others assert.                                      *)
Verdict(a) ==
    CASE kw.script = "onlyOneOnNode" /\ kw.pc = "checkFirst" -> IF a THEN "checkOther" ELSE "passed"
      [] kw.script = "onlyOneOnNode" /\ kw.pc = "checkOther" -> IF a THEN "failed" ELSE "checkFirst"
      [] kw.script = "bothOnNode" /\ kw.pc = "checkFirst"    -> IF a THEN "checkOther" ELSE "failed"
      [] kw.script = "bothOnNode" /\ kw.pc = "checkOther"    -> IF a THEN "passed" ELSE "failed"
      [] kw.script = "onlyOne"                               -> IF a THEN "monitor" ELSE "failed"

(* The loop of onlyOneOnNode has no last round: it stays in these two      *)
(* places for as long as it sees the first volume's rebuilding go on.      *)
Loops == kw.script = "onlyOneOnNode" /\ kw.pc \in {"checkFirst", "checkOther"}

Check == /\ kw.pc \in {"checkFirst", "checkOther"}
         /\ \E a \in BOOLEAN :
               /\ Answers(IF kw.pc = "checkFirst" THEN kw.first ELSE kw.other, a)
               /\ kw' = [kw EXCEPT !.pc = Verdict(a)]
         /\ UNCHANGED <<replica, task, turn, hist>>

(* wait_for_replica_rebuilding_complete, with the same assertion.          *)
Rebuilt == Asserted(V0) /\ \A n \in Nodes : replica[V0][n] = "RW"

Monitor == /\ kw.pc = "monitor" /\ kw.round < RetryCount
           /\ Rebuilt
           /\ kw' = [kw EXCEPT !.pc = "passed"]
           /\ UNCHANGED <<replica, task, turn, outages, hist>>

MonitorMisses == /\ kw.pc = "monitor" /\ kw.round < RetryCount
                 /\ \/ /\ ~Rebuilt
                       /\ hist' = [hist EXCEPT !.two = @ \/ ~Asserted(V0)]
                       /\ UNCHANGED outages
                    \/ ReadFails /\ UNCHANGED hist
                 /\ kw' = [kw EXCEPT !.round = @ + 1]
                 /\ UNCHANGED <<replica, task, turn>>

MonitorEnds == /\ kw.pc = "monitor" /\ kw.round = RetryCount
               /\ kw' = [kw EXCEPT !.pc = "failed"]
               /\ UNCHANGED <<replica, task, turn, outages, hist>>

Keyword == WakeOnFirst \/ WakeOnAll \/ Check \/ Monitor \/ MonitorMisses \/ MonitorEnds

Test == Keyword \/ \E v \in Volumes : Coroutine(v)

Next == Longhorn \/ Test

(* The event loop keeps running.  Longhorn may leave a rebuilding as it is. *)
Spec == Init /\ [][Next]_vars /\ WF_vars(Test)

-----------------------------------------------------------------------------
(* Properties.                                                             *)

(* bothOnNode reads the two volumes one after the other, yet its passing   *)
(* proves that they did rebuild on the node at the same moment, unless     *)
(* Longhorn broke a rebuilding off and began it again meanwhile, or a      *)
(* coroutine went after a rebuilding on another node.                      *)
BothMeansTogether ==
    /\ kw.script = "bothOnNode" /\ kw.pc = "passed"
    /\ hist.restarts = 0
    /\ \A v \in Volumes : task[v].node = Target
    => hist.overlap

(* The wait for a volume's replica on a node returns only after that one   *)
(* has started rebuilding, unless it went after a replica on another node  *)
(* whose rebuilding was listed first: node_name is overwritten then.       *)
StartsOnTheNode ==
    /\ kw.script = "startOnNode" /\ kw.pc = "passed"
    /\ task[V0].node = Target
    => hist.onTarget

(* What the waits' comments say they monitor meanwhile: a keyword that saw *)
(* two replicas of the volume rebuild at once does not pass.               *)
ConcurrencyIsReported == kw.script = "onlyOne" /\ kw.pc = "passed" => ~hist.two
=============================================================================
