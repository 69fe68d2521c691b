-------------------------- MODULE Pipelines_proofs --------------------------
(***************************************************************************)
(* Proofs about the scripts around the tests, for any nodes, pods, reports *)
(* and jobs, any limits and any failures.                                  *)
(***************************************************************************)
EXTENDS MC_Pipelines, Integers, Sequences, SequenceTheorems, FiniteSetTheorems,
        WellFoundedInduction, TLAPS

-----------------------------------------------------------------------------
(* scale-test.py and monitor.py                                            *)

ScalePlaces == {"none", "create", "scale", "start", "pods", "metrics", "count", "pad",
                "truncate", "write", "draw"}
IsScript(s) == s \in [pc : ScalePlaces, op : {"all", "scale", "monitor"}, preload : BOOLEAN,
                      todo : SUBSET Nodes, seen : {s.seen}, reported : {s.reported}]

(* Every field that the starting point does not depend on may be anything. *)
IsData(d) == d \in [times : Nat, order : {d.order}, cpu : {d.cpu}, ram : {d.ram},
                    startingPoint : {d.startingPoint}, crashingPoint : {d.crashingPoint},
                    valid : {d.valid}, late : SUBSET Nat]

(* "all" leaves the StatefulSets as it has scaled them.                    *)
ScaledInv ==
    /\ sts \in [Nodes -> 0 .. S!NoSts]
    /\ script.pc = "create" => script.op = "all"
    /\ script.op = "all" /\ script.pc = "scale" => \A n \in Nodes \ script.todo : sts[n] = Count
    /\ script.op = "all" /\ script.pc \notin {"none", "create", "scale"} =>
          \A n \in Nodes : sts[n] = Count

(* The starting point is of the first update that looked at a late pod.    *)
PointInv(d) ==
    /\ IsData(d) /\ d.late \subseteq 1 .. d.times
    /\ d.late = {} => d.startingPoint = S!Missing
    /\ d.late # {} => /\ d.startingPoint.time \in d.late
                      /\ \A time \in d.late : d.startingPoint.time <= time

Stored == file \notin {S!NoFile, S!EmptyFile}
ScaleInv == /\ IsScript(script) /\ ScaledInv
            /\ PointInv(data) /\ (Stored => PointInv(file))

LEMMA ScaleConstants == Count \in Nat \ {0} /\ S!NoSts \in Nat
BY ScaleBounds DEF S!Bounds, S!NoSts

LEMMA NoDataPoint == PointInv(S!NoData)
BY DEF PointInv, IsData, S!NoData

LEMMA NoScriptIs ==
  /\ IsScript(S!NoScript) /\ S!NoScript.pc = "none" /\ S!NoScript.todo = {}
BY DEF IsScript, S!NoScript, ScalePlaces

LEMMA ScaleInit == S!Init => ScaleInv
<1> SUFFICES ASSUME S!Init PROVE ScaleInv
  OBVIOUS
<1>1. script = S!NoScript /\ data = S!NoData /\ ~Stored
  BY DEF S!Init, Stored
<1>2. sts \in [Nodes -> 0 .. S!NoSts]
  BY ScaleConstants DEF S!Init
<1> QED
  BY <1>1, <1>2, NoDataPoint, NoScriptIs DEF ScaleInv, ScaledInv

(* A run that ends leaves nothing to be known about it.                    *)
LEMMA EndsKeeps ==
  ASSUME ScaleInv, S!Ends, UNCHANGED <<sts, file>>
  PROVE  ScaleInv'
<1>1. script' = S!NoScript /\ data' = S!NoData
  BY DEF S!Ends
<1>2. Stored' => PointInv(file')
  BY DEF ScaleInv, Stored
<1> QED
  BY <1>1, <1>2, NoDataPoint, NoScriptIs DEF ScaleInv, ScaledInv

(* How the script moves: its place, what it has to do, what it has read.   *)
ScriptIs(s, op, pc, todo) == IsScript(s) /\ s.op = op /\ s.pc = pc /\ s.todo = todo

Moves(pc) ==
    /\ pc \in ScalePlaces
    /\ \/ script' = [script EXCEPT !.pc = pc]
       \/ \E seen : script' = [script EXCEPT !.pc = pc, !.seen = seen]
       \/ \E order : script' = [script EXCEPT !.pc = pc, !.reported = order]

LEMMA ScriptMoves ==
  ASSUME IsScript(script), NEW pc, Moves(pc)
  PROVE  ScriptIs(script', script.op, pc, script.todo)
<1> pc \in ScalePlaces
  BY Zenon DEF Moves
<1>1. CASE script' = [script EXCEPT !.pc = pc]
  BY <1>1 DEF ScriptIs, IsScript
<1>2. ASSUME NEW seen, script' = [script EXCEPT !.pc = pc, !.seen = seen]
      PROVE  ScriptIs(script', script.op, pc, script.todo)
  BY <1>2 DEF ScriptIs, IsScript
<1>3. ASSUME NEW order, script' = [script EXCEPT !.pc = pc, !.reported = order]
      PROVE  ScriptIs(script', script.op, pc, script.todo)
  BY <1>3 DEF ScriptIs, IsScript
<1> QED
  BY <1>1, <1>2, <1>3, Zenon DEF Moves

Turns(pc, todo) ==
    /\ todo \in SUBSET Nodes
    /\ \/ script' = [script EXCEPT !.todo = todo] /\ pc = script.pc
       \/ script' = [script EXCEPT !.pc = pc, !.todo = todo] /\ pc = "scale"

LEMMA ScriptTurns ==
  ASSUME IsScript(script), NEW pc, NEW todo, Turns(pc, todo)
  PROVE  ScriptIs(script', script.op, pc, todo)
<1>1. CASE script' = [script EXCEPT !.todo = todo] /\ pc = script.pc
  BY <1>1 DEF ScriptIs, IsScript, Turns
<1>2. CASE script' = [script EXCEPT !.pc = pc, !.todo = todo] /\ pc = "scale"
  BY <1>2 DEF ScriptIs, IsScript, Turns, ScalePlaces
<1> QED
  BY <1>1, <1>2 DEF Turns

LEMMA StartStep ==
  ASSUME ScaleInv, S!Start
  PROVE  ScaleInv'
<1>1. script.pc = "none" /\ UNCHANGED <<sts, file, data>>
  BY Zenon DEF S!Start
<1>2. PICK op \in {"all", "scale", "monitor"}, pc \in {"create", "scale", "start"},
           todo \in SUBSET Nodes :
         /\ ScriptIs(script', op, pc, todo)
         /\ pc = "create" => op = "all"
         /\ op = "all" => pc = "create"
  <2>1. ASSUME script' = [S!NoScript EXCEPT !.op = "all", !.pc = "create", !.todo = Nodes]
        PROVE  ScriptIs(script', "all", "create", Nodes)
    BY <2>1 DEF ScriptIs, IsScript, ScalePlaces, S!NoScript
  <2>2. ASSUME NEW todo \in SUBSET Nodes,
               script' = [S!NoScript EXCEPT !.op = "scale", !.pc = "scale", !.todo = todo]
        PROVE  ScriptIs(script', "scale", "scale", todo)
    BY <2>2 DEF ScriptIs, IsScript, ScalePlaces, S!NoScript
  <2>3. ASSUME NEW preload \in BOOLEAN,
               script' = [S!NoScript EXCEPT !.pc = "start", !.preload = preload]
        PROVE  ScriptIs(script', "monitor", "start", {})
    BY <2>3 DEF ScriptIs, IsScript, ScalePlaces, S!NoScript
  <2>4. \/ script' = [S!NoScript EXCEPT !.op = "all", !.pc = "create", !.todo = Nodes]
        \/ script' = [S!NoScript EXCEPT !.op = "scale", !.pc = "scale",
                                        !.todo = {n \in Nodes : sts[n] # S!NoSts}]
        \/ \E preload \in BOOLEAN :
              script' = [S!NoScript EXCEPT !.pc = "start", !.preload = preload]
    BY Zenon DEF S!Start
  <2>5. {n \in Nodes : sts[n] # S!NoSts} \in SUBSET Nodes
    OBVIOUS
  <2>6. \/ ScriptIs(script', "all", "create", Nodes)
        \/ \E todo \in SUBSET Nodes : ScriptIs(script', "scale", "scale", todo)
        \/ ScriptIs(script', "monitor", "start", {})
    BY <2>1, <2>2, <2>3, <2>4, <2>5, Zenon
  <2>7. {} \in SUBSET Nodes /\ Nodes \in SUBSET Nodes
    OBVIOUS
  <2> QED
    BY <2>6, <2>7
<1>3. Stored' => PointInv(file')
  BY <1>1 DEF ScaleInv, Stored
<1> QED
  BY <1>1, <1>2, <1>3 DEF ScaleInv, ScaledInv, ScriptIs

LEMMA CreateSetStep ==
  ASSUME ScaleInv, S!CreateStatefulSet
  PROVE  ScaleInv'
<1>1. /\ script.pc = "create" /\ file' = file /\ IsScript(script) /\ ScaledInv
      /\ (Stored' => PointInv(file')) /\ PointInv(data)
  BY DEF ScaleInv, S!CreateStatefulSet, Stored
<1>2. CASE S!Ends /\ sts' = sts
  BY <1>1, <1>2, EndsKeeps
<1>3. ASSUME NEW n \in script.todo, sts' = [sts EXCEPT ![n] = 0],
             script' = [script EXCEPT !.todo = script.todo \ {n}], data' = data
      PROVE  ScaleInv'
  <2>1. n \in Nodes /\ script.todo \ {n} \in SUBSET Nodes
    BY <1>1 DEF IsScript
  <2>2. ScriptIs(script', script.op, "create", script.todo \ {n})
    <3>1. Turns("create", script.todo \ {n})
      BY <1>1, <1>3, <2>1 DEF Turns
    <3> QED
      BY <1>1, <3>1, ScriptTurns
  <2>3. sts' \in [Nodes -> 0 .. S!NoSts]
    BY <1>1, <1>3, <2>1, ScaleConstants DEF ScaledInv
  <2> QED
    BY <1>1, <1>3, <2>2, <2>3 DEF ScaleInv, ScaledInv, ScriptIs
<1>4. CASE script' = [script EXCEPT !.pc = "scale", !.todo = Nodes] /\ UNCHANGED <<sts, data>>
  <2>1. ScriptIs(script', script.op, "scale", Nodes)
    <3>1. Turns("scale", Nodes)
      BY <1>1, <1>4 DEF Turns
    <3> QED
      BY <1>1, <3>1, ScriptTurns
  <2> QED
    BY <1>1, <1>4, <2>1 DEF ScaleInv, ScaledInv, ScriptIs
<1> QED
  BY <1>2, <1>3, <1>4 DEF S!CreateStatefulSet

LEMMA ScaleSetStep ==
  ASSUME ScaleInv, S!ScaleStatefulSet
  PROVE  ScaleInv'
<1>1. /\ script.pc = "scale" /\ file' = file /\ IsScript(script) /\ ScaledInv
      /\ (Stored' => PointInv(file')) /\ PointInv(data)
  BY DEF ScaleInv, S!ScaleStatefulSet, Stored
<1>2. CASE S!Ends /\ sts' = sts
  BY <1>1, <1>2, EndsKeeps
<1>3. ASSUME NEW n \in script.todo, sts' = [sts EXCEPT ![n] = Count],
             script' = [script EXCEPT !.todo = script.todo \ {n}], data' = data
      PROVE  ScaleInv'
  <2>1. n \in Nodes /\ script.todo \ {n} \in SUBSET Nodes
    BY <1>1 DEF IsScript
  <2>2. ScriptIs(script', script.op, "scale", script.todo \ {n})
    <3>1. Turns("scale", script.todo \ {n})
      BY <1>1, <1>3, <2>1 DEF Turns
    <3> QED
      BY <1>1, <3>1, ScriptTurns
  <2>3. sts' \in [Nodes -> 0 .. S!NoSts] /\ sts'[n] = Count
    BY <1>1, <1>3, <2>1, ScaleConstants DEF ScaledInv, S!NoSts
  <2>4. \A o \in Nodes \ {n} : sts'[o] = sts[o]
    BY <1>1, <1>3 DEF ScaledInv
  <2>5. script.op = "all" => \A o \in Nodes \ (script.todo \ {n}) : sts'[o] = Count
    BY <1>1, <2>3, <2>4 DEF ScaledInv
  <2> QED
    BY <1>1, <1>3, <2>2, <2>3, <2>5 DEF ScaleInv, ScaledInv, ScriptIs
<1>4. CASE script.todo = {} /\ script' = [script EXCEPT !.pc = "start"] /\ UNCHANGED <<sts, data>>
  <2>1. ScriptIs(script', script.op, "start", script.todo)
    <3>1. Moves("start")
      BY <1>1, <1>4 DEF Moves, ScalePlaces
    <3> QED
      BY <1>1, <3>1, ScriptMoves
  <2> QED
    BY <1>1, <1>4, <2>1 DEF ScaleInv, ScaledInv, ScriptIs
<1> QED
  BY <1>2, <1>3, <1>4 DEF S!ScaleStatefulSet

(* A step of the monitor that moves on and leaves the StatefulSets.        *)
LEMMA MonitorMoves ==
  ASSUME ScaleInv, script.pc \notin {"none", "create", "scale"},
         NEW pc \in ScalePlaces \ {"none", "create", "scale"},
         ScriptIs(script', script.op, pc, script.todo),
         UNCHANGED sts, PointInv(data'), Stored' => PointInv(file')
  PROVE  ScaleInv'
BY DEF ScaleInv, ScaledInv, ScriptIs

(* An update counts the pods.                                              *)
LEMMA CountStep ==
  ASSUME ScaleInv, S!CountPods
  PROVE  PointInv(data')
<1> DEFINE time == data.times + 1
           late == data.late \cup {time : p \in S!Ready \ S!InTime}
           found == S!InTime # S!Ready /\ data.startingPoint = S!Missing
           point == IF found THEN S!NewPoint ELSE data.startingPoint
           crash == IF S!Cardinality(S!Crashing) > MaxCrashing /\ data.crashingPoint = S!Missing
                    THEN S!NewPoint ELSE data.crashingPoint
           new == [data EXCEPT !.times = time, !.valid = data.valid \cup S!InTime,
                               !.late = late, !.startingPoint = point, !.crashingPoint = crash]
<1>1. PointInv(data)
  BY DEF ScaleInv
<1>2. data' = new
  BY DEF S!CountPods
<1>3. /\ data.times \in Nat /\ time \in Nat /\ data.late \in SUBSET Nat
      /\ data.late \subseteq 1 .. data.times
  BY <1>1 DEF PointInv, IsData
<1>4. late \in SUBSET Nat /\ late \subseteq 1 .. time
  BY <1>3
<1>5. /\ IsData(new) /\ new.times = time /\ new.late = late /\ new.startingPoint = point
  <2> HIDE DEF time, late, point, crash
  <2> QED
    BY <1>1, <1>3, <1>4 DEF PointInv, IsData
<1>6. S!InTime \subseteq S!Ready /\ S!NewPoint.time = time
  BY DEF S!InTime, S!NewPoint
<1>7. /\ late = {} => data.late = {} /\ S!InTime = S!Ready
      /\ S!InTime # S!Ready => late = data.late \cup {time}
      /\ S!InTime = S!Ready => late = data.late
  BY <1>6
<1>8. late = {} => point = S!Missing
  BY <1>1, <1>7 DEF PointInv
<1>9. ASSUME late # {}
      PROVE  point.time \in late /\ \A t \in late : point.time <= t
  <2>1. CASE data.late = {}
    <3>1. S!InTime # S!Ready /\ found
      BY <1>1, <1>7, <1>9, <2>1 DEF PointInv
    <3>2. point.time = time /\ late = {time}
      BY <1>6, <1>7, <2>1, <3>1
    <3> QED
      BY <1>3, <3>2
  <2>2. CASE data.late # {}
    <3>1. data.startingPoint.time \in data.late
      BY <1>1, <2>2 DEF PointInv
    <3>2. data.startingPoint # S!Missing
      BY <1>3, <3>1 DEF S!Missing
    <3>3. point = data.startingPoint /\ point.time \in 1 .. data.times
      BY <1>3, <3>1, <3>2
    <3>4. \A t \in data.late : point.time <= t
      BY <1>1, <2>2, <3>3 DEF PointInv
    <3>5. point.time <= time
      BY <1>3, <3>3
    <3>6. \A t \in late : t \in data.late \/ t = time
      OBVIOUS
    <3>7. data.late \subseteq late
      OBVIOUS
    <3> HIDE DEF point, late, time
    <3> QED
      BY <3>1, <3>3, <3>4, <3>5, <3>6, <3>7
  <2> QED
    BY <2>1, <2>2
<1> HIDE DEF late, point, time, new
<1> QED
  BY <1>2, <1>4, <1>5, <1>8, <1>9 DEF PointInv

LEMMA PadKeepsPoint ==
  ASSUME PointInv(data), NEW cpu, NEW ram, NEW order,
         data' = [data EXCEPT !.cpu = cpu, !.ram = ram, !.order = order]
  PROVE  PointInv(data')
<1> DEFINE new == [data EXCEPT !.cpu = cpu, !.ram = ram, !.order = order]
<1>1. /\ IsData(new) /\ new.times = data.times /\ new.late = data.late
      /\ new.startingPoint = data.startingPoint
  BY DEF PointInv, IsData
<1> HIDE DEF new
<1>2. data' = new
  BY DEF new
<1> QED
  BY <1>1, <1>2 DEF PointInv

LEMMA MonitorStep ==
  ASSUME ScaleInv,
         \/ S!StartMonitor \/ S!ListPods \/ S!ListMetrics \/ S!CountPods \/ S!PadMetrics
         \/ S!Truncate \/ S!Save \/ S!Draw
  PROVE  ScaleInv'
<1>1. IsScript(script) /\ PointInv(data) /\ (Stored => PointInv(file))
  BY DEF ScaleInv
<1>2. CASE S!Ends /\ UNCHANGED <<sts, file>>
  BY <1>2, EndsKeeps
<1>3. CASE S!StartMonitor
  <2>1. script.pc = "start" /\ UNCHANGED <<sts, file>>
    BY <1>3 DEF S!StartMonitor, S!MonitorOnly
  <2>2. CASE S!Ends
    BY <1>2, <2>1, <2>2
  <2>3. CASE ~S!Ends
    <3>1. PointInv(data') /\ script' = [script EXCEPT !.pc = "pods"]
      BY <1>1, <1>3, <2>3, NoDataPoint DEF S!StartMonitor, Stored
    <3>2. ScriptIs(script', script.op, "pods", script.todo)
      <4>1. Moves("pods")
        BY <1>1, <3>1 DEF Moves, ScalePlaces
      <4> QED
        BY <1>1, <4>1, ScriptMoves
    <3>3. Stored' => PointInv(file')
      BY <1>1, <2>1 DEF Stored
    <3> QED
      BY <2>1, <3>1, <3>2, <3>3, MonitorMoves DEF ScalePlaces
  <2> QED
    BY <2>2, <2>3
<1>4. CASE S!ListPods
  <2>1. script.pc = "pods" /\ UNCHANGED <<sts, file, data>>
    BY <1>4 DEF S!ListPods, S!MonitorOnly
  <2>2. PICK pc \in {"metrics", "draw"} : ScriptIs(script', script.op, pc, script.todo)
    <3>1. CASE script' = [script EXCEPT !.pc = "metrics", !.seen = pod]
      <4>1. ScriptIs(script', script.op, "metrics", script.todo)
        <5>1. Moves("metrics")
          <6>1. "metrics" \in ScalePlaces
            BY DEF ScalePlaces
          <6> QED
            BY <1>1, <3>1, <6>1, Zenon DEF Moves
        <5> QED
          BY <1>1, <5>1, ScriptMoves
      <4> QED
        BY <4>1
    <3>2. CASE script' = [script EXCEPT !.pc = "draw"]
      <4>1. ScriptIs(script', script.op, "draw", script.todo)
        <5>1. Moves("draw")
          BY <1>1, <3>2 DEF Moves, ScalePlaces
        <5> QED
          BY <1>1, <5>1, ScriptMoves
      <4> QED
        BY <4>1
    <3> QED
      BY <1>4, <3>1, <3>2 DEF S!ListPods
  <2>3. PointInv(data') /\ (Stored' => PointInv(file'))
    BY <1>1, <2>1 DEF Stored
  <2> QED
    BY <2>1, <2>2, <2>3, MonitorMoves DEF ScalePlaces
<1>5. CASE S!ListMetrics
  <2>1. script.pc = "metrics" /\ UNCHANGED <<sts, file>>
    BY <1>5, Zenon DEF S!ListMetrics, S!MonitorOnly
  <2>2. CASE S!Ends
    BY <1>2, <2>1, <2>2
  <2>3. CASE ~S!Ends
    <3>1. /\ data' = data
          /\ \E order : script' = [script EXCEPT !.pc = "count", !.reported = order]
      BY <1>5, <2>3, Zenon DEF S!ListMetrics
    <3>2. ScriptIs(script', script.op, "count", script.todo)
      <4>1. Moves("count")
        <5>1. "count" \in ScalePlaces
          BY DEF ScalePlaces
        <5> QED
          BY <1>1, <3>1, <5>1, Zenon DEF Moves
      <4> QED
        BY <1>1, <4>1, ScriptMoves
    <3>3. PointInv(data') /\ (Stored' => PointInv(file'))
      BY <1>1, <2>1, <3>1 DEF Stored
    <3> QED
      BY <2>1, <3>2, <3>3, MonitorMoves DEF ScalePlaces
  <2> QED
    BY <2>2, <2>3
<1>6. CASE S!CountPods
  <2>1. /\ script.pc = "count" /\ UNCHANGED <<sts, file>>
        /\ script' = [script EXCEPT !.pc = "pad"]
    BY <1>6 DEF S!CountPods, S!MonitorOnly
  <2>2. ScriptIs(script', script.op, "pad", script.todo)
    <3>1. Moves("pad")
      BY <1>1, <2>1 DEF Moves, ScalePlaces
    <3> QED
      BY <1>1, <3>1, ScriptMoves
  <2>3. PointInv(data') /\ (Stored' => PointInv(file'))
    BY <1>1, <1>6, <2>1, CountStep DEF Stored
  <2> QED
    BY <2>1, <2>2, <2>3, MonitorMoves DEF ScalePlaces
<1>7. CASE S!PadMetrics
  <2>1. script.pc = "pad" /\ UNCHANGED <<sts, file>>
    BY <1>7 DEF S!PadMetrics, S!MonitorOnly
  <2>2. CASE S!Ends
    BY <1>2, <2>1, <2>2
  <2>3. CASE ~S!Ends
    <3>1. /\ script' = [script EXCEPT !.pc = "truncate"]
          /\ \/ data' = data
             \/ data' = [data EXCEPT !.cpu = S!Padded, !.ram = S!Appended(data.ram),
                                     !.order = S!Order]
      BY <1>7, <2>3 DEF S!PadMetrics
    <3>2. ScriptIs(script', script.op, "truncate", script.todo)
      <4>1. Moves("truncate")
        BY <1>1, <3>1 DEF Moves, ScalePlaces
      <4> QED
        BY <1>1, <4>1, ScriptMoves
    <3>3. PointInv(data')
      BY <1>1, <3>1, PadKeepsPoint, Zenon
    <3>4. Stored' => PointInv(file')
      BY <1>1, <2>1 DEF Stored
    <3> QED
      BY <2>1, <3>2, <3>3, <3>4, MonitorMoves DEF ScalePlaces
  <2> QED
    BY <2>2, <2>3
<1>8. CASE S!Truncate
  <2>1. /\ script.pc = "truncate" /\ UNCHANGED <<sts, data>> /\ file' = S!EmptyFile
        /\ script' = [script EXCEPT !.pc = "write"]
    BY <1>8 DEF S!Truncate, S!MonitorOnly
  <2>2. ScriptIs(script', script.op, "write", script.todo)
    <3>1. Moves("write")
      BY <1>1, <2>1 DEF Moves, ScalePlaces
    <3> QED
      BY <1>1, <3>1, ScriptMoves
  <2>3. PointInv(data') /\ ~Stored'
    BY <1>1, <2>1 DEF Stored
  <2> QED
    BY <2>1, <2>2, <2>3, MonitorMoves DEF ScalePlaces
<1>9. CASE S!Save
  <2>1. /\ script.pc = "write" /\ UNCHANGED <<sts, data>> /\ file' = data
        /\ script' = [script EXCEPT !.pc = "draw"]
    BY <1>9 DEF S!Save, S!MonitorOnly
  <2>2. ScriptIs(script', script.op, "draw", script.todo)
    <3>1. Moves("draw")
      BY <1>1, <2>1 DEF Moves, ScalePlaces
    <3> QED
      BY <1>1, <3>1, ScriptMoves
  <2>3. PointInv(data') /\ PointInv(file')
    BY <1>1, <2>1
  <2> QED
    BY <2>1, <2>2, <2>3, MonitorMoves DEF ScalePlaces
<1>10. CASE S!Draw
  BY <1>2, <1>10 DEF S!Draw, S!MonitorOnly
<1> QED
  BY <1>3, <1>4, <1>5, <1>6, <1>7, <1>8, <1>9, <1>10

LEMMA ScaleStutter ==
  ASSUME ScaleInv, UNCHANGED <<sts, file, script, data>>
  PROVE  ScaleInv'
BY DEF ScaleInv, ScaledInv, Stored

LEMMA ScaleStep ==
  ASSUME ScaleInv, S!Next
  PROVE  ScaleInv'
<1>1. CASE S!Start
  BY <1>1, StartStep
<1>2. CASE S!CreateStatefulSet \/ S!ScaleStatefulSet
  BY <1>2, CreateSetStep, ScaleSetStep
<1>3. CASE \/ S!StartMonitor \/ S!ListPods \/ S!ListMetrics \/ S!CountPods \/ S!PadMetrics
           \/ S!Truncate \/ S!Save \/ S!Draw
  BY <1>3, MonitorStep
<1>4. CASE S!Interrupt
  BY <1>4, EndsKeeps DEF S!Interrupt, S!MonitorOnly
<1>5. CASE S!PodGetsReady \/ S!PodGoes
  BY <1>5, ScaleStutter DEF S!PodGetsReady, S!PodGoes
<1> QED
  BY <1>1, <1>2, <1>3, <1>4, <1>5 DEF S!Next, S!Script

LEMMA PointFollows == ScaleInv => S!MonitoredIsScaled /\ S!PointIsTheFirst
<1> SUFFICES ASSUME ScaleInv PROVE S!MonitoredIsScaled /\ S!PointIsTheFirst
  OBVIOUS
<1>1. S!MonitoredIsScaled
  BY Zenon DEF ScaleInv, ScaledInv, S!MonitoredIsScaled
<1>2. S!PointIsTheFirst
  BY DEF ScaleInv, PointInv, Stored, S!PointIsTheFirst
<1> QED
  BY <1>1, <1>2

-----------------------------------------------------------------------------
(* Induction over numbers, and what is iterated over a sequence            *)

(* Of numbers there is a least one: the initial segments up to them are    *)
(* finite, and one of these contains none of the others.                   *)
LEMMA LeastNumber ==
  ASSUME NEW T \in SUBSET Nat, T # {}
  PROVE  \E n \in T : \A m \in T : n <= m
<1> DEFINE Segments == {0 .. n : n \in T}
<1>1. Segments \subseteq FiniteSubsetsOf(Nat) /\ Segments # {}
  <2>1. \A n \in T : IsFiniteSet(0 .. n) /\ 0 .. n \in SUBSET Nat
    BY FS_Interval
  <2> QED
    BY <2>1 DEF FiniteSubsetsOf
<1>2. IsWellFoundedOn(StrictSubsetOrdering(Nat), FiniteSubsetsOf(Nat))
  BY FS_StrictSubsetOrderingWellFounded
<1>3. PICK X \in Segments : \A Y \in Segments : <<Y, X>> \notin StrictSubsetOrdering(Nat)
  <2> HIDE DEF Segments
  <2> QED
    BY <1>1, <1>2, WFMin
<1>4. PICK n \in T : X = 0 .. n
  BY <1>3
<1>5. ASSUME NEW m \in T, ~(n <= m)
      PROVE  FALSE
  <2>1. m \in Nat /\ n \in Nat /\ m < n
    BY <1>5
  <2>2. 0 .. m \subseteq 0 .. n /\ 0 .. m # 0 .. n /\ 0 .. m \in Segments
    BY <2>1
  <2>3. <<0 .. m, 0 .. n>> \in (SUBSET Nat) \X (SUBSET Nat)
    BY <2>1
  <2>4. <<0 .. m, 0 .. n>> \in StrictSubsetOrdering(Nat)
    BY <2>2, <2>3 DEF StrictSubsetOrdering
  <2> QED
    BY <1>3, <1>4, <2>2, <2>4
<1> QED
  BY <1>4, <1>5

LEMMA EveryStep ==
  ASSUME NEW N \in Nat, NEW P, 0 \in P, \A i \in 1 .. N : i - 1 \in P => i \in P
  PROVE  0 .. N \subseteq P
<1> DEFINE T == (0 .. N) \ P
<1> SUFFICES ASSUME T # {} PROVE FALSE
  OBVIOUS
<1>1. PICK n \in T : \A m \in T : n <= m
  <2>1. T \in SUBSET Nat
    OBVIOUS
  <2> HIDE DEF T
  <2> QED
    BY <2>1, LeastNumber
<1>2. n \in 1 .. N /\ n - 1 \in 0 .. N /\ ~(n <= n - 1)
  BY <1>1
<1>3. n - 1 \in P
  BY <1>1, <1>2
<1> QED
  BY <1>1, <1>2, <1>3

(* A step for each of N elements, given as a function, can be iterated.    *)
Iterates(f, N, t, g) == f[0] = t /\ \A i \in 1 .. N : f[i] = g[<<i, f[i - 1]>>]

LEMMA Iteration ==
  ASSUME NEW N \in Nat, NEW T, NEW t \in T, NEW g \in [(1 .. N) \X T -> T]
  PROVE  \E f \in [0 .. N -> T] : Iterates(f, N, t, g)
<1> DEFINE Upto(n, f) == f[0] = t /\ \A i \in 1 .. n : f[i] = g[<<i, f[i - 1]>>]
           P == {n \in 0 .. N : \E f \in [0 .. n -> T] : Upto(n, f)}
<1>1. 0 \in P
  <2> DEFINE h == [i \in 0 .. 0 |-> t]
  <2>1. h \in [0 .. 0 -> T] /\ h[0] = t /\ 0 \in 0 .. N
    OBVIOUS
  <2>2. \A i \in 1 .. 0 : FALSE
    OBVIOUS
  <2> HIDE DEF h
  <2> QED
    BY <2>1, <2>2
<1>2. ASSUME NEW n \in 1 .. N, n - 1 \in P
      PROVE  n \in P
  <2>1. PICK f \in [0 .. n - 1 -> T] : Upto(n - 1, f)
    BY <1>2
  <2> DEFINE h == [i \in 0 .. n |-> IF i = n THEN g[<<n, f[n - 1]>>] ELSE f[i]]
  <2>2. n - 1 \in 0 .. n - 1 /\ <<n, f[n - 1]>> \in (1 .. N) \X T
    BY <2>1
  <2>3. h \in [0 .. n -> T] /\ h[n] = g[<<n, f[n - 1]>>] /\ \A i \in 0 .. n - 1 : h[i] = f[i]
    BY <2>1, <2>2
  <2> HIDE DEF h
  <2>4. h[0] = t
    BY <2>1, <2>3
  <2>5. ASSUME NEW i \in 1 .. n
        PROVE  h[i] = g[<<i, h[i - 1]>>]
    <3>1. i - 1 \in 0 .. n - 1
      OBVIOUS
    <3>2. CASE i = n
      BY <2>3, <3>1, <3>2
    <3>3. CASE i # n
      <4>1. i \in 1 .. n - 1 /\ i \in 0 .. n - 1
        BY <3>3
      <4> QED
        BY <2>1, <2>3, <3>1, <4>1
    <3> QED
      BY <3>2, <3>3
  <2> QED
    BY <2>3, <2>4, <2>5
<1> HIDE DEF P
<1>3. N \in P
  BY <1>1, <1>2, EveryStep
<1> QED
  BY <1>3 DEF P, Iterates

-----------------------------------------------------------------------------
(* What the Monitor makes of the lists of metrics                          *)

LEMMA OrderIsOfNodes ==
  ASSUME script.reported \in Seq(Nodes), data.order \in Seq(Nodes)
  PROVE  S!Order \in Seq(Nodes)
<1> DEFINE N == Len(script.reported)
           Old(n) == n \in S!ToSet(data.order)
           order[i \in 0 .. N] == IF i = 0 THEN data.order
                                  ELSE IF Old(script.reported[i]) THEN order[i - 1]
                                  ELSE Append(order[i - 1], script.reported[i])
           g == [x \in (1 .. N) \X Seq(Nodes) |->
                    IF Old(script.reported[x[1]]) THEN x[2]
                    ELSE Append(x[2], script.reported[x[1]])]
<1>1. N \in Nat /\ \A i \in 1 .. N : script.reported[i] \in Nodes
  OBVIOUS
<1>2. S!Order = order[N]
  BY Zenon DEF S!Order
<1> HIDE DEF N, Old
<1>3. g \in [(1 .. N) \X Seq(Nodes) -> Seq(Nodes)]
  BY <1>1
<1>4. \A i \in 1 .. N, s \in Seq(Nodes) :
         g[<<i, s>>] = IF Old(script.reported[i]) THEN s ELSE Append(s, script.reported[i])
  OBVIOUS
<1> HIDE DEF g
<1>5. PICK f \in [0 .. N -> Seq(Nodes)] :
         f[0] = data.order /\ \A i \in 1 .. N : f[i] = g[<<i, f[i - 1]>>]
  <2> DEFINE T == Seq(Nodes)
  <2>1. g \in [(1 .. N) \X T -> T] /\ data.order \in T /\ N \in Nat
    BY <1>1, <1>3
  <2> HIDE DEF T
  <2>2. \E f \in [0 .. N -> T] : Iterates(f, N, data.order, g)
    BY <2>1, Iteration, Zenon
  <2> QED
    BY <2>2 DEF T, Iterates
<1>6. f = [i \in 0 .. N |-> IF i = 0 THEN data.order
                            ELSE IF Old(script.reported[i]) THEN f[i - 1]
                            ELSE Append(f[i - 1], script.reported[i])]
  <2>1. ASSUME NEW i \in 0 .. N, i # 0
        PROVE  f[i] = IF Old(script.reported[i]) THEN f[i - 1]
                      ELSE Append(f[i - 1], script.reported[i])
    <3>1. i \in 1 .. N /\ i - 1 \in 0 .. N
      BY <1>1, <2>1
    <3> QED
      BY <1>4, <1>5, <3>1
  <2> QED
    BY <1>5, <2>1
<1>7. order = [i \in 0 .. N |-> IF i = 0 THEN data.order
                                ELSE IF Old(script.reported[i]) THEN order[i - 1]
                                ELSE Append(order[i - 1], script.reported[i])]
  BY <1>6, Zenon
<1> HIDE DEF order
<1> DEFINE P == {i \in 0 .. N : order[i] \in Seq(Nodes)}
<1>8. 0 \in P
  BY <1>1, <1>7
<1>9. ASSUME NEW i \in 1 .. N, i - 1 \in P
      PROVE  i \in P
  <2>1. i \in 0 .. N /\ i # 0 /\ script.reported[i] \in Nodes
    BY <1>1
  <2>2. order[i] = IF Old(script.reported[i]) THEN order[i - 1]
                   ELSE Append(order[i - 1], script.reported[i])
    BY <1>7, <2>1
  <2>3. order[i - 1] \in Seq(Nodes)
    BY <1>9
  <2>4. Append(order[i - 1], script.reported[i]) \in Seq(Nodes)
    BY <2>1, <2>3
  <2> QED
    BY <2>1, <2>2, <2>3, <2>4
<1> HIDE DEF P
<1>10. 0 .. N \subseteq P
  BY <1>1, <1>8, <1>9, EveryStep
<1> QED
  BY <1>1, <1>2, <1>10 DEF P

LEMMA PaddedAreLists ==
  ASSUME NEW lists, NEW cpu \in [Nodes -> Nat], NEW last \in Nodes, S!Order \in Seq(Nodes),
         data.ram \in [Nodes -> Nat], data.times \in Nat
  PROVE  S!PadLoop(lists, cpu, last) \in [Nodes -> Nat]
<1> DEFINE T == [Nodes -> Nat]
           N == Len(S!Order)
           len(c, n) == IF lists = "cpu" THEN c[n] ELSE S!Appended(data.ram)[n]
           Pad(c, n) == IF len(c, n) < data.times
                        THEN [c EXCEPT ![last] = c[last] + (data.times - len(c, n))] ELSE c
           padded[i \in 0 .. N] == IF i = 0 THEN cpu ELSE Pad(padded[i - 1], S!Order[i])
           g == [x \in (1 .. N) \X T |-> Pad(x[2], S!Order[x[1]])]
<1>1. N \in Nat /\ \A i \in 1 .. N : S!Order[i] \in Nodes
  OBVIOUS
<1>2. S!PadLoop(lists, cpu, last) = padded[N]
  BY Zenon DEF S!PadLoop
<1>3. ASSUME NEW c \in T, NEW n \in Nodes
      PROVE  Pad(c, n) \in T
  <2>1. len(c, n) \in Nat
    BY DEF S!Appended
  <2> HIDE DEF len
  <2>2. len(c, n) < data.times => c[last] + (data.times - len(c, n)) \in Nat
    BY <2>1
  <2> QED
    BY <2>2
<1> HIDE DEF N, Pad
<1>4. g \in [(1 .. N) \X T -> T] /\ cpu \in T
  BY <1>1, <1>3
<1>5. \A i \in 1 .. N, c \in T : g[<<i, c>>] = Pad(c, S!Order[i])
  OBVIOUS
<1> HIDE DEF g, T
<1>6. PICK f \in [0 .. N -> T] : Iterates(f, N, cpu, g)
  BY <1>1, <1>4, Iteration, Zenon
<1>7. f = [i \in 0 .. N |-> IF i = 0 THEN cpu ELSE Pad(f[i - 1], S!Order[i])]
  <2>1. ASSUME NEW i \in 0 .. N, i # 0
        PROVE  f[i] = Pad(f[i - 1], S!Order[i])
    <3>1. i \in 1 .. N /\ i - 1 \in 0 .. N
      BY <1>1, <2>1
    <3> QED
      BY <1>5, <1>6, <3>1 DEF Iterates
  <2>2. f[0] = cpu
    BY <1>6 DEF Iterates
  <2> QED
    BY <1>6, <2>1, <2>2
<1>8. padded = [i \in 0 .. N |-> IF i = 0 THEN cpu ELSE Pad(padded[i - 1], S!Order[i])]
  BY <1>7, Zenon
<1> HIDE DEF padded
<1> DEFINE P == {i \in 0 .. N : padded[i] \in T}
<1>9. 0 \in P
  BY <1>1, <1>4, <1>8
<1>10. ASSUME NEW i \in 1 .. N, i - 1 \in P
       PROVE  i \in P
  <2>1. i \in 0 .. N /\ i # 0 /\ S!Order[i] \in Nodes
    BY <1>1
  <2>2. padded[i] = Pad(padded[i - 1], S!Order[i])
    BY <1>8, <2>1
  <2> QED
    BY <1>3, <1>10, <2>1, <2>2
<1> HIDE DEF P
<1>11. 0 .. N \subseteq P
  BY <1>1, <1>9, <1>10, EveryStep
<1> QED
  BY <1>1, <1>2, <1>11 DEF P, T

-----------------------------------------------------------------------------
(* The types of the scalability test                                       *)

Scripts == [pc : {"none", "create", "scale", "start", "pods", "metrics", "count", "pad",
                  "truncate", "write", "draw"},
            op : {"all", "scale", "monitor"}, preload : BOOLEAN, todo : SUBSET Nodes,
            seen : [Pods -> S!PodState], reported : Seq(Nodes)]
ScaleTypes == /\ sts \in [Nodes -> 0 .. S!NoSts] /\ pod \in [Pods -> S!PodState]
              /\ file \in {S!NoFile, S!EmptyFile} \cup S!Data /\ data \in S!Data
              /\ script \in Scripts
BoundTypes == runs \in 0 .. MaxRuns /\ errors \in 0 .. ScaleErrors /\ replaced \in 0 .. MaxReplaced

LEMMA ScaleTypeIs == S!TypeOK <=> ScaleTypes /\ BoundTypes
BY Zenon DEF S!TypeOK, ScaleTypes, BoundTypes, Scripts

LEMMA FirstValues ==
  /\ S!NoScript \in Scripts /\ S!NoData \in S!Data /\ S!Absent \in S!PodState
  /\ 0 \in 0 .. S!NoSts /\ Count \in 0 .. S!NoSts /\ S!NoSts \in 0 .. S!NoSts
<1>1. S!Absent \in S!PodState
  BY DEF S!Absent, S!PodState
<1>2. [p \in Pods |-> S!Absent] \in [Pods -> S!PodState] /\ <<>> \in Seq(Nodes)
  BY <1>1
<1>3. S!NoScript \in Scripts
  BY <1>2 DEF S!NoScript, Scripts
<1>4. S!Missing \in S!Point
  BY DEF S!Missing, S!Point
<1>5. S!NoData \in S!Data
  BY <1>2, <1>4 DEF S!NoData, S!Data
<1>6. Count \in Nat
  BY ScaleBounds DEF S!Bounds
<1> QED
  BY <1>1, <1>3, <1>5, <1>6 DEF S!NoSts

LEMMA ScaleTypeInit == S!Init => S!TypeOK
<1> SUFFICES ASSUME S!Init PROVE ScaleTypes /\ BoundTypes
  BY ScaleTypeIs
<1>1. ScaleTypes
  BY FirstValues DEF S!Init, ScaleTypes
<1>2. BoundTypes
  BY ScaleBounds DEF S!Init, S!Bounds, BoundTypes
<1> QED
  BY <1>1, <1>2

LEMMA BoundStep ==
  ASSUME BoundTypes, S!Next
  PROVE  BoundTypes'
<1> USE ScaleBounds DEF S!Bounds, BoundTypes
<1>1. MaxRuns \in Nat /\ ScaleErrors \in Nat /\ MaxReplaced \in Nat
  OBVIOUS
<1>2. /\ runs' = runs \/ (runs < MaxRuns /\ runs' = runs + 1)
      /\ errors' = errors \/ (errors < ScaleErrors /\ errors' = errors + 1)
      /\ replaced' = replaced \/ (replaced < MaxReplaced /\ replaced' = replaced + 1)
  <2>1. CASE S!Start
    BY <2>1, Zenon DEF S!Start
  <2>2. CASE S!CreateStatefulSet
    BY <2>2, Zenon DEF S!CreateStatefulSet, S!Fails, S!Ends
  <2>3. CASE S!ScaleStatefulSet
    BY <2>3, Zenon DEF S!ScaleStatefulSet, S!Fails, S!Ends
  <2>4. CASE S!StartMonitor \/ S!CountPods \/ S!PadMetrics \/ S!Truncate \/ S!Save \/ S!Draw
    BY <2>4, Zenon DEF S!StartMonitor, S!CountPods, S!PadMetrics, S!Truncate, S!Save, S!Draw,
       S!MonitorOnly
  <2>5. CASE S!ListPods \/ S!ListMetrics \/ S!Interrupt
    BY <2>5, Zenon DEF S!ListPods, S!ListMetrics, S!Interrupt, S!Fails, S!MonitorOnly
  <2>6. CASE S!PodGetsReady \/ S!PodGoes
    BY <2>6, Zenon DEF S!PodGetsReady, S!PodGoes
  <2> QED
    BY <2>1, <2>2, <2>3, <2>4, <2>5, <2>6, Zenon DEF S!Next, S!Script
<1> QED
  BY <1>1, <1>2

LEMMA StartTypes ==
  ASSUME ScaleTypes, S!Start
  PROVE  ScaleTypes'
<1>1. /\ UNCHANGED <<sts, pod, file, data>>
      /\ \/ script' = [S!NoScript EXCEPT !.op = "all", !.pc = "create", !.todo = Nodes]
         \/ script' = [S!NoScript EXCEPT !.op = "scale", !.pc = "scale",
                                         !.todo = {n \in Nodes : sts[n] # S!NoSts}]
         \/ \E preload \in BOOLEAN :
               script' = [S!NoScript EXCEPT !.pc = "start", !.preload = preload]
  BY Zenon DEF S!Start
<1>2. S!NoScript \in Scripts
  BY FirstValues
<1> HIDE DEF S!NoScript
<1>3. ASSUME script' = [S!NoScript EXCEPT !.op = "all", !.pc = "create", !.todo = Nodes]
      PROVE  script' \in Scripts
  BY <1>2, <1>3 DEF Scripts
<1>4. ASSUME NEW todo \in SUBSET Nodes,
             script' = [S!NoScript EXCEPT !.op = "scale", !.pc = "scale", !.todo = todo]
      PROVE  script' \in Scripts
  BY <1>2, <1>4 DEF Scripts
<1>5. ASSUME NEW preload \in BOOLEAN,
             script' = [S!NoScript EXCEPT !.pc = "start", !.preload = preload]
      PROVE  script' \in Scripts
  BY <1>2, <1>5 DEF Scripts
<1>6. {n \in Nodes : sts[n] # S!NoSts} \in SUBSET Nodes
  OBVIOUS
<1>7. script' \in Scripts
  BY <1>1, <1>3, <1>4, <1>5, <1>6, Zenon
<1> QED
  BY <1>1, <1>7 DEF ScaleTypes

(* A run that ends has the first values again.                             *)
LEMMA EndsTypes ==
  ASSUME ScaleTypes, S!Ends, UNCHANGED <<sts, pod, file>>
  PROVE  ScaleTypes'
BY FirstValues DEF S!Ends, ScaleTypes

LEMMA SetTypes ==
  ASSUME ScaleTypes, S!CreateStatefulSet \/ S!ScaleStatefulSet
  PROVE  ScaleTypes'
<1>1. pod' = pod /\ file' = file
  BY Zenon DEF S!CreateStatefulSet, S!ScaleStatefulSet
<1>2. \/ sts' = sts /\ S!Ends
      \/ /\ data' = data
         /\ \/ sts' = sts
            \/ \E n \in Nodes : sts' = [sts EXCEPT ![n] = 0] \/ sts' = [sts EXCEPT ![n] = Count]
         /\ \/ \E todo \in SUBSET Nodes : script' = [script EXCEPT !.todo = todo]
            \/ script' = [script EXCEPT !.pc = "scale", !.todo = Nodes]
            \/ script' = [script EXCEPT !.pc = "start"]
  <2>1. script.todo \in SUBSET Nodes /\ \A n : script.todo \ {n} \in SUBSET Nodes
    BY DEF ScaleTypes, Scripts
  <2>2. CASE S!CreateStatefulSet
    BY <2>1, <2>2, Zenon DEF S!CreateStatefulSet
  <2>3. CASE S!ScaleStatefulSet
    BY <2>1, <2>3, Zenon DEF S!ScaleStatefulSet
  <2> QED
    BY <2>2, <2>3
<1>3. sts' \in [Nodes -> 0 .. S!NoSts]
  <2>1. sts \in [Nodes -> 0 .. S!NoSts] /\ 0 \in 0 .. S!NoSts /\ Count \in 0 .. S!NoSts
    BY FirstValues DEF ScaleTypes
  <2> QED
    BY <1>2, <2>1
<1>4. CASE S!Ends /\ sts' = sts
  BY <1>1, <1>4, EndsTypes
<1>5. ASSUME \/ \E todo \in SUBSET Nodes : script' = [script EXCEPT !.todo = todo]
             \/ script' = [script EXCEPT !.pc = "scale", !.todo = Nodes]
             \/ script' = [script EXCEPT !.pc = "start"]
      PROVE  script' \in Scripts
  BY <1>5 DEF ScaleTypes, Scripts
<1>6. CASE data' = data /\ script' \in Scripts
  BY <1>1, <1>3, <1>6 DEF ScaleTypes
<1> QED
  BY <1>2, <1>4, <1>5, <1>6

LEMMA ReadTypes ==
  ASSUME ScaleTypes, S!StartMonitor \/ S!ListPods \/ S!Truncate \/ S!Save \/ S!Draw \/ S!Interrupt
  PROVE  ScaleTypes'
<1>1. sts' = sts /\ pod' = pod
  BY Zenon DEF S!StartMonitor, S!ListPods, S!Truncate, S!Save, S!Draw, S!Interrupt, S!MonitorOnly
<1>2. CASE S!Ends /\ file' = file
  BY <1>1, <1>2, EndsTypes
<1>3. ASSUME \/ \E pc \in {"pods", "draw", "write"} : script' = [script EXCEPT !.pc = pc]
             \/ script' = [script EXCEPT !.pc = "metrics", !.seen = pod]
      PROVE  script' \in Scripts
  BY <1>3 DEF ScaleTypes, Scripts
<1>4. CASE S!StartMonitor
  <2>1. CASE script.preload /\ file \in {S!NoFile, S!EmptyFile}
    BY <1>2, <1>4, <2>1, Zenon DEF S!StartMonitor
  <2>2. CASE ~(script.preload /\ file \in {S!NoFile, S!EmptyFile})
    <3>1. /\ data' = (IF script.preload THEN file ELSE S!NoData)
          /\ script' = [script EXCEPT !.pc = "pods"] /\ file' = file
      BY <1>4, <2>2, Zenon DEF S!StartMonitor
    <3>2. data' \in S!Data
      BY <2>2, <3>1, FirstValues DEF ScaleTypes
    <3> QED
      BY <1>1, <1>3, <3>1, <3>2 DEF ScaleTypes
  <2> QED
    BY <2>1, <2>2
<1>5. CASE S!ListPods
  <2>1. /\ data' = data /\ file' = file
        /\ \/ script' = [script EXCEPT !.pc = "draw"]
           \/ script' = [script EXCEPT !.pc = "metrics", !.seen = pod]
    BY <1>5, Zenon DEF S!ListPods
  <2> QED
    BY <1>1, <1>3, <2>1 DEF ScaleTypes
<1>6. CASE S!Truncate
  <2>1. data' = data /\ file' = S!EmptyFile /\ script' = [script EXCEPT !.pc = "write"]
    BY <1>6, Zenon DEF S!Truncate
  <2> QED
    BY <1>1, <1>3, <2>1 DEF ScaleTypes
<1>7. CASE S!Save
  <2>1. data' = data /\ file' = data /\ script' = [script EXCEPT !.pc = "draw"]
    BY <1>7, Zenon DEF S!Save
  <2> QED
    BY <1>1, <1>3, <2>1 DEF ScaleTypes
<1>8. CASE S!Draw \/ S!Interrupt
  BY <1>2, <1>8, Zenon DEF S!Draw, S!Interrupt
<1> QED
  BY <1>4, <1>5, <1>6, <1>7, <1>8

LEMMA ScaleSizes ==
  /\ IsFiniteSet(Nodes \cup Pods)
  /\ \A X : S!Cardinality(X) = Cardinality(X)
  /\ \A X \in SUBSET (Nodes \cup Pods) : Cardinality(X) \in Nat
<1>1. IsFiniteSet(Nodes \cup Pods)
  BY ScaleBounds DEF S!Bounds, S!IsFiniteSet, IsFiniteSet
<1>2. \A X : S!Cardinality(X) = Cardinality(X)
  BY DEF S!Cardinality, Cardinality, S!IsFiniteSet, IsFiniteSet
<1>3. ASSUME NEW X \in SUBSET (Nodes \cup Pods)
      PROVE  Cardinality(X) \in Nat
  BY <1>1, FS_Subset, FS_CardinalityType
<1> QED
  BY <1>1, <1>2, <1>3

(* The nodes that report metrics, in some order: a sequence of nodes.      *)
LEMMA ReportedIsOfNodes ==
  ASSUME NEW X \in SUBSET Nodes, NEW order \in S!SetToSeqs(X)
  PROVE  order \in Seq(Nodes)
<1>1. X \in SUBSET (Nodes \cup Pods)
  OBVIOUS
<1>2. S!Cardinality(X) \in Nat
  BY <1>1, ScaleSizes
<1>3. order \in [1 .. S!Cardinality(X) -> X]
  BY DEF S!SetToSeqs
<1> QED
  BY <1>2, <1>3

LEMMA MetricsTypes ==
  ASSUME ScaleTypes, S!ListMetrics
  PROVE  ScaleTypes'
<1>1. sts' = sts /\ pod' = pod /\ file' = file
  BY Zenon DEF S!ListMetrics, S!MonitorOnly
<1>2. CASE S!Ends
  BY <1>1, <1>2, EndsTypes
<1>3. ASSUME NEW order \in Seq(Nodes), data' = data,
             script' = [script EXCEPT !.pc = "count", !.reported = order]
      PROVE  ScaleTypes'
  <2>1. script' \in Scripts
    BY <1>3 DEF ScaleTypes, Scripts
  <2> QED
    BY <1>1, <1>3, <2>1 DEF ScaleTypes
<1>4. \/ S!Ends
      \/ /\ data' = data
         /\ \E X \in SUBSET Nodes : \E order \in S!SetToSeqs(X) :
               script' = [script EXCEPT !.pc = "count", !.reported = order]
  BY Zenon DEF S!ListMetrics
<1> QED
  BY <1>2, <1>3, <1>4, ReportedIsOfNodes, Zenon

LEMMA CountTypes ==
  ASSUME ScaleTypes, S!CountPods
  PROVE  ScaleTypes'
<1>1. UNCHANGED <<sts, pod, file>> /\ script' = [script EXCEPT !.pc = "pad"]
  BY Zenon DEF S!CountPods, S!MonitorOnly
<1>2. script' \in Scripts
  BY <1>1 DEF ScaleTypes, Scripts
<1>3. data \in S!Data
  BY DEF ScaleTypes
<1>4. S!InTime \in SUBSET Pods
  BY DEF S!InTime, S!Ready
<1>5. S!Cardinality(S!InTime) \in Nat
  <2>1. S!InTime \in SUBSET (Nodes \cup Pods)
    BY <1>4
  <2> QED
    BY <2>1, ScaleSizes
<1>6. data.times + 1 \in Nat
  BY <1>3 DEF S!Data
<1>7. S!NewPoint \in S!Point
  BY <1>5, <1>6 DEF S!NewPoint, S!Point
<1>8. PICK starting \in S!Point, crashing \in S!Point, late \in SUBSET Nat :
         data' = [data EXCEPT !.times = data.times + 1, !.valid = data.valid \cup S!InTime,
                              !.late = late, !.startingPoint = starting,
                              !.crashingPoint = crashing]
  <2> DEFINE starting == IF S!InTime # S!Ready /\ data.startingPoint = S!Missing
                         THEN S!NewPoint ELSE data.startingPoint
             crashing == IF S!Cardinality(S!Crashing) > MaxCrashing
                            /\ data.crashingPoint = S!Missing
                         THEN S!NewPoint ELSE data.crashingPoint
             late == data.late \cup {data.times + 1 : p \in S!Ready \ S!InTime}
  <2>1. data' = [data EXCEPT !.times = data.times + 1, !.valid = data.valid \cup S!InTime,
                             !.late = late, !.startingPoint = starting,
                             !.crashingPoint = crashing]
    BY DEF S!CountPods
  <2>2. data.startingPoint \in S!Point /\ data.crashingPoint \in S!Point
    BY <1>3 DEF S!Data
  <2>3. starting \in S!Point /\ crashing \in S!Point
    BY <1>7, <2>2
  <2>4. late \in SUBSET Nat
    BY <1>3, <1>6 DEF S!Data
  <2> HIDE DEF starting, crashing, late
  <2> QED
    BY <2>1, <2>3, <2>4, Zenon
<1>9. data.valid \cup S!InTime \in SUBSET Pods
  BY <1>3, <1>4 DEF S!Data
<1>10. data' \in S!Data
  BY <1>3, <1>6, <1>8, <1>9 DEF S!Data
<1> QED
  BY <1>1, <1>2, <1>10 DEF ScaleTypes

LEMMA PadTypes ==
  ASSUME ScaleTypes, S!PadMetrics
  PROVE  ScaleTypes'
<1>1. UNCHANGED <<sts, pod, file>>
  BY Zenon DEF S!PadMetrics, S!MonitorOnly
<1>2. CASE S!Ends
  BY <1>1, <1>2, EndsTypes
<1>3. ASSUME script' = [script EXCEPT !.pc = "truncate"]
      PROVE  script' \in Scripts
  BY <1>3 DEF ScaleTypes, Scripts
<1>4. CASE data' = data /\ script' = [script EXCEPT !.pc = "truncate"]
  BY <1>1, <1>3, <1>4 DEF ScaleTypes
<1>5. CASE /\ script.reported # <<>> /\ script' = [script EXCEPT !.pc = "truncate"]
           /\ data' = [data EXCEPT !.cpu = S!Padded, !.ram = S!Appended(data.ram),
                                   !.order = S!Order]
  <2>1. data \in S!Data /\ script.reported \in Seq(Nodes)
    BY DEF ScaleTypes, Scripts
  <2>2. /\ data.times \in Nat /\ data.order \in Seq(Nodes)
        /\ data.cpu \in [Nodes -> Nat] /\ data.ram \in [Nodes -> Nat]
    BY <2>1 DEF S!Data
  <2>3. S!Order \in Seq(Nodes)
    BY <2>1, <2>2, OrderIsOfNodes
  <2>4. S!Last(script.reported) \in Nodes
    BY <1>5, <2>1 DEF S!Last
  <2>5. S!Appended(data.cpu) \in [Nodes -> Nat] /\ S!Appended(data.ram) \in [Nodes -> Nat]
    BY <2>2 DEF S!Appended
  <2>6. S!Padded \in [Nodes -> Nat]
    <3> DEFINE last == S!Last(script.reported)
               first == S!PadLoop("cpu", S!Appended(data.cpu), last)
    <3>1. S!Padded = S!PadLoop("ram", first, last)
      BY Zenon DEF S!Padded
    <3>2. last \in Nodes
      BY <2>4
    <3> HIDE DEF last
    <3>3. first \in [Nodes -> Nat]
      BY <2>2, <2>3, <2>5, <3>2, PaddedAreLists, Zenon
    <3> HIDE DEF first
    <3> QED
      BY <2>2, <2>3, <3>1, <3>2, <3>3, PaddedAreLists, Zenon
  <2>7. data' \in S!Data
    BY <1>5, <2>1, <2>3, <2>5, <2>6 DEF S!Data
  <2> QED
    BY <1>1, <1>3, <1>5, <2>7 DEF ScaleTypes
<1>6. \/ S!Ends
      \/ data' = data /\ script' = [script EXCEPT !.pc = "truncate"]
      \/ /\ script.reported # <<>> /\ script' = [script EXCEPT !.pc = "truncate"]
         /\ data' = [data EXCEPT !.cpu = S!Padded, !.ram = S!Appended(data.ram),
                                 !.order = S!Order]
  BY Zenon DEF S!PadMetrics
<1> QED
  BY <1>2, <1>4, <1>5, <1>6

LEMMA PodTypes ==
  ASSUME ScaleTypes, S!PodGetsReady \/ S!PodGoes
  PROVE  ScaleTypes'
<1>1. UNCHANGED <<sts, file, data, script>>
  BY Zenon DEF S!PodGetsReady, S!PodGoes
<1>2. pod \in [Pods -> S!PodState]
  BY DEF ScaleTypes
<1>3. CASE S!PodGetsReady
  <2>1. PICK p \in Pods, late \in BOOLEAN :
           pod' = [pod EXCEPT ![p].ready = TRUE, ![p].late = late]
    BY <1>3, Zenon DEF S!PodGetsReady
  <2>2. pod' \in [Pods -> S!PodState]
    BY <1>2, <2>1 DEF S!PodState
  <2> QED
    BY <1>1, <2>2 DEF ScaleTypes
<1>4. CASE S!PodGoes
  <2>1. PICK p \in Pods, restarted \in BOOLEAN :
           pod' = [pod EXCEPT ![p] = [S!Absent EXCEPT !.restarted = restarted]]
    BY <1>4, Zenon DEF S!PodGoes
  <2>2. [S!Absent EXCEPT !.restarted = restarted] \in S!PodState
    BY DEF S!Absent, S!PodState
  <2>3. pod' \in [Pods -> S!PodState]
    BY <1>2, <2>1, <2>2
  <2> QED
    BY <1>1, <2>3 DEF ScaleTypes
<1> QED
  BY <1>3, <1>4

LEMMA ScaleTypeStep ==
  ASSUME S!TypeOK, S!Next \/ UNCHANGED scale
  PROVE  S!TypeOK'
<1>1. ScaleTypes /\ BoundTypes
  BY ScaleTypeIs
<1>2. CASE UNCHANGED scale
  <2>1. ScaleTypes' /\ BoundTypes'
    BY <1>1, <1>2 DEF scale, ScaleTypes, BoundTypes
  <2> QED
    BY <2>1, ScaleTypeIs, PTL
<1>3. CASE S!Next
  <2>1. ScaleTypes'
    BY <1>1, <1>3, StartTypes, SetTypes, ReadTypes, MetricsTypes, CountTypes, PadTypes, PodTypes,
       Zenon DEF S!Next, S!Script
  <2>2. BoundTypes'
    BY <1>1, <1>3, BoundStep
  <2> QED
    BY <2>1, <2>2, ScaleTypeIs, PTL
<1> QED
  BY <1>2, <1>3

-----------------------------------------------------------------------------
(* junit_to_qase.py                                                        *)

TestSet == [suite : Titles, case : Titles, outcome : Q!Outcome]
ReporterSet ==
    [pc : {"collect", "getSuite", "addSuite", "getCase", "addCase", "run", "post",
           "complete", "done", "raised"}, at : Nat, ids : Seq(Nat)]
RunSet == [created : BOOLEAN, results : Seq(Q!Result), complete : BOOLEAN]

QaseNumbers ==
    /\ BatchSize \in Nat \ {0} /\ MaxFailures \in Nat
    /\ \A tests \in Reports : tests \in Seq(TestSet) /\ tests # <<>>
    /\ TitleOf \in [Titles -> Titles] /\ Matches \in [Titles -> SUBSET Titles]

LEMMA QaseConstants == QaseNumbers
BY ReportBounds DEF Q!Bounds, QaseNumbers, TestSet

QaseTypes ==
    /\ suites \in Seq(Titles) /\ cases \in Seq(Titles)
    /\ report \in [Reporters -> Reports]
    /\ reporter \in [Reporters -> ReporterSet]
    /\ run \in [Reporters -> RunSet]
    /\ refused \in [Reporters -> BOOLEAN]
    /\ added \in [Reporters -> Seq(Titles)] /\ failures \in 0 .. MaxFailures

LEMMA QaseTyped == Q!TypeOK <=> QaseTypes
BY DEF Q!TypeOK, QaseTypes, ReporterSet, RunSet

(* The id is of a case that the search for the test's name finds, or that  *)
(* was added for it.                                                       *)
IsCaseOf(id, test) == /\ id \in 1 .. Len(cases)
                      /\ cases[id] \in Matches[test.case] \cup {TitleOf[test.case]}

(* The ids that a reporter has are of the cases of its first results.      *)
IdsInv(r) ==
    LET pc == reporter[r].pc
        at == reporter[r].at
        ids == reporter[r].ids
        last == Len(report[r])
    IN  /\ pc \notin {"collect", "raised"} =>
              \A k \in 1 .. last : report[r][k].outcome # "failedSilently"
        /\ pc = "collect" => at = 1
        /\ pc \in {"collect", "getSuite", "addSuite"} => ids = <<>>
        /\ pc \in {"getSuite", "addSuite", "getCase", "addCase"} => at \in 1 .. last
        /\ pc \in {"getCase", "addCase"} => Len(ids) = at - 1
        /\ pc \in {"run", "post", "complete", "done"} => Len(ids) = last
        /\ pc # "raised" => \A k \in 1 .. Len(ids) : IsCaseOf(ids[k], report[r][k])

(* What the batches that were sent have posted.                            *)
Posted(r, n) ==
    LET results == run[r].results
    IN  /\ Len(results) = n
        /\ \A k \in 1 .. n : /\ results[k].case = reporter[r].ids[k]
                             /\ results[k].status = Q!StatusOf(report[r][k].outcome)

RunInv(r) ==
    LET pc == reporter[r].pc
        at == reporter[r].at
        last == Len(report[r])
    IN  /\ pc \in {"collect", "getSuite", "addSuite", "getCase", "addCase", "run"} =>
              run[r].results = <<>>
        /\ pc = "run" => at = 1
        /\ pc = "post" => at > 0
        /\ pc = "post" /\ ~refused[r] => Posted(r, IF at - 1 < last THEN at - 1 ELSE last)
        /\ pc \in {"complete", "done"} /\ ~refused[r] => Posted(r, last)
        /\ run[r].complete => pc = "done"

(* A case that was added is there, so that a search that finds its title   *)
(* by its name finds it again.                                             *)
IsThere(title) == \E id \in 1 .. Len(cases) : cases[id] = title

AddedInv(r) ==
    /\ \A k \in 1 .. Len(added[r]) : IsThere(TitleOf[added[r][k]])
    /\ \A k \in 1 .. Len(added[r]) :
          reporter[r].pc = "addCase" /\ added[r][k] = report[r][reporter[r].at].case
             => TitleOf[added[r][k]] \notin Matches[added[r][k]]
    /\ \A i, j \in 1 .. Len(added[r]) :
          added[r][i] = added[r][j] /\ TitleOf[added[r][i]] \in Matches[added[r][i]] => i = j

ReporterInv(r) == IdsInv(r) /\ RunInv(r) /\ AddedInv(r)
QaseInv == QaseTypes /\ \A r \in Reporters : ReporterInv(r)

LEMMA QaseInit == Q!Init => QaseInv
<1> SUFFICES ASSUME Q!Init PROVE QaseInv
  OBVIOUS
<1>1. [pc |-> "collect", at |-> 1, ids |-> <<>>] \in ReporterSet
  BY DEF ReporterSet
<1>2. [created |-> FALSE, results |-> <<>>, complete |-> FALSE] \in RunSet
  BY DEF RunSet
<1>3. QaseTypes
  <2>1. suites \in Seq(Titles) /\ cases \in Seq(Titles)
    BY DEF Q!Init
  <2>2. reporter \in [Reporters -> ReporterSet] /\ run \in [Reporters -> RunSet]
    BY <1>1, <1>2 DEF Q!Init
  <2>3. refused \in [Reporters -> BOOLEAN] /\ added \in [Reporters -> Seq(Titles)]
    BY DEF Q!Init
  <2>4. report \in [Reporters -> Reports] /\ failures \in 0 .. MaxFailures
    BY QaseConstants DEF Q!Init, QaseNumbers
  <2> QED
    BY <2>1, <2>2, <2>3, <2>4 DEF QaseTypes
<1>4. ASSUME NEW r \in Reporters PROVE ReporterInv(r)
  <2>1. /\ reporter[r].pc = "collect" /\ reporter[r].at = 1 /\ reporter[r].ids = <<>>
        /\ run[r].results = <<>> /\ ~run[r].complete /\ added[r] = <<>>
    BY DEF Q!Init
  <2>2. IdsInv(r) /\ RunInv(r)
    BY <2>1 DEF IdsInv, RunInv
  <2>3. AddedInv(r)
    BY <2>1 DEF AddedInv
  <2> QED
    BY <2>2, <2>3 DEF ReporterInv
<1> QED
  BY <1>3, <1>4 DEF QaseInv

(* Cases are only ever added to the service.                               *)
Grows == /\ cases' \in Seq(Titles) /\ Len(cases') >= Len(cases)
         /\ \A id \in 1 .. Len(cases) : cases'[id] = cases[id]

(* A step of a reporter leaves the others as they are, but for new cases.  *)
OnlyOf(r) == /\ Grows /\ report' = report
             /\ \A o \in Reporters \ {r} :
                   /\ reporter'[o] = reporter[o] /\ run'[o] = run[o]
                   /\ refused'[o] = refused[o] /\ added'[o] = added[o]

LEMMA GrowsKeeps ==
  ASSUME QaseTypes, Grows
  PROVE  /\ \A id, test : IsCaseOf(id, test) => IsCaseOf(id, test)'
         /\ \A title : IsThere(title) => IsThere(title)'
<1>1. Len(cases) \in Nat /\ Len(cases') \in Nat
  BY DEF QaseTypes, Grows
<1>2. 1 .. Len(cases) \subseteq 1 .. Len(cases')
  BY <1>1 DEF Grows
<1> QED
  BY <1>2 DEF Grows, IsCaseOf, IsThere

LEMMA OthersKeepReporterInv ==
  ASSUME QaseInv, QaseTypes', NEW r \in Reporters, OnlyOf(r), ReporterInv(r)'
  PROVE  QaseInv'
<1> SUFFICES ASSUME NEW o \in Reporters, o # r PROVE ReporterInv(o)'
  BY DEF QaseInv
<1>1. /\ reporter'[o] = reporter[o] /\ run'[o] = run[o]
      /\ refused'[o] = refused[o] /\ added'[o] = added[o] /\ report' = report
  BY DEF OnlyOf
<1>2. ReporterInv(o) /\ QaseTypes /\ Grows
  BY DEF QaseInv, OnlyOf
<1>3. IdsInv(o)'
  BY <1>1, <1>2, GrowsKeeps DEF ReporterInv, IdsInv
<1>4. RunInv(o)'
  BY <1>1, <1>2 DEF ReporterInv, RunInv, Posted
<1>5. AddedInv(o)'
  BY <1>1, <1>2, GrowsKeeps DEF ReporterInv, AddedInv
<1> QED
  BY <1>3, <1>4, <1>5 DEF ReporterInv

-----------------------------------------------------------------------------
(* Where a reporter is after a step.                                       *)

Places == {"collect", "getSuite", "addSuite", "getCase", "addCase", "run", "post",
           "complete", "done", "raised"}

ReporterIs(r, pc, at, ids) ==
    /\ reporter' \in [Reporters -> ReporterSet]
    /\ \A o \in Reporters \ {r} : reporter'[o] = reporter[o]
    /\ reporter'[r].pc = pc /\ reporter'[r].at = at /\ reporter'[r].ids = ids

LEMMA ReporterTyped ==
  ASSUME QaseTypes, NEW r \in Reporters
  PROVE  /\ reporter[r] \in ReporterSet /\ reporter[r].pc \in Places /\ reporter[r].at \in Nat
         /\ reporter[r].ids \in Seq(Nat)
         /\ report[r] \in Seq(TestSet) /\ Len(report[r]) \in Nat \ {0}
         /\ \A k \in 1 .. Len(report[r]) : report[r][k] \in TestSet
<1>1. reporter[r] \in ReporterSet /\ report[r] \in Reports
  BY DEF QaseTypes
<1>2. report[r] \in Seq(TestSet) /\ report[r] # <<>>
  BY <1>1, QaseConstants DEF QaseNumbers
<1>3. Len(report[r]) \in Nat \ {0} /\ \A k \in 1 .. Len(report[r]) : report[r][k] \in TestSet
  BY <1>2
<1> QED
  BY <1>1, <1>2, <1>3 DEF ReporterSet, Places

LEMMA ReporterGoto ==
  ASSUME QaseTypes, NEW r \in Reporters, NEW pc \in Places, Q!Goto(r, pc)
  PROVE  ReporterIs(r, pc, reporter[r].at, reporter[r].ids)
<1> DEFINE m == [reporter[r] EXCEPT !.pc = pc]
<1>1. m \in ReporterSet /\ m.pc = pc /\ m.at = reporter[r].at /\ m.ids = reporter[r].ids
  BY ReporterTyped DEF ReporterSet, Places
<1>2. reporter' = [reporter EXCEPT ![r] = m] /\ reporter \in [Reporters -> ReporterSet]
  BY DEF Q!Goto, QaseTypes, ReporterSet
<1> HIDE DEF m
<1> QED
  BY <1>1, <1>2 DEF ReporterIs

LEMMA ReporterNext ==
  ASSUME QaseTypes, NEW r \in Reporters, NEW pc \in Places, NEW then \in Places,
         NEW ids \in Seq(Nat), Q!NextResult(r, pc, then, ids)
  PROVE  IF reporter[r].at = Len(report[r])
         THEN ReporterIs(r, then, 1, ids)
         ELSE ReporterIs(r, pc, reporter[r].at + 1, ids)
<1> DEFINE last == reporter[r].at = Len(report[r])
           m == [pc |-> IF last THEN then ELSE pc,
                 at |-> IF last THEN 1 ELSE reporter[r].at + 1, ids |-> ids]
<1>1. reporter[r].at + 1 \in Nat
  BY ReporterTyped
<1>2. /\ m \in ReporterSet /\ m.ids = ids
      /\ last => m.pc = then /\ m.at = 1
      /\ ~last => m.pc = pc /\ m.at = reporter[r].at + 1
  BY <1>1 DEF ReporterSet, Places
<1>3. reporter' = [reporter EXCEPT ![r] = m] /\ reporter \in [Reporters -> ReporterSet]
  BY DEF Q!NextResult, QaseTypes
<1> HIDE DEF m
<1> QED
  BY <1>2, <1>3 DEF ReporterIs

LEMMA QaseFails ==
  ASSUME QaseTypes, Q!Fails \/ UNCHANGED failures
  PROVE  failures' \in 0 .. MaxFailures
BY QaseConstants DEF QaseTypes, QaseNumbers, Q!Fails

(* A step that only moves the reporter, and may add a suite.               *)
LEMMA OnlyMoves ==
  ASSUME QaseInv, NEW r \in Reporters, NEW pc \in Places, NEW at, NEW ids,
         ReporterIs(r, pc, at, ids),
         suites' \in Seq(Titles), Q!Fails \/ UNCHANGED failures,
         UNCHANGED <<cases, report, run, refused, added>>
  PROVE  QaseTypes' /\ OnlyOf(r)
<1>1. failures' \in 0 .. MaxFailures
  BY QaseFails DEF QaseInv
<1>2. QaseTypes'
  BY <1>1 DEF QaseInv, QaseTypes, ReporterIs
<1>3. Grows
  BY DEF QaseInv, QaseTypes, Grows
<1> QED
  BY <1>2, <1>3 DEF OnlyOf, ReporterIs

LEMMA RaisesStep ==
  ASSUME QaseInv, NEW r \in Reporters, Q!Raises(r), reporter[r].pc # "done"
  PROVE  QaseInv'
<1>1. /\ Q!Fails /\ Q!Goto(r, "raised") /\ "raised" \in Places
      /\ UNCHANGED <<cases, report, run, refused, added>> /\ suites' = suites
  BY DEF Q!Raises, Places
<1>2. ReporterIs(r, "raised", reporter[r].at, reporter[r].ids)
  BY <1>1, ReporterGoto DEF QaseInv
<1>3. suites' \in Seq(Titles)
  BY <1>1 DEF QaseInv, QaseTypes
<1>4. QaseTypes' /\ OnlyOf(r)
  BY <1>1, <1>2, <1>3, OnlyMoves
<1>5. ReporterInv(r)
  BY DEF QaseInv
<1>6. reporter'[r].pc = "raised"
  BY <1>2 DEF ReporterIs
<1>7. IdsInv(r)' /\ RunInv(r)'
  BY <1>1, <1>5, <1>6 DEF ReporterInv, IdsInv, RunInv
<1>8. AddedInv(r)'
  BY <1>1, <1>5, <1>6 DEF ReporterInv, AddedInv, IsThere
<1> QED
  BY <1>4, <1>7, <1>8, OthersKeepReporterInv DEF ReporterInv

LEMMA CollectStep ==
  ASSUME QaseInv, NEW r \in Reporters, Q!collect_test_results(r)
  PROVE  QaseInv'
<1>1. reporter[r].pc = "collect" /\ UNCHANGED <<suites, cases, report, run, refused, added, failures>>
  BY DEF Q!collect_test_results
<1>2. PICK pc \in {"getSuite", "raised"} :
         /\ Q!Goto(r, pc)
         /\ pc = "getSuite" => \A k \in DOMAIN report[r] : report[r][k].outcome # "failedSilently"
  BY DEF Q!collect_test_results
<1>3. ReporterIs(r, pc, reporter[r].at, reporter[r].ids) /\ pc \in Places
  BY <1>2, ReporterGoto DEF QaseInv, Places
<1>4. suites' \in Seq(Titles) /\ (Q!Fails \/ UNCHANGED failures)
  BY <1>1 DEF QaseInv, QaseTypes
<1>5. QaseTypes' /\ OnlyOf(r)
  BY <1>1, <1>3, <1>4, OnlyMoves
<1>6. IdsInv(r) /\ RunInv(r) /\ AddedInv(r)
  BY DEF QaseInv, ReporterInv
<1>7. reporter'[r].pc = pc /\ reporter'[r].at = 1 /\ reporter'[r].ids = <<>>
  BY <1>1, <1>3, <1>6 DEF ReporterIs, IdsInv
<1>8. DOMAIN report[r] = 1 .. Len(report[r]) /\ 1 \in 1 .. Len(report[r])
  BY ReporterTyped DEF QaseInv
<1>9. IdsInv(r)'
  BY <1>1, <1>2, <1>7, <1>8 DEF IdsInv
<1>10. RunInv(r)'
  BY <1>1, <1>2, <1>6, <1>7 DEF RunInv
<1>11. AddedInv(r)'
  BY <1>1, <1>2, <1>6, <1>7 DEF AddedInv, IsThere
<1> QED
  BY <1>5, <1>9, <1>10, <1>11, OthersKeepReporterInv DEF ReporterInv

(* The loop over the suites: it goes on, or the one over the cases begins. *)
LEMMA SuiteStep ==
  ASSUME QaseInv, NEW r \in Reporters, reporter[r].pc \in {"getSuite", "addSuite"},
         \/ Q!Goto(r, "addSuite") \/ Q!NextResult(r, "getSuite", "getCase", <<>>),
         suites' \in Seq(Titles), UNCHANGED <<cases, report, run, refused, added, failures>>
  PROVE  QaseInv'
<1>1. IdsInv(r) /\ RunInv(r) /\ AddedInv(r) /\ QaseTypes
  BY DEF QaseInv, ReporterInv
<1>2. /\ reporter[r].at \in 1 .. Len(report[r]) /\ Len(report[r]) \in Nat \ {0}
      /\ reporter[r].ids = <<>> /\ run[r].results = <<>> /\ ~run[r].complete
      /\ \A k \in 1 .. Len(report[r]) : report[r][k].outcome # "failedSilently"
  BY <1>1, ReporterTyped DEF IdsInv, RunInv
<1>3. PICK pc \in {"getSuite", "addSuite", "getCase"}, at \in 1 .. Len(report[r]) :
         ReporterIs(r, pc, at, <<>>) /\ (pc = "getCase" => at = 1)
  <2>1. CASE Q!Goto(r, "addSuite")
    BY <1>1, <1>2, <2>1, ReporterGoto DEF Places
  <2>2. CASE Q!NextResult(r, "getSuite", "getCase", <<>>)
    <3>1. IF reporter[r].at = Len(report[r])
          THEN ReporterIs(r, "getCase", 1, <<>>)
          ELSE ReporterIs(r, "getSuite", reporter[r].at + 1, <<>>)
      <4>1. <<>> \in Seq(Nat) /\ "getCase" \in Places /\ "getSuite" \in Places
        BY DEF Places
      <4> QED
        BY <1>1, <2>2, <4>1, ReporterNext, Zenon
    <3>2. 1 \in 1 .. Len(report[r])
      BY <1>2
    <3>3. reporter[r].at # Len(report[r]) => reporter[r].at + 1 \in 1 .. Len(report[r])
      BY <1>2
    <3> QED
      BY <3>1, <3>2, <3>3
  <2> QED
    BY <2>1, <2>2
<1>4. pc \in Places
  BY DEF Places
<1>5. QaseTypes' /\ OnlyOf(r)
  BY <1>3, <1>4, OnlyMoves
<1>6. reporter'[r].pc = pc /\ reporter'[r].at = at /\ reporter'[r].ids = <<>>
  BY <1>3 DEF ReporterIs
<1>7. IdsInv(r)'
  BY <1>2, <1>3, <1>6 DEF IdsInv
<1>8. RunInv(r)'
  BY <1>2, <1>3, <1>6 DEF RunInv
<1>9. AddedInv(r)'
  BY <1>1, <1>3, <1>6 DEF AddedInv, IsThere
<1> QED
  BY <1>5, <1>7, <1>8, <1>9, OthersKeepReporterInv DEF ReporterInv

LEMMA SuitesStep ==
  ASSUME QaseInv, NEW r \in Reporters, Q!get_suite_id(r) \/ Q!add_missing_suite(r)
  PROVE  QaseInv'
<1>1. reporter[r].pc \in {"getSuite", "addSuite"}
  BY DEF Q!get_suite_id, Q!add_missing_suite
<1>2. CASE Q!Raises(r)
  BY <1>1, <1>2, RaisesStep
<1>3. CASE ~Q!Raises(r)
  <2>1. /\ Q!Goto(r, "addSuite") \/ Q!NextResult(r, "getSuite", "getCase", <<>>)
        /\ suites' = suites \/ suites' = Append(suites, report[r][reporter[r].at].suite)
        /\ UNCHANGED <<cases, report, run, refused, added, failures>>
    BY <1>3 DEF Q!get_suite_id, Q!add_missing_suite, Q!Test
  <2>2. report[r][reporter[r].at].suite \in Titles
    <3>1. reporter[r].at \in 1 .. Len(report[r])
      BY <1>1 DEF QaseInv, ReporterInv, IdsInv
    <3>2. report[r][reporter[r].at] \in TestSet
      BY <3>1, ReporterTyped DEF QaseInv
    <3> QED
      BY <3>2 DEF TestSet
  <2>3. suites' \in Seq(Titles)
    <3>1. suites \in Seq(Titles)
      BY DEF QaseInv, QaseTypes
    <3> DEFINE title == report[r][reporter[r].at].suite
    <3>2. title \in Titles /\ (suites' = suites \/ suites' = Append(suites, title))
      BY <2>1, <2>2
    <3> HIDE DEF title
    <3> QED
      BY <3>1, <3>2
  <2> QED
    BY <1>1, <2>1, <2>3, SuiteStep
<1> QED
  BY <1>2, <1>3

(* The loop over the cases.                                                *)
LEMMA TestedCase ==
  ASSUME QaseInv, NEW r \in Reporters, reporter[r].pc \in {"getCase", "addCase"}
  PROVE  /\ reporter[r].at \in 1 .. Len(report[r]) /\ Len(report[r]) \in Nat
         /\ Len(reporter[r].ids) = reporter[r].at - 1 /\ reporter[r].ids \in Seq(Nat)
         /\ run[r].results = <<>> /\ ~run[r].complete
         /\ \A k \in 1 .. Len(report[r]) : report[r][k].outcome # "failedSilently"
         /\ report[r][reporter[r].at].case \in Titles
         /\ TitleOf[report[r][reporter[r].at].case] \in Titles
         /\ Matches[report[r][reporter[r].at].case] \in SUBSET Titles
<1>1. IdsInv(r) /\ RunInv(r) /\ QaseTypes
  BY DEF QaseInv, ReporterInv
<1>2. reporter[r].at \in 1 .. Len(report[r])
  BY <1>1 DEF IdsInv
<1>3. report[r][reporter[r].at].case \in Titles
  BY <1>1, <1>2, ReporterTyped DEF TestSet
<1>4. /\ TitleOf[report[r][reporter[r].at].case] \in Titles
      /\ Matches[report[r][reporter[r].at].case] \in SUBSET Titles
  BY <1>3, QaseConstants DEF QaseNumbers
<1>5. /\ Len(report[r]) \in Nat /\ reporter[r].ids \in Seq(Nat)
  BY <1>1, ReporterTyped
<1> QED
  BY <1>1, <1>2, <1>3, <1>4, <1>5 DEF IdsInv, RunInv

(* A case was found or added: the next result, or the end of the loop.     *)
WillBeCaseOf(id, test) == /\ id \in 1 .. Len(cases')
                          /\ cases'[id] \in Matches[test.case] \cup {TitleOf[test.case]}

LEMMA CaseIsKnown ==
  ASSUME QaseInv, NEW r \in Reporters, reporter[r].pc \in {"getCase", "addCase"},
         NEW id \in Nat, Q!NextResult(r, "getCase", "run", Append(reporter[r].ids, id)),
         Grows, WillBeCaseOf(id, report[r][reporter[r].at]),
         UNCHANGED <<report, run, refused>>
  PROVE  /\ IdsInv(r)' /\ RunInv(r)'
         /\ reporter' \in [Reporters -> ReporterSet]
         /\ \A o \in Reporters \ {r} : reporter'[o] = reporter[o]
         /\ reporter'[r].pc # "addCase"
<1> DEFINE at == reporter[r].at
           ids == reporter[r].ids
           new == Append(ids, id)
           last == Len(report[r])
<1>1. /\ at \in 1 .. last /\ last \in Nat /\ Len(ids) = at - 1 /\ ids \in Seq(Nat)
      /\ run[r].results = <<>> /\ ~run[r].complete
      /\ \A k \in 1 .. last : report[r][k].outcome # "failedSilently"
  BY TestedCase
<1>2. /\ new \in Seq(Nat) /\ Len(new) = at /\ new[at] = id
      /\ \A k \in 1 .. at - 1 : new[k] = ids[k]
  BY <1>1
<1>3. \A k \in 1 .. at : WillBeCaseOf(new[k], report[r][k])
  <2> SUFFICES ASSUME NEW k \in 1 .. at PROVE WillBeCaseOf(new[k], report[r][k])
    OBVIOUS
  <2>1. CASE k = at
    BY <1>2, <2>1
  <2>2. CASE k # at
    <3>1. k \in 1 .. at - 1 /\ k \in 1 .. Len(ids)
      BY <1>1, <2>2
    <3>2. IsCaseOf(ids[k], report[r][k])
      BY <3>1 DEF QaseInv, ReporterInv, IdsInv
    <3>3. Len(cases) \in Nat /\ Len(cases') \in Nat
      BY DEF QaseInv, QaseTypes, Grows
    <3>4. WillBeCaseOf(ids[k], report[r][k])
      <4>1. ids[k] \in 1 .. Len(cases) /\ cases'[ids[k]] = cases[ids[k]]
        BY <3>2 DEF IsCaseOf, Grows
      <4>2. ids[k] \in 1 .. Len(cases')
        BY <3>3, <4>1 DEF Grows
      <4> QED
        BY <3>2, <4>1, <4>2, Zenon DEF IsCaseOf, WillBeCaseOf
    <3> QED
      BY <1>2, <3>1, <3>4
  <2> QED
    BY <2>1, <2>2
<1>4. IF at = last THEN ReporterIs(r, "run", 1, new) ELSE ReporterIs(r, "getCase", at + 1, new)
  <2>1. "getCase" \in Places /\ "run" \in Places /\ QaseTypes
    BY DEF Places, QaseInv
  <2> HIDE DEF new
  <2>2. Q!NextResult(r, "getCase", "run", new)
    BY DEF new
  <2> QED
    BY <1>2, <2>1, <2>2, ReporterNext
<1> HIDE DEF new
<1>5. PICK pc \in {"getCase", "run"}, next \in Nat :
         /\ ReporterIs(r, pc, next, new)
         /\ pc = "getCase" => next \in 1 .. last /\ Len(new) = next - 1
         /\ pc = "run" => next = 1 /\ Len(new) = last
  <2>1. CASE at = last
    BY <1>2, <1>4, <2>1
  <2>2. CASE at # last
    <3>1. at + 1 \in 1 .. last /\ at + 1 \in Nat /\ Len(new) = (at + 1) - 1
      BY <1>1, <1>2, <2>2, SMTT(30)
    <3> QED
      BY <1>4, <2>2, <3>1
  <2> QED
    BY <2>1, <2>2
<1>6. /\ reporter'[r].pc = pc /\ reporter'[r].at = next /\ reporter'[r].ids = new
      /\ reporter' \in [Reporters -> ReporterSet]
      /\ \A o \in Reporters \ {r} : reporter'[o] = reporter[o]
  BY <1>5 DEF ReporterIs
<1>7. \A k \in 1 .. Len(new) : WillBeCaseOf(new[k], report'[r][k])
  BY <1>2, <1>3
<1>8. IdsInv(r)'
  BY <1>1, <1>5, <1>6, <1>7 DEF IdsInv, IsCaseOf, WillBeCaseOf
<1>9. RunInv(r)'
  BY <1>1, <1>5, <1>6 DEF RunInv
<1> QED
  BY <1>5, <1>6, <1>8, <1>9

LEMMA FoundCaseStep ==
  ASSUME QaseInv, NEW r \in Reporters, Q!get_case_id(r)
  PROVE  QaseInv'
<1>1. reporter[r].pc = "getCase"
  BY DEF Q!get_case_id
<1>2. CASE Q!Raises(r)
  BY <1>1, <1>2, RaisesStep
<1>3. CASE ~Q!Raises(r)
  <2> DEFINE name == report[r][reporter[r].at].case
             found == {id \in DOMAIN cases : cases[id] \in Matches[name]}
  <2>1. PICK id \in IF found = {} THEN {0} ELSE found :
           IF id = 0 THEN Q!Goto(r, "addCase")
           ELSE Q!NextResult(r, "getCase", "run", Append(reporter[r].ids, id))
    BY <1>3 DEF Q!get_case_id, Q!Search, Q!Test, Q!NoId
  <2>2. UNCHANGED <<suites, cases, report, run, refused, added, failures>>
    BY <1>3 DEF Q!get_case_id
  <2>3. IdsInv(r) /\ RunInv(r) /\ AddedInv(r) /\ QaseTypes
    BY DEF QaseInv, ReporterInv
  <2>4. DOMAIN cases = 1 .. Len(cases) /\ Len(cases) \in Nat
    BY <2>3 DEF QaseTypes
  <2>5. Grows
    BY <2>2, <2>3 DEF Grows, QaseTypes
  <2>6. CASE found = {}
    <3>1. Q!Goto(r, "addCase") /\ "addCase" \in Places
      BY <2>1, <2>6 DEF Places
    <3>2. ReporterIs(r, "addCase", reporter[r].at, reporter[r].ids)
      BY <2>3, <3>1, ReporterGoto
    <3>3. suites' \in Seq(Titles) /\ (Q!Fails \/ UNCHANGED failures)
      BY <2>2, <2>3 DEF QaseTypes
    <3>4. QaseTypes' /\ OnlyOf(r)
      BY <2>2, <3>1, <3>2, <3>3, OnlyMoves
    <3>5. /\ reporter'[r].pc = "addCase" /\ reporter'[r].at = reporter[r].at
          /\ reporter'[r].ids = reporter[r].ids
      BY <3>2 DEF ReporterIs
    <3>6. IdsInv(r)' /\ RunInv(r)'
      BY <1>1, <2>2, <2>3, <3>5 DEF IdsInv, RunInv, IsCaseOf
    <3>7. \A k \in 1 .. Len(added[r]) :
             added[r][k] = name => TitleOf[added[r][k]] \notin Matches[added[r][k]]
      <4> SUFFICES ASSUME NEW k \in 1 .. Len(added[r]), added[r][k] = name
                   PROVE  TitleOf[name] \notin Matches[name]
        OBVIOUS
      <4>1. PICK id2 \in 1 .. Len(cases) : cases[id2] = TitleOf[name]
        BY <2>3 DEF AddedInv, IsThere
      <4> QED
        BY <2>4, <2>6, <4>1
    <3>8. AddedInv(r)'
      BY <2>2, <2>3, <3>5, <3>7 DEF AddedInv, IsThere
    <3> QED
      BY <3>4, <3>6, <3>8, OthersKeepReporterInv DEF ReporterInv
  <2>7. CASE found # {}
    <3>1. id \in 1 .. Len(cases) /\ cases[id] \in Matches[name] /\ id # 0 /\ id \in Nat
      BY <2>1, <2>4, <2>7
    <3>2. Q!NextResult(r, "getCase", "run", Append(reporter[r].ids, id))
      BY <2>1, <3>1
    <3>3. WillBeCaseOf(id, report[r][reporter[r].at])
      BY <2>2, <3>1 DEF WillBeCaseOf
    <3>4. UNCHANGED <<report, run, refused>>
      BY <2>2
    <3>5. /\ IdsInv(r)' /\ RunInv(r)' /\ reporter' \in [Reporters -> ReporterSet]
          /\ \A o \in Reporters \ {r} : reporter'[o] = reporter[o]
          /\ reporter'[r].pc # "addCase"
      BY <1>1, <2>5, <3>1, <3>2, <3>3, <3>4, CaseIsKnown
    <3>6. AddedInv(r)'
      BY <2>2, <2>3, <3>5 DEF AddedInv, IsThere
    <3>7. QaseTypes' /\ OnlyOf(r)
      BY <2>2, <2>3, <2>5, <3>5 DEF QaseTypes, OnlyOf
    <3> QED
      BY <3>5, <3>6, <3>7, OthersKeepReporterInv DEF ReporterInv
  <2> QED
    BY <2>6, <2>7
<1> QED
  BY <1>2, <1>3

LEMMA AddedCaseStep ==
  ASSUME QaseInv, NEW r \in Reporters, Q!add_missing_case(r)
  PROVE  QaseInv'
<1>1. reporter[r].pc = "addCase"
  BY DEF Q!add_missing_case
<1>2. CASE Q!Raises(r)
  BY <1>1, <1>2, RaisesStep
<1>3. CASE ~Q!Raises(r)
  <2> DEFINE name == report[r][reporter[r].at].case
             n == Len(cases)
             m == Len(added[r])
  <2>1. /\ cases' = Append(cases, TitleOf[name])
        /\ added' = [added EXCEPT ![r] = Append(added[r], name)]
        /\ Q!NextResult(r, "getCase", "run", Append(reporter[r].ids, n + 1))
        /\ UNCHANGED <<suites, report, run, refused, failures>>
    BY <1>3 DEF Q!add_missing_case, Q!Test, QaseInv, QaseTypes
  <2>2. AddedInv(r) /\ QaseTypes /\ name \in Titles /\ TitleOf[name] \in Titles
    BY <1>1, TestedCase DEF QaseInv, ReporterInv
  <2>3. cases \in Seq(Titles) /\ added \in [Reporters -> Seq(Titles)] /\ added[r] \in Seq(Titles)
    BY <2>2 DEF QaseTypes
  <2> HIDE DEF name
  <2>4. /\ n \in Nat /\ Len(cases') = n + 1 /\ cases' \in Seq(Titles)
        /\ \A id \in 1 .. n : cases'[id] = cases[id]
        /\ cases'[n + 1] = TitleOf[name]
    BY <2>1, <2>2, <2>3
  <2>5. Grows
    BY <2>4 DEF Grows
  <2>6. /\ m \in Nat /\ Len(added'[r]) = m + 1 /\ added'[r] \in Seq(Titles)
        /\ \A k \in 1 .. m : added'[r][k] = added[r][k]
        /\ added'[r][m + 1] = name
        /\ added' \in [Reporters -> Seq(Titles)]
        /\ \A o \in Reporters \ {r} : added'[o] = added[o]
    <3>1. Append(added[r], name) \in Seq(Titles)
      BY <2>2, <2>3
    <3>2. added'[r] = Append(added[r], name)
      BY <2>1, <2>3
    <3>3. /\ m \in Nat /\ Len(added'[r]) = m + 1
          /\ \A k \in 1 .. m : added'[r][k] = added[r][k]
          /\ added'[r][m + 1] = name
      BY <2>2, <2>3, <3>2
    <3> QED
      BY <2>1, <2>3, <3>1, <3>2, <3>3
  <2>7. /\ IdsInv(r)' /\ RunInv(r)' /\ reporter' \in [Reporters -> ReporterSet]
        /\ \A o \in Reporters \ {r} : reporter'[o] = reporter[o]
        /\ reporter'[r].pc # "addCase"
    <3>1. WillBeCaseOf(n + 1, report[r][reporter[r].at])
      BY <2>4 DEF WillBeCaseOf, name
    <3>2. n + 1 \in Nat /\ UNCHANGED <<report, run, refused>>
      BY <2>1, <2>4
    <3> HIDE DEF n
    <3> QED
      BY <1>1, <2>1, <2>5, <3>1, <3>2, CaseIsKnown
  <2>8. AddedInv(r)'
    <3>1. \A k \in 1 .. m : IsThere(TitleOf[added[r][k]]) /\ Len(cases) \in Nat
      BY <2>2, <2>4 DEF AddedInv
    <3>2. ASSUME NEW k \in 1 .. m + 1
          PROVE  \E id \in 1 .. n + 1 : cases'[id] = TitleOf[added'[r][k]]
      <4>1. CASE k = m + 1
        BY <2>4, <2>6, <4>1
      <4>2. CASE k # m + 1
        <5>1. k \in 1 .. m
          BY <2>6, <4>2
        <5>2. PICK id \in 1 .. n : cases[id] = TitleOf[added[r][k]]
          BY <3>1, <5>1 DEF IsThere
        <5>3. id \in 1 .. n + 1
          BY <2>4
        <5> QED
          BY <2>4, <2>6, <5>1, <5>2, <5>3
      <4> QED
        BY <4>1, <4>2
    <3>3. ASSUME NEW i \in 1 .. m + 1, NEW j \in 1 .. m + 1, added'[r][i] = added'[r][j],
                 TitleOf[added'[r][i]] \in Matches[added'[r][i]]
          PROVE  i = j
      <4>1. ASSUME NEW k \in 1 .. m, added[r][k] = name, TitleOf[name] \in Matches[name]
            PROVE  FALSE
        BY <1>1, <2>2, <4>1 DEF AddedInv, name
      <4>2. i = m + 1 \/ i \in 1 .. m
        BY <2>6
      <4>3. j = m + 1 \/ j \in 1 .. m
        BY <2>6
      <4>4. CASE i \in 1 .. m /\ j \in 1 .. m
        BY <2>2, <2>6, <3>3, <4>4 DEF AddedInv
      <4>5. CASE i = m + 1 /\ j \in 1 .. m
        BY <2>6, <3>3, <4>1, <4>5
      <4>6. CASE j = m + 1 /\ i \in 1 .. m
        BY <2>6, <3>3, <4>1, <4>6
      <4> QED
        BY <4>2, <4>3, <4>4, <4>5, <4>6
    <3> HIDE DEF n, m
    <3> QED
      BY <2>4, <2>6, <2>7, <3>2, <3>3 DEF AddedInv, IsThere
  <2>9. QaseTypes' /\ OnlyOf(r)
    BY <2>1, <2>2, <2>4, <2>5, <2>6, <2>7 DEF QaseTypes, OnlyOf
  <2> QED
    BY <2>7, <2>8, <2>9, OthersKeepReporterInv DEF ReporterInv
<1> QED
  BY <1>2, <1>3

-----------------------------------------------------------------------------
(* The run: created, posted batch by batch, completed.                     *)

(* A step of a reporter that knows its cases leaves the cases as they are. *)
LEMMA KnownCasesStay ==
  ASSUME QaseInv, NEW r \in Reporters, NEW pc \in Places \ {"raised"}, NEW at \in Nat,
         reporter[r].pc \in {"run", "post", "complete"}, pc \in {"post", "complete", "done"},
         ReporterIs(r, pc, at, reporter[r].ids), UNCHANGED <<cases, report, added>>
  PROVE  IdsInv(r)' /\ AddedInv(r)' /\ Grows
<1>1. IdsInv(r) /\ AddedInv(r) /\ QaseTypes
  BY DEF QaseInv, ReporterInv
<1>2. reporter'[r].pc = pc /\ reporter'[r].at = at /\ reporter'[r].ids = reporter[r].ids
  BY DEF ReporterIs
<1>3. IdsInv(r)'
  BY <1>1, <1>2 DEF IdsInv, IsCaseOf
<1>4. AddedInv(r)'
  BY <1>1, <1>2 DEF AddedInv, IsThere
<1>5. Grows
  BY <1>1 DEF Grows, QaseTypes
<1> QED
  BY <1>3, <1>4, <1>5

RunIs(r, created, results, complete) ==
    /\ run' \in [Reporters -> RunSet]
    /\ \A o \in Reporters \ {r} : run'[o] = run[o]
    /\ run'[r].created = created /\ run'[r].results = results /\ run'[r].complete = complete

LEMMA RunEffect ==
  ASSUME QaseTypes, NEW r \in Reporters
  PROVE  /\ run[r].results \in Seq(Q!Result)
         /\ run' = [run EXCEPT ![r].created = TRUE]
               => RunIs(r, TRUE, run[r].results, run[r].complete)
         /\ run' = [run EXCEPT ![r].complete = TRUE]
               => RunIs(r, run[r].created, run[r].results, TRUE)
         /\ \A results \in Seq(Q!Result) :
               run' = [run EXCEPT ![r].results = results]
                  => RunIs(r, run[r].created, results, run[r].complete)
<1>1. run[r] \in RunSet /\ run \in [Reporters -> RunSet]
  BY DEF QaseTypes
<1>2. ASSUME NEW m \in RunSet, run' = [run EXCEPT ![r] = m]
      PROVE  RunIs(r, m.created, m.results, m.complete)
  BY <1>1, <1>2 DEF RunIs
<1>3. run' = [run EXCEPT ![r].created = TRUE] => RunIs(r, TRUE, run[r].results, run[r].complete)
  <2> DEFINE m == [run[r] EXCEPT !.created = TRUE]
  <2>1. m \in RunSet /\ m.created = TRUE /\ m.results = run[r].results /\ m.complete = run[r].complete
    BY <1>1 DEF RunSet
  <2>2. run' = [run EXCEPT ![r].created = TRUE] => run' = [run EXCEPT ![r] = m]
    BY <1>1
  <2> HIDE DEF m
  <2> QED
    BY <1>2, <2>1, <2>2
<1>4. run' = [run EXCEPT ![r].complete = TRUE] => RunIs(r, run[r].created, run[r].results, TRUE)
  <2> DEFINE m == [run[r] EXCEPT !.complete = TRUE]
  <2>1. m \in RunSet /\ m.created = run[r].created /\ m.results = run[r].results /\ m.complete = TRUE
    BY <1>1 DEF RunSet
  <2>2. run' = [run EXCEPT ![r].complete = TRUE] => run' = [run EXCEPT ![r] = m]
    BY <1>1
  <2> HIDE DEF m
  <2> QED
    BY <1>2, <2>1, <2>2
<1>5. ASSUME NEW results \in Seq(Q!Result), run' = [run EXCEPT ![r].results = results]
      PROVE  RunIs(r, run[r].created, results, run[r].complete)
  <2> DEFINE m == [run[r] EXCEPT !.results = results]
  <2>1. m \in RunSet /\ m.created = run[r].created /\ m.results = results /\ m.complete = run[r].complete
    BY <1>1 DEF RunSet
  <2>2. run' = [run EXCEPT ![r] = m]
    BY <1>1, <1>5
  <2> HIDE DEF m
  <2> QED
    BY <1>2, <2>1, <2>2
<1>6. run[r].results \in Seq(Q!Result)
  BY <1>1 DEF RunSet
<1> QED
  BY <1>3, <1>4, <1>5, <1>6

LEMMA CreateStep ==
  ASSUME QaseInv, NEW r \in Reporters, Q!create_test_run(r)
  PROVE  QaseInv'
<1>1. reporter[r].pc = "run"
  BY DEF Q!create_test_run
<1>2. CASE Q!Raises(r)
  BY <1>1, <1>2, RaisesStep
<1>3. CASE ~Q!Raises(r)
  <2>1. /\ run' = [run EXCEPT ![r].created = TRUE] /\ Q!Goto(r, "post")
        /\ UNCHANGED <<suites, cases, report, refused, added, failures>>
    BY <1>3 DEF Q!create_test_run
  <2>2. RunInv(r) /\ QaseTypes
    BY DEF QaseInv, ReporterInv
  <2>3. /\ run[r].results = <<>> /\ ~run[r].complete /\ reporter[r].at = 1
    BY <1>1, <2>2 DEF RunInv
  <2>4. RunIs(r, TRUE, <<>>, run[r].complete)
    BY <2>1, <2>2, <2>3, RunEffect
  <2>5. ReporterIs(r, "post", 1, reporter[r].ids)
    BY <2>1, <2>2, <2>3, ReporterGoto DEF Places
  <2>6. IdsInv(r)' /\ AddedInv(r)' /\ Grows
    BY <1>1, <2>1, <2>5, KnownCasesStay DEF Places
  <2>7. RunInv(r)'
    <3>1. /\ reporter'[r].pc = "post" /\ reporter'[r].at = 1
          /\ run'[r].results = <<>> /\ ~run'[r].complete /\ report' = report
      BY <2>1, <2>3, <2>4, <2>5 DEF ReporterIs, RunIs
    <3>2. Len(report[r]) \in Nat \ {0}
      BY <2>2, ReporterTyped
    <3> QED
      BY <3>1, <3>2 DEF RunInv, Posted
  <2>8. QaseTypes' /\ OnlyOf(r)
    BY <2>1, <2>2, <2>4, <2>5, <2>6 DEF QaseTypes, OnlyOf, ReporterIs, RunIs
  <2> QED
    BY <2>6, <2>7, <2>8, OthersKeepReporterInv DEF ReporterInv
<1> QED
  BY <1>2, <1>3

(* A batch goes on where the one before has ended.                         *)
Follows(old, batch, first, stop) ==
    Len(old) = first - 1 /\ Len(batch) = stop - first + 1

Joins(all, old, batch, first, stop) ==
    /\ Len(all) = stop
    /\ \A k \in 1 .. first - 1 : all[k] = old[k]
    /\ \A k \in first .. stop : all[k] = batch[k - first + 1]

LEMMA BatchJoins ==
  ASSUME NEW T, NEW old \in Seq(T), NEW batch \in Seq(T),
         NEW first \in Nat \ {0}, NEW stop \in Nat, first <= stop,
         Follows(old, batch, first, stop)
  PROVE  Joins(old \o batch, old, batch, first, stop)
<1>1. Len(old) = first - 1 /\ Len(batch) = stop - first + 1
  BY DEF Follows
<1>2. ASSUME NEW k \in 1 .. first - 1 PROVE (old \o batch)[k] = old[k]
  BY <1>1, ConcatProperties
<1>3. ASSUME NEW k \in first .. stop PROVE (old \o batch)[k] = batch[k - first + 1]
  <2>1. k > Len(old) /\ k <= Len(old) + Len(batch) /\ k - Len(old) = k - first + 1
    BY <1>1
  <2>2. (old \o batch)[k] = batch[k - Len(old)]
    BY <1>1, <2>1, ConcatProperties
  <2> QED
    BY <2>1, <2>2
<1>4. Len(old \o batch) = stop
  <2>1. Len(old \o batch) = Len(old) + Len(batch)
    OBVIOUS
  <2> QED
    BY <1>1, <2>1
<1> QED
  BY <1>2, <1>3, <1>4 DEF Joins

LEMMA Offsets ==
  ASSUME NEW first \in Nat \ {0}, NEW stop \in Nat, first <= stop
  PROVE  /\ stop - first + 1 \in Nat
         /\ \A k \in 1 .. stop - first + 1 : first + k - 1 \in first .. stop
         /\ \A k \in first .. stop :
               k - first + 1 \in 1 .. stop - first + 1 /\ first + (k - first + 1) - 1 = k
         /\ \A k \in 1 .. stop : k \in 1 .. first - 1 \/ k \in first .. stop
OBVIOUS

(* The end of a batch that begins at a result.                             *)
BatchEnd(first, last) == IF first + BatchSize - 1 < last THEN first + BatchSize - 1 ELSE last

LEMMA BatchIs ==
  ASSUME QaseInv, NEW r \in Reporters, reporter[r].pc = "post",
         NEW first \in Nat \ {0}, first = reporter[r].at, first <= Len(report[r]),
         NEW stop \in Nat, stop = BatchEnd(first, Len(report[r]))
  PROVE  /\ first <= stop /\ stop <= Len(report[r])
         /\ Q!Batch(r) \in Seq(Q!Result) /\ Len(Q!Batch(r)) = stop - first + 1
         /\ \A k \in first .. stop :
               /\ Q!Batch(r)[k - first + 1].case = reporter[r].ids[k]
               /\ Q!Batch(r)[k - first + 1].status = Q!StatusOf(report[r][k].outcome)
<1> DEFINE item(k) == [case |-> reporter[r].ids[k], status |-> Q!StatusOf(report[r][k].outcome)]
           batch == [k \in 1 .. stop - first + 1 |-> item(first + k - 1)]
<1>1. IdsInv(r) /\ QaseTypes
  BY DEF QaseInv, ReporterInv
<1>2. /\ Len(report[r]) \in Nat /\ Len(reporter[r].ids) = Len(report[r])
      /\ reporter[r].ids \in Seq(Nat) /\ BatchSize \in Nat \ {0}
  BY <1>1, ReporterTyped, QaseConstants DEF IdsInv, QaseNumbers
<1>3. first <= stop /\ stop <= Len(report[r])
  BY <1>2 DEF BatchEnd
<1>4. Q!Batch(r) = batch
  BY DEF Q!Batch, BatchEnd
<1>5. ASSUME NEW k \in first .. stop PROVE item(k) \in Q!Result
  <2>1. k \in 1 .. Len(reporter[r].ids)
    BY <1>2, <1>3
  <2>2. reporter[r].ids[k] \in Nat
    BY <1>2, <2>1
  <2>3. Q!StatusOf(report[r][k].outcome) \in Q!Status
    BY DEF Q!StatusOf, Q!Status
  <2> QED
    BY <2>2, <2>3 DEF Q!Result
<1> HIDE DEF item
<1>6. \A k \in 1 .. stop - first + 1 : first + k - 1 \in first .. stop
  BY <1>3, Offsets
<1>7. stop - first + 1 \in Nat
  BY <1>3, Offsets
<1>8. batch \in Seq(Q!Result) /\ Len(batch) = stop - first + 1
  <2> DEFINE n == stop - first + 1
  <2>1. \A k \in 1 .. n : item(first + k - 1) \in Q!Result
    BY <1>5, <1>6
  <2>2. n \in Nat
    BY <1>7
  <2> HIDE DEF n
  <2>3. [k \in 1 .. n |-> item(first + k - 1)] \in Seq(Q!Result)
    BY <2>1, <2>2
  <2>4. Len([k \in 1 .. n |-> item(first + k - 1)]) = n
    BY <2>2
  <2> QED
    BY <2>3, <2>4 DEF n
<1>9. ASSUME NEW k \in first .. stop
      PROVE  /\ batch[k - first + 1].case = reporter[r].ids[k]
             /\ batch[k - first + 1].status = Q!StatusOf(report[r][k].outcome)
  <2>1. k - first + 1 \in 1 .. stop - first + 1 /\ first + (k - first + 1) - 1 = k
    BY <1>3, Offsets
  <2>2. batch[k - first + 1] = item(k)
    BY <2>1
  <2> HIDE DEF batch
  <2> QED
    BY <2>2 DEF item
<1> HIDE DEF batch
<1> QED
  BY <1>3, <1>4, <1>8, <1>9

LEMMA BatchFollows ==
  ASSUME QaseInv, NEW r \in Reporters, reporter[r].pc = "post",
         NEW first \in Nat \ {0}, first = reporter[r].at, first <= Len(report[r]),
         NEW stop \in Nat, stop = BatchEnd(first, Len(report[r]))
  PROVE  LET all == run[r].results \o Q!Batch(r)
         IN  /\ all \in Seq(Q!Result)
             /\ ~refused[r] =>
                  /\ Len(all) = stop
                  /\ \A k \in 1 .. stop :
                        /\ all[k].case = reporter[r].ids[k]
                        /\ all[k].status = Q!StatusOf(report[r][k].outcome)
<1> DEFINE old == run[r].results
           batch == Q!Batch(r)
           all == old \o batch
<1>1. IdsInv(r) /\ RunInv(r) /\ QaseTypes
  BY DEF QaseInv, ReporterInv
<1>2. old \in Seq(Q!Result) /\ Len(report[r]) \in Nat
  BY <1>1, RunEffect, ReporterTyped
<1>3. /\ first <= stop /\ batch \in Seq(Q!Result) /\ Len(batch) = stop - first + 1
      /\ \A k \in first .. stop :
            /\ batch[k - first + 1].case = reporter[r].ids[k]
            /\ batch[k - first + 1].status = Q!StatusOf(report[r][k].outcome)
  BY BatchIs, ZenonT(60)
<1> HIDE DEF old, batch
<1>4. all \in Seq(Q!Result)
  BY <1>2, <1>3
<1>5. Follows(old, batch, first, stop) => Joins(all, old, batch, first, stop)
  <2> DEFINE T == Q!Result
  <2> HIDE DEF T
  <2>1. old \in Seq(T) /\ batch \in Seq(T) /\ first <= stop
    BY <1>2, <1>3 DEF T
  <2> QED
    BY <2>1, BatchJoins, Zenon
<1> HIDE DEF all
<1>6. ASSUME ~refused[r]
      PROVE  /\ Len(all) = stop
             /\ \A k \in 1 .. stop : /\ all[k].case = reporter[r].ids[k]
                                    /\ all[k].status = Q!StatusOf(report[r][k].outcome)
  <2>1. first - 1 < Len(report[r])
    BY <1>2
  <2>2. Posted(r, first - 1)
    BY <1>1, <1>6, <2>1 DEF RunInv
  <2>3. /\ Len(old) = first - 1
        /\ \A k \in 1 .. first - 1 : /\ old[k].case = reporter[r].ids[k]
                                  /\ old[k].status = Q!StatusOf(report[r][k].outcome)
    BY <2>2 DEF Posted, old
  <2>4. Joins(all, old, batch, first, stop)
    BY <1>3, <1>5, <2>3 DEF Follows
  <2>5. ASSUME NEW k \in 1 .. first - 1
        PROVE  all[k].case = reporter[r].ids[k] /\ all[k].status = Q!StatusOf(report[r][k].outcome)
    BY <2>3, <2>4 DEF Joins
  <2>6. ASSUME NEW k \in first .. stop
        PROVE  all[k].case = reporter[r].ids[k] /\ all[k].status = Q!StatusOf(report[r][k].outcome)
    <3>1. all[k] = batch[k - first + 1]
      BY <2>4 DEF Joins
    <3>2. /\ batch[k - first + 1].case = reporter[r].ids[k]
          /\ batch[k - first + 1].status = Q!StatusOf(report[r][k].outcome)
      BY <1>3
    <3> QED
      BY <3>1, <3>2
  <2> QED
    BY <1>3, <2>4, <2>5, <2>6, Offsets DEF Joins
<1> QED
  BY <1>4, <1>6 DEF all, old, batch

LEMMA ReporterGoesOn ==
  ASSUME QaseTypes, NEW r \in Reporters,
         reporter' = [reporter EXCEPT ![r].at = reporter[r].at + BatchSize]
  PROVE  ReporterIs(r, reporter[r].pc, reporter[r].at + BatchSize, reporter[r].ids)
<1> DEFINE m == [reporter[r] EXCEPT !.at = reporter[r].at + BatchSize]
<1>1. reporter[r].at + BatchSize \in Nat
  BY ReporterTyped, QaseConstants DEF QaseNumbers
<1>2. /\ m \in ReporterSet /\ m.pc = reporter[r].pc /\ m.ids = reporter[r].ids
      /\ m.at = reporter[r].at + BatchSize
  BY <1>1, ReporterTyped DEF ReporterSet
<1>3. reporter' = [reporter EXCEPT ![r] = m] /\ reporter \in [Reporters -> ReporterSet]
  BY DEF QaseTypes
<1> HIDE DEF m
<1> QED
  BY <1>2, <1>3 DEF ReporterIs

LEMMA BatchStep ==
  ASSUME QaseInv, NEW r \in Reporters, reporter[r].pc = "post",
         reporter[r].at <= Len(report[r]),
         \/ /\ run' = [run EXCEPT ![r].results = run[r].results \o Q!Batch(r)]
            /\ UNCHANGED <<refused, failures>>
         \/ /\ Q!Fails /\ refused' = [refused EXCEPT ![r] = TRUE]
            /\ UNCHANGED run,
         reporter' = [reporter EXCEPT ![r].at = reporter[r].at + BatchSize],
         UNCHANGED <<suites, cases, report, added>>
  PROVE  QaseInv'
<1> DEFINE first == reporter[r].at
           stop == BatchEnd(first, Len(report[r]))
           all == run[r].results \o Q!Batch(r)
<1>1. IdsInv(r) /\ RunInv(r) /\ QaseTypes
  BY DEF QaseInv, ReporterInv
<1>2. /\ first \in Nat \ {0} /\ Len(report[r]) \in Nat \ {0} /\ BatchSize \in Nat \ {0}
      /\ ~run[r].complete
  BY <1>1, ReporterTyped, QaseConstants DEF RunInv, QaseNumbers
<1>3. stop \in Nat
  BY <1>2 DEF BatchEnd
<1>4. /\ all \in Seq(Q!Result)
      /\ ~refused[r] =>
           /\ Len(all) = stop
           /\ \A k \in 1 .. stop : /\ all[k].case = reporter[r].ids[k]
                                  /\ all[k].status = Q!StatusOf(report[r][k].outcome)
  BY <1>2, <1>3, BatchFollows
<1>5. ReporterIs(r, "post", first + BatchSize, reporter[r].ids)
  BY <1>1, ReporterGoesOn
<1>6. first + BatchSize \in Nat /\ first + BatchSize > 0
  BY <1>2
<1>7. IdsInv(r)' /\ AddedInv(r)' /\ Grows
  BY <1>5, <1>6, KnownCasesStay DEF Places
<1> HIDE DEF all
<1>8. \/ RunIs(r, run[r].created, all, run[r].complete) /\ refused' = refused
      \/ run' = run /\ refused' = [refused EXCEPT ![r] = TRUE]
  BY <1>1, <1>4, RunEffect DEF all
<1>9. /\ run' \in [Reporters -> RunSet] /\ refused' \in [Reporters -> BOOLEAN]
      /\ \A o \in Reporters \ {r} : run'[o] = run[o] /\ refused'[o] = refused[o]
      /\ ~run'[r].complete
      /\ ~refused'[r] => ~refused[r] /\ run'[r].results = all
  BY <1>1, <1>2, <1>8 DEF QaseTypes, RunIs
<1>10. RunInv(r)'
  <2>1. /\ reporter'[r].pc = "post" /\ reporter'[r].at = first + BatchSize
        /\ reporter'[r].ids = reporter[r].ids
    BY <1>5 DEF ReporterIs
  <2>2. PICK n \in Nat : n = stop
    BY <1>3
  <2>3. ~refused'[r] => Posted(r, n)'
    BY <1>4, <1>9, <2>1, <2>2 DEF Posted
  <2>4. n = IF reporter'[r].at - 1 < Len(report'[r]) THEN reporter'[r].at - 1 ELSE Len(report'[r])
    <3>1. report'[r] = report[r] /\ reporter'[r].at - 1 = first + BatchSize - 1
      BY <1>2, <2>1
    <3> QED
      BY <2>2, <3>1 DEF BatchEnd
  <2>5. reporter'[r].at > 0
    BY <1>6, <2>1
  <2> QED
    BY <1>9, <2>1, <2>3, <2>4, <2>5 DEF RunInv
<1>11. QaseTypes'
  <2>1. failures' \in 0 .. MaxFailures
    BY <1>1, QaseFails
  <2> QED
    BY <1>1, <1>5, <1>9, <2>1 DEF QaseTypes, ReporterIs
<1>12. OnlyOf(r)
  BY <1>5, <1>7, <1>9 DEF OnlyOf, ReporterIs
<1> QED
  BY <1>7, <1>10, <1>11, <1>12, OthersKeepReporterInv DEF ReporterInv

LEMMA PostStep ==
  ASSUME QaseInv, NEW r \in Reporters, Q!update_test_run_results(r)
  PROVE  QaseInv'
<1>1. reporter[r].pc = "post" /\ QaseTypes /\ RunInv(r)
  BY DEF Q!update_test_run_results, QaseInv, ReporterInv
<1>2. CASE Q!Raises(r)
  BY <1>1, <1>2, RaisesStep
<1>3. CASE ~Q!Raises(r) /\ reporter[r].at <= Len(report[r])
  <2>1. ~(reporter[r].at > Len(report[r]))
    BY <1>1, <1>3, ReporterTyped
  <2> QED
    BY <1>1, <1>3, <2>1, BatchStep DEF Q!update_test_run_results
<1>4. CASE ~Q!Raises(r) /\ ~(reporter[r].at <= Len(report[r]))
  <2>1. /\ Q!Goto(r, "complete")
        /\ UNCHANGED <<suites, cases, report, run, refused, added, failures>>
    BY <1>4 DEF Q!update_test_run_results
  <2>2. ReporterIs(r, "complete", reporter[r].at, reporter[r].ids)
    BY <1>1, <2>1, ReporterGoto DEF Places
  <2>3. reporter[r].at \in Nat
    BY <1>1, ReporterTyped
  <2>4. IdsInv(r)' /\ AddedInv(r)' /\ Grows
    BY <1>1, <2>1, <2>2, <2>3, KnownCasesStay DEF Places
  <2>5. RunInv(r)'
    <3>1. ~(reporter[r].at - 1 < Len(report[r]))
      BY <1>1, <1>4, ReporterTyped
    <3>2. ~refused[r] => Posted(r, Len(report[r]))
      BY <1>1, <3>1 DEF RunInv
    <3>3. reporter'[r].pc = "complete" /\ reporter'[r].ids = reporter[r].ids
      BY <2>2 DEF ReporterIs
    <3>4. ~run[r].complete
      BY <1>1 DEF RunInv
    <3>5. ~refused'[r] => Posted(r, Len(report[r]))'
      BY <2>1, <3>2, <3>3 DEF Posted
    <3> QED
      BY <2>1, <3>3, <3>4, <3>5 DEF RunInv
  <2>6. suites' \in Seq(Titles)
    BY <1>1, <2>1 DEF QaseTypes
  <2>7. QaseTypes' /\ OnlyOf(r)
    BY <2>1, <2>2, <2>6, OnlyMoves DEF Places
  <2> QED
    BY <2>4, <2>5, <2>7, OthersKeepReporterInv DEF ReporterInv
<1> QED
  BY <1>2, <1>3, <1>4

LEMMA CompleteStep ==
  ASSUME QaseInv, NEW r \in Reporters, Q!complete_test_run(r)
  PROVE  QaseInv'
<1>1. /\ reporter[r].pc = "complete" /\ QaseTypes /\ RunInv(r) /\ IdsInv(r) /\ AddedInv(r)
      /\ UNCHANGED <<suites, cases, report, refused, added>>
  BY DEF Q!complete_test_run, QaseInv, ReporterInv
<1>2. ~run[r].complete
  BY <1>1 DEF RunInv
<1>3. PICK pc \in {"done", "raised"} :
         /\ Q!Goto(r, pc)
         /\ \/ /\ run' = [run EXCEPT ![r].complete = TRUE]
               /\ UNCHANGED failures /\ pc = "done"
            \/ Q!Fails /\ UNCHANGED run
  BY DEF Q!complete_test_run
<1>4. ReporterIs(r, pc, reporter[r].at, reporter[r].ids)
  BY <1>1, <1>3, ReporterGoto DEF Places
<1>5. /\ reporter'[r].pc = pc /\ reporter'[r].ids = reporter[r].ids
      /\ reporter'[r].at = reporter[r].at
  BY <1>4 DEF ReporterIs
<1>6. \/ RunIs(r, run[r].created, run[r].results, TRUE) /\ pc = "done"
      \/ run' = run
  BY <1>1, <1>3, RunEffect
<1>7. /\ run' \in [Reporters -> RunSet] /\ \A o \in Reporters \ {r} : run'[o] = run[o]
      /\ run'[r].results = run[r].results /\ (run'[r].complete => pc = "done")
  BY <1>1, <1>2, <1>6 DEF QaseTypes, RunIs
<1>8. Grows
  BY <1>1 DEF Grows, QaseTypes
<1>9. IdsInv(r)'
  BY <1>1, <1>5 DEF IdsInv, IsCaseOf
<1>10. AddedInv(r)'
  BY <1>1, <1>5 DEF AddedInv, IsThere
<1>11. RunInv(r)'
  <2>1. ~refused'[r] => Posted(r, Len(report[r]))'
    BY <1>1, <1>5, <1>7 DEF RunInv, Posted
  <2> QED
    BY <1>1, <1>5, <1>7, <2>1 DEF RunInv
<1>12. QaseTypes'
  <2>1. failures' \in 0 .. MaxFailures
    BY <1>1, <1>3, QaseFails
  <2> QED
    BY <1>1, <1>4, <1>7, <2>1 DEF QaseTypes, ReporterIs
<1>13. OnlyOf(r)
  BY <1>1, <1>4, <1>7, <1>8 DEF OnlyOf, ReporterIs
<1> QED
  BY <1>9, <1>10, <1>11, <1>12, <1>13, OthersKeepReporterInv DEF ReporterInv

LEMMA QaseStep ==
  ASSUME QaseInv, Q!Next
  PROVE  QaseInv'
<1>1. PICK r \in Reporters :
         \/ Q!collect_test_results(r)
         \/ Q!get_suite_id(r) \/ Q!add_missing_suite(r)
         \/ Q!get_case_id(r) \/ Q!add_missing_case(r)
         \/ Q!create_test_run(r) \/ Q!update_test_run_results(r) \/ Q!complete_test_run(r)
  BY DEF Q!Next
<1> QED
  BY <1>1, CollectStep, SuitesStep, FoundCaseStep, AddedCaseStep, CreateStep, PostStep, CompleteStep

LEMMA QaseStutter ==
  ASSUME QaseInv, UNCHANGED qase
  PROVE  QaseInv'
<1>1. QaseTypes'
  BY DEF QaseInv, QaseTypes, qase
<1>2. ASSUME NEW r \in Reporters PROVE ReporterInv(r)'
  <2>1. ReporterInv(r) /\ UNCHANGED qase
    BY DEF QaseInv
  <2>2. IdsInv(r)'
    BY <2>1 DEF ReporterInv, IdsInv, IsCaseOf, qase
  <2>3. RunInv(r)'
    BY <2>1 DEF ReporterInv, RunInv, Posted, qase
  <2>4. AddedInv(r)'
    BY <2>1 DEF ReporterInv, AddedInv, IsThere, qase
  <2> QED
    BY <2>2, <2>3, <2>4 DEF ReporterInv
<1> QED
  BY <1>1, <1>2 DEF QaseInv

LEMMA ResultsFollow == QaseInv => Q!CompleteRunHasAllResults /\ Q!CasesAreAddedOnce
<1> SUFFICES ASSUME QaseInv PROVE Q!CompleteRunHasAllResults /\ Q!CasesAreAddedOnce
  OBVIOUS
<1>1. Q!CasesAreAddedOnce
  <2> SUFFICES ASSUME NEW r \in Reporters, NEW i \in DOMAIN added[r], NEW j \in DOMAIN added[r],
                      added[r][j] = added[r][i],
                      TitleOf[added[r][i]] \in Matches[added[r][i]]
               PROVE  i = j
    BY DEF Q!CasesAreAddedOnce
  <2>1. DOMAIN added[r] = 1 .. Len(added[r])
    BY DEF QaseInv, QaseTypes
  <2> QED
    BY <2>1 DEF QaseInv, ReporterInv, AddedInv
<1>2. Q!CompleteRunHasAllResults
  <2> SUFFICES ASSUME NEW r \in Reporters, run[r].complete, ~refused[r]
               PROVE  /\ Len(run[r].results) = Len(report[r])
                      /\ \A k \in DOMAIN report[r] :
                            LET test == report[r][k]
                                title == cases[run[r].results[k].case] IN
                            /\ title \in Matches[test.case] \cup {TitleOf[test.case]}
                            /\ run[r].results[k].status = IF test.outcome \in Q!Overlooked
                                                           THEN "passed" ELSE test.outcome
    BY DEF Q!CompleteRunHasAllResults
  <2>1. IdsInv(r) /\ RunInv(r) /\ QaseTypes
    BY DEF QaseInv, ReporterInv
  <2>2. reporter[r].pc = "done" /\ Posted(r, Len(report[r]))
    BY <2>1 DEF RunInv
  <2>3. /\ DOMAIN report[r] = 1 .. Len(report[r])
        /\ \A k \in 1 .. Len(report[r]) : report[r][k].outcome \in Q!Outcome
    BY <2>1, ReporterTyped DEF TestSet
  <2>4. ASSUME NEW k \in 1 .. Len(report[r])
        PROVE  /\ cases[run[r].results[k].case]
                     \in Matches[report[r][k].case] \cup {TitleOf[report[r][k].case]}
               /\ run[r].results[k].status = IF report[r][k].outcome \in Q!Overlooked
                                              THEN "passed" ELSE report[r][k].outcome
    <3>1. IsCaseOf(reporter[r].ids[k], report[r][k])
      BY <2>1, <2>2 DEF IdsInv
    <3>2. /\ run[r].results[k].case = reporter[r].ids[k]
          /\ run[r].results[k].status = Q!StatusOf(report[r][k].outcome)
      BY <2>2 DEF Posted
    <3>3. report[r][k].outcome # "failedSilently"
      BY <2>1, <2>2 DEF IdsInv
    <3>4. Q!StatusOf(report[r][k].outcome) = IF report[r][k].outcome \in Q!Overlooked
                                             THEN "passed" ELSE report[r][k].outcome
      <4>1. report[r][k].outcome \in {"passed", "failed", "skipped", "error", "skippedSilently"}
        BY <2>3, <3>3 DEF Q!Outcome
      <4> QED
        BY <4>1 DEF Q!StatusOf, Q!Overlooked
    <3> QED
      BY <3>1, <3>2, <3>4 DEF IsCaseOf
  <2> QED
    BY <2>2, <2>3, <2>4 DEF Posted
<1> QED
  BY <1>1, <1>2

-----------------------------------------------------------------------------
(* setupRancher.py and teardownRancher.py                                  *)

Servers == {"nfs", "rancher"}
Settled == {"none", "registered", "raised"}

JobSet == [pc : {"nfs", "rancher", "token", "poll", "upload", "join",
                 "raised", "aborted", "written",
                 "devices", "delete", "servers", "deleteServers", "done", "failed"},
           attempt : 0 .. Attempts - 1, todo : SUBSET Hosts, left : SUBSET Servers]
WorkerSet == [pc : {"none", "create", "sent", "wait", "register", "registered", "raised"},
              attempt : 0 .. Attempts - 1]
DeviceSet == {"none", "queued"} \cup Jobs

RancherTypes ==
    /\ Attempts \in Nat \ {0} /\ SetupErrors \in Nat
    /\ Jobs \cap {"nobody", "none", "queued"} = {}
    /\ key \in Jobs \cup {"nobody"}
    /\ server \in [Jobs -> SUBSET Servers]
    /\ device \in [Jobs -> [Hosts -> DeviceSet]]
    /\ inFlight \in [Jobs -> SUBSET Hosts]
    /\ job \in [Jobs -> JobSet]
    /\ worker \in [Jobs -> [Hosts -> WorkerSet]]
    /\ fileWritten \in [Jobs -> BOOLEAN]
    /\ lost \in [Jobs -> SUBSET (Hosts \cup Servers)]
    /\ errorsSeen \in 0 .. SetupErrors

LEMMA RancherTyped == R!TypeOK <=> RancherTypes
BY SetupBounds DEF R!Bounds, R!TypeOK, RancherTypes, R!Servers, Servers, R!Nobody, R!NoDevice,
   JobSet, WorkerSet, DeviceSet

(* A request in flight is one that its thread waits for; a thread at its   *)
(* registration has a device that accepts some key; one that gave up has   *)
(* one with another job's key, if nothing failed.                          *)
HostShape(j, h) ==
    /\ h \in inFlight[j] => worker[j][h].pc = "sent"
    /\ worker[j][h].pc = "register" => device[j][h] \in Jobs
    /\ worker[j][h].pc = "raised" => errorsSeen > 0 \/ device[j][h] \in Jobs \ {j}

SetupShape(j) ==
    /\ job[j].pc \in {"nfs", "rancher", "token", "poll", "upload"} =>
          inFlight[j] = {} /\ \A h \in Hosts : worker[j][h].pc = "none"
    /\ job[j].pc \in {"join", "written"} => \A h \in Hosts : HostShape(j, h)
    /\ job[j].pc = "written" => \A h \in Hosts : worker[j][h].pc \in {"registered", "raised"}

(* From its lists on, the teardown has what is left of the machines in the *)
(* rest of its lists, but for those that are lost to it.  What is still to *)
(* be created is lost to it too.                                           *)
TeardownShape(j) ==
    LET pc == job[j].pc
        After == {"delete", "servers", "deleteServers", "done"}
    IN  /\ pc \in After \cup {"devices"} => \A h \in Hosts : worker[j][h].pc \in Settled
        /\ pc \in After => inFlight[j] \subseteq lost[j]
        /\ pc = "delete" => \A h \in Hosts : device[j][h] # "none" => h \in lost[j] \cup job[j].todo
        /\ pc \in After \ {"delete"} => \A h \in Hosts : device[j][h] # "none" => h \in lost[j]
        /\ pc = "deleteServers" => server[j] \subseteq lost[j] \cup job[j].left
        /\ pc = "done" => server[j] \subseteq lost[j]

JobInv(j) == SetupShape(j) /\ TeardownShape(j)
RancherInv == RancherTypes /\ \A j \in Jobs : JobInv(j)

LEMMA RancherInit == R!Init => RancherInv
<1> SUFFICES ASSUME R!Init PROVE RancherInv
  OBVIOUS
<1>1. Attempts \in Nat \ {0} /\ SetupErrors \in Nat /\ Jobs \cap {"nobody", "none", "queued"} = {}
  BY SetupBounds DEF R!Bounds
<1>2. [pc |-> "nfs", attempt |-> 0, todo |-> {}, left |-> {}] \in JobSet
  BY <1>1 DEF JobSet
<1>3. [pc |-> "none", attempt |-> 0] \in WorkerSet
  BY <1>1 DEF WorkerSet
<1>4. RancherTypes
  BY <1>1, <1>2, <1>3 DEF RancherTypes, R!Init, R!Nobody, R!NoDevice, DeviceSet
<1>5. \A j \in Jobs : /\ job[j].pc = "nfs" /\ inFlight[j] = {}
                      /\ \A h \in Hosts : worker[j][h].pc = "none"
  BY DEF R!Init
<1> QED
  BY <1>4, <1>5 DEF RancherInv, JobInv, SetupShape, TeardownShape

(* A step of one job leaves the others as they are.                        *)
Others(i) ==
    \A j \in Jobs \ {i} :
       /\ job'[j] = job[j] /\ worker'[j] = worker[j] /\ device'[j] = device[j]
       /\ inFlight'[j] = inFlight[j] /\ server'[j] = server[j] /\ lost'[j] = lost[j]

LEMMA OthersKeepInv ==
  ASSUME RancherInv, RancherTypes', NEW i \in Jobs, Others(i), errorsSeen' >= errorsSeen,
         JobInv(i)'
  PROVE  RancherInv'
<1> SUFFICES ASSUME NEW j \in Jobs, j # i PROVE JobInv(j)'
  BY DEF RancherInv
<1>1. /\ job'[j] = job[j] /\ worker'[j] = worker[j] /\ device'[j] = device[j]
      /\ inFlight'[j] = inFlight[j] /\ server'[j] = server[j] /\ lost'[j] = lost[j]
  BY DEF Others
<1>2. JobInv(j)
  BY DEF RancherInv
<1>3. errorsSeen \in Nat /\ errorsSeen' \in Nat
  BY DEF RancherInv, RancherTypes
<1>4. SetupShape(j)'
  BY <1>1, <1>2, <1>3 DEF JobInv, SetupShape, HostShape
<1>5. TeardownShape(j)'
  BY <1>1, <1>2 DEF JobInv, TeardownShape
<1> QED
  BY <1>4, <1>5 DEF JobInv

(* Where a step that only moves the job, and may fail, leaves it.          *)
LEMMA JobMoves ==
  ASSUME RancherTypes, NEW i \in Jobs, NEW r \in JobSet, job' = [job EXCEPT ![i] = r]
  PROVE  /\ job' \in [Jobs -> JobSet] /\ job'[i] = r
         /\ \A j \in Jobs \ {i} : job'[j] = job[j]
BY DEF RancherTypes

LEMMA GotoMoves ==
  ASSUME RancherTypes, NEW i \in Jobs, NEW pc, R!Goto(i, pc),
         pc \in {"nfs", "rancher", "token", "poll", "upload", "join", "raised", "aborted", "written",
                 "devices", "delete", "servers", "deleteServers", "done", "failed"}
  PROVE  /\ job' \in [Jobs -> JobSet]
         /\ job'[i].pc = pc /\ job'[i].todo = job[i].todo /\ job'[i].left = job[i].left
         /\ \A j \in Jobs \ {i} : job'[j] = job[j]
<1> DEFINE r == [job[i] EXCEPT !.pc = pc, !.attempt = 0]
<1>1. job[i] \in JobSet /\ 0 \in 0 .. Attempts - 1
  BY DEF RancherTypes
<1>2. r \in JobSet /\ r.pc = pc /\ r.todo = job[i].todo /\ r.left = job[i].left
  BY <1>1 DEF JobSet
<1>3. job' = [job EXCEPT ![i] = r]
  BY DEF R!Goto, RancherTypes, JobSet
<1> HIDE DEF r
<1> QED
  BY <1>2, <1>3, JobMoves

LEMMA RetryStays ==
  ASSUME Attempts \in Nat \ {0}, NEW r \in JobSet
  PROVE  /\ R!Retry(r, "raised") \in JobSet
         /\ R!Retry(r, "raised").pc \in {r.pc, "raised"}
<1>1. r.attempt \in 0 .. Attempts - 1 /\ 0 \in 0 .. Attempts - 1
  BY DEF JobSet
<1>2. CASE r.attempt + 1 < Attempts
  <2>1. R!Retry(r, "raised") = [r EXCEPT !.attempt = r.attempt + 1]
    BY <1>2 DEF R!Retry
  <2>2. r.attempt + 1 \in 0 .. Attempts - 1
    BY <1>1, <1>2
  <2> QED
    BY <2>1, <2>2 DEF JobSet
<1>3. CASE ~(r.attempt + 1 < Attempts)
  <2>1. R!Retry(r, "raised") = [r EXCEPT !.pc = "raised", !.attempt = 0]
    BY <1>3 DEF R!Retry
  <2> QED
    BY <1>1, <2>1 DEF JobSet
<1> QED
  BY <1>2, <1>3

LEMMA RetryOfWorker ==
  ASSUME Attempts \in Nat \ {0}, NEW r \in WorkerSet
  PROVE  /\ R!Retry(r, "raised") \in WorkerSet
         /\ R!Retry(r, "raised").pc \in {r.pc, "raised"}
<1>1. r.attempt \in 0 .. Attempts - 1 /\ 0 \in 0 .. Attempts - 1
  BY DEF WorkerSet
<1>2. CASE r.attempt + 1 < Attempts
  <2>1. R!Retry(r, "raised") = [r EXCEPT !.attempt = r.attempt + 1]
    BY <1>2 DEF R!Retry
  <2>2. r.attempt + 1 \in 0 .. Attempts - 1
    BY <1>1, <1>2
  <2> QED
    BY <2>1, <2>2 DEF WorkerSet
<1>3. CASE ~(r.attempt + 1 < Attempts)
  <2>1. R!Retry(r, "raised") = [r EXCEPT !.pc = "raised", !.attempt = 0]
    BY <1>3 DEF R!Retry
  <2> QED
    BY <1>1, <2>1 DEF WorkerSet
<1> QED
  BY <1>2, <1>3

LEMMA RancherFails ==
  ASSUME RancherTypes, R!Fails \/ UNCHANGED errorsSeen
  PROVE  /\ errorsSeen' \in 0 .. SetupErrors /\ errorsSeen' >= errorsSeen
         /\ R!Fails => errorsSeen' > 0
BY DEF RancherTypes, R!Fails

-----------------------------------------------------------------------------
(* The job's own steps.                                                    *)

(* A step of the setup before its threads: the job moves, and nothing is   *)
(* in flight.                                                              *)
LEMMA EarlyStep ==
  ASSUME RancherInv, NEW i \in Jobs, job' \in [Jobs -> JobSet],
         \A j \in Jobs \ {i} : job'[j] = job[j],
         job[i].pc \in {"nfs", "rancher", "token", "poll", "upload"},
         job'[i].pc \in {"nfs", "rancher", "token", "poll", "upload", "raised"},
         server' \in [Jobs -> SUBSET Servers],
         \A j \in Jobs \ {i} : server'[j] = server[j],
         R!Fails \/ UNCHANGED errorsSeen,
         UNCHANGED <<key, device, inFlight, worker, fileWritten, lost>>
  PROVE  RancherInv'
<1>1. errorsSeen' \in 0 .. SetupErrors /\ errorsSeen' >= errorsSeen
  BY RancherFails DEF RancherInv
<1>2. RancherTypes'
  BY <1>1 DEF RancherInv, RancherTypes
<1>3. Others(i)
  BY DEF Others
<1>4. inFlight'[i] = {} /\ \A h \in Hosts : worker'[i][h].pc = "none"
  BY DEF RancherInv, JobInv, SetupShape
<1>5. JobInv(i)'
  BY <1>4 DEF JobInv, SetupShape, TeardownShape
<1> QED
  BY <1>1, <1>2, <1>3, <1>5, OthersKeepInv

LEMMA CreateServerStep ==
  ASSUME RancherInv, NEW i \in Jobs,
         R!gce_create_server(i, "nfs", "rancher") \/ R!gce_create_server(i, "rancher", "token")
  PROVE  RancherInv'
<1>1. PICK name \in {"nfs", "rancher"}, next \in {"rancher", "token"} :
         R!gce_create_server(i, name, next)
  OBVIOUS
<1>2. /\ job[i].pc = name
      /\ R!Goto(i, next) \/ R!Goto(i, "raised")
      /\ R!Fails \/ UNCHANGED errorsSeen
      /\ server' = [server EXCEPT ![i] = @ \cup {name}] \/ server' = server
      /\ UNCHANGED <<key, device, inFlight, worker, fileWritten, lost>>
  BY <1>1 DEF R!gce_create_server, R!gce_wait_for_operation, R!SetupOnly
<1>3. /\ job' \in [Jobs -> JobSet]
      /\ \A j \in Jobs \ {i} : job'[j] = job[j]
      /\ job'[i].pc \in {"rancher", "token", "raised"}
  BY <1>2, GotoMoves DEF RancherInv
<1>4. /\ server' \in [Jobs -> SUBSET Servers]
      /\ \A j \in Jobs \ {i} : server'[j] = server[j]
  BY <1>2 DEF RancherInv, RancherTypes, Servers
<1>5. /\ job[i].pc \in {"nfs", "rancher", "token", "poll", "upload"}
      /\ job'[i].pc \in {"nfs", "rancher", "token", "poll", "upload", "raised"}
  BY <1>2, <1>3
<1> QED
  BY <1>2, <1>3, <1>4, <1>5, EarlyStep

LEMMA TokenStep ==
  ASSUME RancherInv, NEW i \in Jobs, R!PostToken(i) \/ R!PollToken(i)
  PROVE  RancherInv'
<1>1. /\ job[i].pc \in {"token", "poll"}
      /\ \/ R!Goto(i, "poll") \/ R!Goto(i, "upload") \/ R!Goto(i, "raised")
         \/ job' = [job EXCEPT ![i] = R!Retry(job[i], "raised")]
      /\ R!Fails \/ UNCHANGED errorsSeen
      /\ UNCHANGED <<key, server, device, inFlight, worker, fileWritten, lost>>
  BY DEF R!PostToken, R!PollToken, R!SetupOnly, RancherInv, RancherTypes
<1>2. /\ RancherTypes /\ job[i] \in JobSet /\ Attempts \in Nat \ {0}
      /\ server \in [Jobs -> SUBSET Servers]
  BY DEF RancherInv, RancherTypes
<1>3. /\ R!Retry(job[i], "raised") \in JobSet
      /\ R!Retry(job[i], "raised").pc \in {job[i].pc, "raised"}
  BY <1>2, RetryStays
<1>4. /\ job' \in [Jobs -> JobSet]
      /\ \A j \in Jobs \ {i} : job'[j] = job[j]
      /\ job'[i].pc \in {"token", "poll", "upload", "raised"}
  <2>1. CASE R!Goto(i, "poll") \/ R!Goto(i, "upload") \/ R!Goto(i, "raised")
    BY <1>2, <2>1, GotoMoves
  <2>2. CASE job' = [job EXCEPT ![i] = R!Retry(job[i], "raised")]
    BY <1>1, <1>2, <1>3, <2>2, JobMoves
  <2> QED
    BY <1>1, <2>1, <2>2
<1> QED
  BY <1>1, <1>2, <1>4, EarlyStep

LEMMA UploadKeyStep ==
  ASSUME RancherInv, NEW i \in Jobs, R!packet_upload_key(i)
  PROVE  RancherInv'
<1>1. CASE R!Fails /\ R!Goto(i, "raised") /\ UNCHANGED <<key, worker>>
  <2>1. /\ job' \in [Jobs -> JobSet]
        /\ \A j \in Jobs \ {i} : job'[j] = job[j]
        /\ job'[i].pc = "raised"
    BY <1>1, GotoMoves DEF RancherInv
  <2>2. job[i].pc = "upload" /\ UNCHANGED <<key, server, device, inFlight, worker, fileWritten, lost>>
    BY <1>1 DEF R!packet_upload_key
  <2>3. server \in [Jobs -> SUBSET Servers]
    BY DEF RancherInv, RancherTypes
  <2> QED
    BY <1>1, <2>1, <2>2, <2>3, EarlyStep
<1>2. CASE ~(R!Fails /\ R!Goto(i, "raised") /\ UNCHANGED <<key, worker>>)
  <2>1. /\ job[i].pc = "upload" /\ R!Goto(i, "join") /\ key' = i
        /\ worker' = [worker EXCEPT ![i] = [h \in Hosts |-> [pc |-> "create", attempt |-> 0]]]
        /\ UNCHANGED <<server, device, inFlight, fileWritten, lost, errorsSeen>>
    BY <1>2 DEF R!packet_upload_key
  <2>2. /\ job' \in [Jobs -> JobSet]
        /\ \A j \in Jobs \ {i} : job'[j] = job[j]
        /\ job'[i].pc = "join"
    BY <2>1, GotoMoves DEF RancherInv
  <2>3. [pc |-> "create", attempt |-> 0] \in WorkerSet
    BY DEF RancherInv, RancherTypes, WorkerSet
  <2>4. RancherTypes'
    BY <2>1, <2>2, <2>3 DEF RancherInv, RancherTypes
  <2>5. Others(i)
    BY <2>1, <2>2 DEF Others, RancherInv, RancherTypes
  <2>6. inFlight'[i] = {} /\ \A h \in Hosts : worker'[i][h].pc = "create"
    BY <2>1 DEF RancherInv, JobInv, SetupShape, RancherTypes
  <2>7. JobInv(i)'
    BY <2>2, <2>6 DEF JobInv, SetupShape, HostShape, TeardownShape
  <2>8. errorsSeen' >= errorsSeen
    BY <2>1 DEF RancherInv, RancherTypes
  <2> QED
    BY <2>4, <2>5, <2>7, <2>8, OthersKeepInv
<1> QED
  BY <1>1, <1>2

LEMMA WriteFileStep ==
  ASSUME RancherInv, NEW i \in Jobs, R!WritePropertyFile(i)
  PROVE  RancherInv'
<1>1. /\ job[i].pc = "join" /\ R!Goto(i, "written")
      /\ \A h \in Hosts : worker[i][h].pc \in {"registered", "raised"}
      /\ fileWritten' = [fileWritten EXCEPT ![i] = TRUE]
      /\ UNCHANGED <<key, server, device, inFlight, worker, lost, errorsSeen>>
  BY DEF R!WritePropertyFile, R!SetupOnly
<1>2. /\ job' \in [Jobs -> JobSet]
      /\ \A j \in Jobs \ {i} : job'[j] = job[j]
      /\ job'[i].pc = "written"
  BY <1>1, GotoMoves DEF RancherInv
<1>3. RancherTypes' /\ errorsSeen' >= errorsSeen
  <2>1. fileWritten' \in [Jobs -> BOOLEAN]
    BY <1>1 DEF RancherInv, RancherTypes
  <2>2. RancherTypes'
    BY <1>1, <1>2, <2>1 DEF RancherInv, RancherTypes
  <2>3. errorsSeen' >= errorsSeen
    BY <1>1 DEF RancherInv, RancherTypes
  <2> QED
    BY <2>2, <2>3
<1>4. Others(i)
  BY <1>1, <1>2 DEF Others
<1>5. JobInv(i)'
  BY <1>1, <1>2 DEF RancherInv, JobInv, SetupShape, HostShape, TeardownShape
<1> QED
  BY <1>3, <1>4, <1>5, OthersKeepInv

LEMMA AbortStep ==
  ASSUME RancherInv, NEW i \in Jobs, R!Abort(i)
  PROVE  RancherInv'
<1>1. /\ R!Fails /\ R!Goto(i, "aborted")
      /\ worker' = [worker EXCEPT ![i] = [h \in Hosts |-> [pc |-> "none", attempt |-> 0]]]
      /\ UNCHANGED <<key, server, device, inFlight, fileWritten, lost>>
  BY DEF R!Abort
<1>2. /\ job' \in [Jobs -> JobSet]
      /\ \A j \in Jobs \ {i} : job'[j] = job[j]
      /\ job'[i].pc = "aborted"
  BY <1>1, GotoMoves DEF RancherInv
<1>3. [pc |-> "none", attempt |-> 0] \in WorkerSet
  BY DEF RancherInv, RancherTypes, WorkerSet
<1>4. errorsSeen' \in 0 .. SetupErrors /\ errorsSeen' >= errorsSeen
  BY <1>1, RancherFails DEF RancherInv
<1>5. RancherTypes'
  BY <1>1, <1>2, <1>3, <1>4 DEF RancherInv, RancherTypes
<1>6. Others(i)
  BY <1>1, <1>2 DEF Others, RancherInv, RancherTypes
<1>7. JobInv(i)'
  BY <1>2 DEF JobInv, SetupShape, TeardownShape
<1> QED
  BY <1>4, <1>5, <1>6, <1>7, OthersKeepInv

-----------------------------------------------------------------------------
(* The threads and the provider.                                           *)

(* The thread of a host moves, and its device and its request with it.     *)
HostMoves(i, h, r, d, flight) ==
    /\ worker' = [worker EXCEPT ![i][h] = r] /\ device' = [device EXCEPT ![i][h] = d]
    /\ inFlight' = [inFlight EXCEPT ![i] = flight]
    /\ R!Fails \/ UNCHANGED errorsSeen
    /\ UNCHANGED <<key, server, job, fileWritten, lost>>

HostMoved(i, h, r, d, flight) ==
    /\ RancherTypes' /\ Others(i) /\ errorsSeen' >= errorsSeen
    /\ worker'[i][h] = r /\ device'[i][h] = d /\ inFlight'[i] = flight
    /\ \A g \in Hosts \ {h} : worker'[i][g] = worker[i][g] /\ device'[i][g] = device[i][g]

LEMMA HostStep ==
  ASSUME RancherInv, NEW i \in Jobs, NEW h \in Hosts, NEW r \in WorkerSet, NEW d \in DeviceSet,
         NEW flight \in SUBSET Hosts, HostMoves(i, h, r, d, flight)
  PROVE  HostMoved(i, h, r, d, flight)
<1> USE DEF HostMoves
<1>1. /\ worker \in [Jobs -> [Hosts -> WorkerSet]] /\ device \in [Jobs -> [Hosts -> DeviceSet]]
      /\ inFlight \in [Jobs -> SUBSET Hosts]
  BY DEF RancherInv, RancherTypes
<1>2. errorsSeen' \in 0 .. SetupErrors /\ errorsSeen' >= errorsSeen
  BY RancherFails DEF RancherInv
<1>3. /\ worker' \in [Jobs -> [Hosts -> WorkerSet]] /\ worker'[i][h] = r
      /\ \A g \in Hosts \ {h} : worker'[i][g] = worker[i][g]
      /\ \A j \in Jobs \ {i} : worker'[j] = worker[j]
  BY <1>1
<1>4. /\ device' \in [Jobs -> [Hosts -> DeviceSet]] /\ device'[i][h] = d
      /\ \A g \in Hosts \ {h} : device'[i][g] = device[i][g]
      /\ \A j \in Jobs \ {i} : device'[j] = device[j]
  BY <1>1
<1>5. /\ inFlight' \in [Jobs -> SUBSET Hosts] /\ inFlight'[i] = flight
      /\ \A j \in Jobs \ {i} : inFlight'[j] = inFlight[j]
  BY <1>1
<1>6. RancherTypes'
  BY <1>2, <1>3, <1>4, <1>5 DEF RancherInv, RancherTypes
<1>7. Others(i)
  BY <1>3, <1>4, <1>5 DEF Others
<1> QED
  BY <1>2, <1>3, <1>4, <1>5, <1>6, <1>7 DEF HostMoved

(* The rest of the invariant: an unfinished thread means that the setup is *)
(* at its join, or broke off; nothing is asked of it then.                 *)
LEMMA ThreadStep ==
  ASSUME RancherInv, NEW i \in Jobs, NEW h \in Hosts,
         worker[i][h].pc \in {"create", "sent", "wait", "register"},
         RancherTypes', Others(i), errorsSeen' >= errorsSeen,
         \A g \in Hosts \ {h} : worker'[i][g] = worker[i][g] /\ device'[i][g] = device[i][g],
         inFlight'[i] \subseteq inFlight[i] \cup {h},
         job[i].pc = "join" => HostShape(i, h)',
         UNCHANGED job
  PROVE  RancherInv'
<1>1. JobInv(i) /\ errorsSeen \in Nat /\ errorsSeen' \in Nat
  BY DEF RancherInv, RancherTypes
<1>2. job[i].pc \notin {"nfs", "rancher", "token", "poll", "upload", "written",
                        "devices", "delete", "servers", "deleteServers", "done"}
  BY <1>1 DEF JobInv, SetupShape, TeardownShape, Settled
<1>3. ASSUME job[i].pc = "join", NEW g \in Hosts PROVE HostShape(i, g)'
  <2>1. CASE g = h
    BY <1>3, <2>1
  <2>2. CASE g # h
    BY <1>1, <1>3, <2>2 DEF JobInv, SetupShape, HostShape
  <2> QED
    BY <2>1, <2>2
<1>4. JobInv(i)'
  BY <1>1, <1>2, <1>3 DEF JobInv, SetupShape, TeardownShape
<1> QED
  BY <1>4, OthersKeepInv

LEMMA HostTypes ==
  ASSUME RancherInv, NEW i \in Jobs, NEW h \in Hosts
  PROVE  /\ worker[i][h] \in WorkerSet /\ device[i][h] \in DeviceSet /\ inFlight[i] \in SUBSET Hosts
         /\ Attempts \in Nat \ {0} /\ errorsSeen \in Nat
         /\ worker = [worker EXCEPT ![i][h] = worker[i][h]]
         /\ device = [device EXCEPT ![i][h] = device[i][h]]
         /\ inFlight = [inFlight EXCEPT ![i] = inFlight[i]]
BY DEF RancherInv, RancherTypes

LEMMA WorkerMoves ==
  ASSUME RancherInv, NEW i \in Jobs, NEW h \in Hosts, NEW pc,
         pc \in {"none", "create", "sent", "wait", "register", "registered", "raised"}
  PROVE  /\ [worker[i][h] EXCEPT !.pc = pc] \in WorkerSet
         /\ [worker[i][h] EXCEPT !.pc = pc].pc = pc
         /\ [worker EXCEPT ![i][h].pc = pc] = [worker EXCEPT ![i][h] = [worker[i][h] EXCEPT !.pc = pc]]
<1>1. worker[i][h] \in WorkerSet
  BY HostTypes
<1> QED
  BY <1>1 DEF WorkerSet

LEMMA CreateDeviceStep ==
  ASSUME RancherInv, NEW i \in Jobs, NEW h \in Hosts, R!CreateDevice(i, h)
  PROVE  RancherInv'
<1>1. /\ worker[i][h].pc = "create"
      /\ \/ /\ worker' = [worker EXCEPT ![i][h].pc = "sent"]
            /\ inFlight' = [inFlight EXCEPT ![i] = inFlight[i] \cup {h}]
            /\ UNCHANGED errorsSeen
         \/ R!Fails /\ worker' = [worker EXCEPT ![i][h].pc = "raised"] /\ UNCHANGED inFlight
      /\ UNCHANGED <<key, server, job, fileWritten, lost, device>>
  BY HostTypes DEF R!CreateDevice, R!WorkerOnly
<1>2. PICK r \in WorkerSet, flight \in SUBSET Hosts :
         /\ worker' = [worker EXCEPT ![i][h] = r] /\ inFlight' = [inFlight EXCEPT ![i] = flight]
         /\ flight \subseteq inFlight[i] \cup {h}
         /\ \/ r.pc = "sent" /\ UNCHANGED errorsSeen
            \/ r.pc = "raised" /\ flight = inFlight[i] /\ R!Fails
  <2>1. CASE worker' = [worker EXCEPT ![i][h].pc = "sent"] /\ UNCHANGED errorsSeen
             /\ inFlight' = [inFlight EXCEPT ![i] = inFlight[i] \cup {h}]
    <3> DEFINE r == [worker[i][h] EXCEPT !.pc = "sent"]
    <3>1. r \in WorkerSet /\ r.pc = "sent" /\ worker' = [worker EXCEPT ![i][h] = r]
      BY <2>1, WorkerMoves
    <3>2. inFlight[i] \cup {h} \in SUBSET Hosts
      BY HostTypes
    <3> HIDE DEF r
    <3> QED
      BY <2>1, <3>1, <3>2
  <2>2. CASE R!Fails /\ worker' = [worker EXCEPT ![i][h].pc = "raised"] /\ UNCHANGED inFlight
    <3> DEFINE r == [worker[i][h] EXCEPT !.pc = "raised"]
    <3>1. r \in WorkerSet /\ r.pc = "raised" /\ worker' = [worker EXCEPT ![i][h] = r]
      BY <2>2, WorkerMoves
    <3>2. inFlight[i] \in SUBSET Hosts /\ inFlight' = [inFlight EXCEPT ![i] = inFlight[i]]
      BY <2>2, HostTypes
    <3> HIDE DEF r
    <3> QED
      BY <2>2, <3>1, <3>2
  <2> QED
    BY <1>1, <2>1, <2>2
<1>3. /\ RancherTypes' /\ Others(i) /\ errorsSeen' >= errorsSeen
      /\ worker'[i][h] = r /\ device'[i][h] = device[i][h] /\ inFlight'[i] = flight
      /\ \A g \in Hosts \ {h} : worker'[i][g] = worker[i][g] /\ device'[i][g] = device[i][g]
  <2>1. device[i][h] \in DeviceSet /\ HostMoves(i, h, r, device[i][h], flight)
    BY <1>1, <1>2, HostTypes DEF HostMoves
  <2>2. HostMoved(i, h, r, device[i][h], flight)
    BY <2>1, HostStep
  <2> QED
    BY <2>2 DEF HostMoved
<1>4. job[i].pc = "join" => HostShape(i, h)'
  <2>1. job[i].pc = "join" => h \notin inFlight[i]
    BY <1>1 DEF RancherInv, JobInv, SetupShape, HostShape
  <2>2. R!Fails => errorsSeen' > 0
    BY RancherFails DEF RancherInv
  <2> QED
    BY <1>2, <1>3, <2>1, <2>2 DEF HostShape
<1> QED
  BY <1>1, <1>2, <1>3, <1>4, ThreadStep

LEMMA AwaitActiveStep ==
  ASSUME RancherInv, NEW i \in Jobs, NEW h \in Hosts,
         R!AwaitActive(i, h) \/ R!packet_register_to_cattle(i, h)
  PROVE  RancherInv'
<1>1. /\ worker[i][h].pc \in {"wait", "register"}
      /\ UNCHANGED <<key, server, job, fileWritten, lost, device, inFlight>>
  BY DEF R!AwaitActive, R!packet_register_to_cattle, R!WorkerOnly
<1>2. PICK r \in WorkerSet :
         /\ worker' = [worker EXCEPT ![i][h] = r]
         /\ R!Fails \/ UNCHANGED errorsSeen
         /\ \/ r.pc = "register" /\ device[i][h] \notin {"none", "queued"}
            \/ r.pc = "registered"
            \/ r.pc \in {worker[i][h].pc, "raised"} /\ R!Fails
            \/ /\ r.pc \in {worker[i][h].pc, "raised"} /\ worker[i][h].pc = "register"
               /\ device[i][h] # i
  <2>1. CASE R!AwaitActive(i, h)
    <3>1. PICK pc \in {"register", "raised"} :
             /\ worker' = [worker EXCEPT ![i][h].pc = pc]
             /\ \/ pc = "register" /\ device[i][h] \notin {"none", "queued"} /\ UNCHANGED errorsSeen
                \/ pc = "raised" /\ R!Fails
      BY <2>1 DEF R!AwaitActive, R!NoDevice
    <3> DEFINE r == [worker[i][h] EXCEPT !.pc = pc]
    <3>2. r \in WorkerSet /\ r.pc = pc /\ worker' = [worker EXCEPT ![i][h] = r]
      BY <3>1, WorkerMoves
    <3> HIDE DEF r
    <3> QED
      BY <3>1, <3>2
  <2>2. CASE R!packet_register_to_cattle(i, h)
    <3>1. CASE worker' = [worker EXCEPT ![i][h].pc = "registered"] /\ UNCHANGED errorsSeen
      <4> DEFINE r == [worker[i][h] EXCEPT !.pc = "registered"]
      <4>1. r \in WorkerSet /\ r.pc = "registered" /\ worker' = [worker EXCEPT ![i][h] = r]
        BY <3>1, WorkerMoves
      <4> HIDE DEF r
      <4> QED
        BY <3>1, <4>1
    <3>2. CASE worker' = [worker EXCEPT ![i][h] = R!Retry(worker[i][h], "raised")]
      <4>1. /\ R!Retry(worker[i][h], "raised") \in WorkerSet
            /\ R!Retry(worker[i][h], "raised").pc \in {worker[i][h].pc, "raised"}
        BY HostTypes, RetryOfWorker
      <4>2. /\ worker[i][h].pc = "register"
            /\ worker' # [worker EXCEPT ![i][h].pc = "registered"] => (device[i][h] # i \/ R!Fails)
        BY <2>2 DEF R!packet_register_to_cattle
      <4>3. worker' # [worker EXCEPT ![i][h].pc = "registered"]
        <5>1. /\ worker'[i][h].pc \in {"register", "raised"}
              /\ [worker EXCEPT ![i][h].pc = "registered"][i][h].pc = "registered"
          BY <3>2, <4>1, <4>2, HostTypes, WorkerMoves DEF RancherInv, RancherTypes
        <5> QED
          BY <5>1
      <4>4. R!Fails \/ UNCHANGED errorsSeen
        BY <2>2 DEF R!packet_register_to_cattle
      <4> QED
        BY <3>2, <4>1, <4>2, <4>3, <4>4
    <3>3. \/ worker' = [worker EXCEPT ![i][h].pc = "registered"] /\ UNCHANGED errorsSeen
          \/ worker' = [worker EXCEPT ![i][h] = R!Retry(worker[i][h], "raised")]
      BY <2>2, HostTypes DEF R!packet_register_to_cattle, RancherInv, RancherTypes
    <3> QED
      BY <3>1, <3>2, <3>3
  <2> QED
    BY <2>1, <2>2
<1>3. /\ RancherTypes' /\ Others(i) /\ errorsSeen' >= errorsSeen
      /\ worker'[i][h] = r /\ device'[i][h] = device[i][h] /\ inFlight'[i] = inFlight[i]
      /\ \A g \in Hosts \ {h} : worker'[i][g] = worker[i][g] /\ device'[i][g] = device[i][g]
  <2>1. /\ device[i][h] \in DeviceSet /\ inFlight[i] \in SUBSET Hosts
        /\ HostMoves(i, h, r, device[i][h], inFlight[i])
    BY <1>1, <1>2, HostTypes DEF HostMoves
  <2>2. HostMoved(i, h, r, device[i][h], inFlight[i])
    BY <2>1, HostStep
  <2> QED
    BY <2>2 DEF HostMoved
<1>4. job[i].pc = "join" => HostShape(i, h)'
  <2> SUFFICES ASSUME job[i].pc = "join" PROVE HostShape(i, h)'
    OBVIOUS
  <2>1. HostShape(i, h) /\ device[i][h] \in DeviceSet /\ errorsSeen' >= errorsSeen
    BY <1>3, HostTypes DEF RancherInv, JobInv, SetupShape
  <2>2. R!Fails => errorsSeen' > 0
    BY RancherFails DEF RancherInv
  <2>3. UNCHANGED device /\ h \notin inFlight'[i]
    BY <1>1, <2>1 DEF HostShape
  <2>4. r.pc = "register" => device[i][h] \in Jobs
    BY <1>1, <1>2, <2>1 DEF HostShape, DeviceSet
  <2>5. r.pc = "raised" => errorsSeen' > 0 \/ device[i][h] \in Jobs \ {i}
    BY <1>1, <1>2, <2>1, <2>2 DEF HostShape, DeviceSet
  <2> QED
    BY <1>3, <2>3, <2>4, <2>5 DEF HostShape
<1>5. worker[i][h].pc \in {"create", "sent", "wait", "register"} /\ inFlight'[i] \subseteq inFlight[i] \cup {h}
  BY <1>1, <1>3
<1> QED
  BY <1>1, <1>3, <1>4, <1>5, ThreadStep

(* The provider creates what was asked for; it is lost to a teardown that  *)
(* has listed the devices.                                                 *)
LEMMA ServeCreateStep ==
  ASSUME RancherInv, NEW i \in Jobs, NEW h \in Hosts, R!ServeCreate(i, h)
  PROVE  RancherInv'
<1> DEFINE flight == inFlight[i] \ {h}
           pc == IF worker[i][h].pc = "sent" THEN "wait" ELSE worker[i][h].pc
           r == [worker[i][h] EXCEPT !.pc = pc]
<1>1. /\ h \in inFlight[i] /\ inFlight' = [inFlight EXCEPT ![i] = flight]
      /\ device' = [device EXCEPT ![i][h] = "queued"]
      /\ worker' = [worker EXCEPT ![i][h].pc = pc]
      /\ UNCHANGED <<key, server, job, fileWritten, lost>> /\ UNCHANGED errorsSeen
  BY HostTypes DEF R!ServeCreate, R!WorkerOnly
<1>2. /\ worker[i][h] \in WorkerSet /\ flight \in SUBSET Hosts /\ "queued" \in DeviceSet
      /\ flight \subseteq inFlight[i] \cup {h}
  BY HostTypes DEF DeviceSet
<1>3. pc \in {"none", "create", "sent", "wait", "register", "registered", "raised"}
  BY <1>2 DEF WorkerSet
<1>4. r \in WorkerSet /\ r.pc = pc /\ worker' = [worker EXCEPT ![i][h] = r]
  <2> HIDE DEF pc
  <2> QED
    BY <1>1, <1>3, WorkerMoves, SMTT(30)
<1>5. pc \in Settled => worker[i][h].pc \in Settled /\ pc = worker[i][h].pc
  BY DEF Settled
<1>6. pc # "wait" => worker[i][h].pc = pc /\ pc # "sent"
  OBVIOUS
<1>7. worker[i][h].pc \in Settled => pc = worker[i][h].pc
  BY DEF Settled
<1> HIDE DEF r, flight, pc
<1>8. /\ RancherTypes' /\ Others(i) /\ errorsSeen' >= errorsSeen
      /\ worker'[i][h] = r /\ device'[i][h] = "queued" /\ inFlight'[i] = flight
      /\ \A g \in Hosts \ {h} : worker'[i][g] = worker[i][g] /\ device'[i][g] = device[i][g]
  <2>1. HostMoves(i, h, r, "queued", flight)
    BY <1>1, <1>4 DEF HostMoves
  <2>2. HostMoved(i, h, r, "queued", flight)
    BY <1>2, <1>4, <2>1, HostStep
  <2> QED
    BY <2>2 DEF HostMoved
<1>9. JobInv(i) /\ job' = job /\ lost' = lost /\ server' = server /\ errorsSeen' = errorsSeen
  BY <1>1 DEF RancherInv
<1>10. flight = inFlight[i] \ {h}
  BY DEF flight
<1>11. SetupShape(i)'
  <2>1. inFlight[i] # {} /\ job[i].pc \notin {"nfs", "rancher", "token", "poll", "upload"}
    BY <1>1, <1>9 DEF JobInv, SetupShape
  <2>2. ASSUME job[i].pc \in {"join", "written"} PROVE job[i].pc = "join" /\ pc = "wait"
    BY <1>1, <1>6, <1>9, <2>2 DEF JobInv, SetupShape, HostShape, pc
  <2>3. ASSUME job[i].pc = "join", NEW g \in Hosts PROVE HostShape(i, g)'
    <3>1. CASE g = h
      BY <1>4, <1>8, <1>10, <2>2, <2>3, <3>1 DEF HostShape
    <3>2. CASE g # h
      BY <1>8, <1>9, <1>10, <2>3, <3>2 DEF JobInv, SetupShape, HostShape
    <3> QED
      BY <3>1, <3>2
  <2> QED
    BY <1>9, <2>1, <2>2, <2>3 DEF SetupShape
<1>12. TeardownShape(i)'
  <2>1. ASSUME NEW g \in Hosts, worker[i][g].pc \in Settled PROVE worker'[i][g].pc \in Settled
    BY <1>4, <1>7, <1>8, <2>1
  <2>2. ASSUME NEW g \in Hosts, device'[i][g] # "none" PROVE g = h \/ device[i][g] # "none"
    BY <1>8, <2>2
  <2>3. inFlight'[i] \subseteq inFlight[i] /\ h \in inFlight[i]
    BY <1>1, <1>8, <1>10
  <2> QED
    BY <1>9, <2>1, <2>2, <2>3 DEF JobInv, TeardownShape
<1> QED
  BY <1>8, <1>11, <1>12, OthersKeepInv DEF JobInv

(* The device takes the key that is there.                                 *)
LEMMA DeviceActiveStep ==
  ASSUME RancherInv, NEW i \in Jobs, NEW h \in Hosts, R!DeviceActive(i, h)
  PROVE  RancherInv'
<1>1. /\ device[i][h] = "queued" /\ key \in Jobs
      /\ device' = [device EXCEPT ![i][h] = key]
      /\ UNCHANGED <<key, server, job, fileWritten, lost>> /\ UNCHANGED errorsSeen
      /\ UNCHANGED <<worker, inFlight>>
  BY DEF R!DeviceActive, R!WorkerOnly, R!Nobody, RancherInv, RancherTypes
<1>2. key \in DeviceSet /\ (R!Fails \/ UNCHANGED errorsSeen)
  BY <1>1 DEF DeviceSet
<1>3. /\ RancherTypes' /\ Others(i) /\ errorsSeen' >= errorsSeen
      /\ worker'[i][h] = worker[i][h] /\ device'[i][h] = key /\ inFlight'[i] = inFlight[i]
      /\ \A g \in Hosts \ {h} : worker'[i][g] = worker[i][g] /\ device'[i][g] = device[i][g]
  <2>1. /\ worker[i][h] \in WorkerSet /\ inFlight[i] \in SUBSET Hosts
        /\ HostMoves(i, h, worker[i][h], key, inFlight[i])
    BY <1>1, <1>2, HostTypes DEF HostMoves
  <2>2. HostMoved(i, h, worker[i][h], key, inFlight[i])
    BY <1>2, <2>1, HostStep
  <2> QED
    BY <2>2 DEF HostMoved
<1>4. JobInv(i) /\ "queued" \notin Jobs /\ "none" \notin Jobs
  BY DEF RancherInv, RancherTypes
<1>5. SetupShape(i)'
  <2>1. ASSUME NEW g \in Hosts, HostShape(i, g) PROVE HostShape(i, g)'
    <3>1. CASE g = h
      BY <1>1, <1>3, <1>4, <2>1, <3>1 DEF HostShape
    <3>2. CASE g # h
      BY <1>1, <1>3, <2>1, <3>2 DEF HostShape
    <3> QED
      BY <3>1, <3>2
  <2> QED
    BY <1>1, <1>4, <2>1 DEF JobInv, SetupShape
<1>6. TeardownShape(i)'
  <2>1. ASSUME NEW g \in Hosts, device'[i][g] # "none" PROVE device[i][g] # "none"
    BY <1>1, <1>3, <2>1
  <2> QED
    BY <1>1, <1>4, <2>1 DEF JobInv, TeardownShape
<1> QED
  BY <1>3, <1>5, <1>6, OthersKeepInv DEF JobInv

-----------------------------------------------------------------------------
(* The teardown.                                                           *)

LEMMA TeardownStep ==
  ASSUME RancherInv, NEW i \in Jobs,
         job' \in [Jobs -> JobSet], \A j \in Jobs \ {i} : job'[j] = job[j],
         job'[i].pc \in {"devices", "delete", "servers", "deleteServers", "done", "failed"},
         device' \in [Jobs -> [Hosts -> DeviceSet]], \A j \in Jobs \ {i} : device'[j] = device[j],
         server' \in [Jobs -> SUBSET Servers], \A j \in Jobs \ {i} : server'[j] = server[j],
         lost' \in [Jobs -> SUBSET (Hosts \cup Servers)], \A j \in Jobs \ {i} : lost'[j] = lost[j],
         R!Fails \/ UNCHANGED errorsSeen,
         UNCHANGED <<key, inFlight, worker, fileWritten>>,
         TeardownShape(i)'
  PROVE  RancherInv'
<1>1. errorsSeen' \in 0 .. SetupErrors /\ errorsSeen' >= errorsSeen
  BY RancherFails DEF RancherInv
<1>2. RancherTypes'
  BY <1>1 DEF RancherInv, RancherTypes
<1>3. Others(i)
  BY DEF Others
<1>4. JobInv(i)'
  BY DEF JobInv, SetupShape
<1> QED
  BY <1>1, <1>2, <1>3, <1>4, OthersKeepInv

LEMMA TeardownTypes ==
  ASSUME RancherInv, NEW i \in Jobs
  PROVE  /\ RancherTypes /\ TeardownShape(i) /\ job[i] \in JobSet
         /\ device \in [Jobs -> [Hosts -> DeviceSet]] /\ server \in [Jobs -> SUBSET Servers]
         /\ lost \in [Jobs -> SUBSET (Hosts \cup Servers)]
         /\ inFlight \in [Jobs -> SUBSET Hosts]
BY DEF RancherInv, RancherTypes, JobInv

(* What is forgotten only shrinks, and what the job does not reach by this *)
(* step of it is untouched: the teardown fails, or goes on to the next.    *)
LEMMA StartTeardownStep ==
  ASSUME RancherInv, NEW i \in Jobs, R!StartTeardown(i)
  PROVE  RancherInv'
<1>1. /\ R!Goto(i, "devices") /\ \A h \in Hosts : worker[i][h].pc \in Settled
      /\ UNCHANGED <<key, inFlight, worker, fileWritten>>
      /\ UNCHANGED <<server, device, lost, errorsSeen>>
  BY DEF R!StartTeardown, R!TeardownOnly, Settled
<1>2. /\ job' \in [Jobs -> JobSet] /\ job'[i].pc = "devices"
      /\ \A j \in Jobs \ {i} : job'[j] = job[j]
  BY <1>1, GotoMoves, TeardownTypes
<1>3. TeardownShape(i)'
  BY <1>1, <1>2 DEF TeardownShape
<1> QED
  BY <1>1, <1>2, <1>3, TeardownTypes, TeardownStep

LEMMA ListDevicesStep ==
  ASSUME RancherInv, NEW i \in Jobs, R!ListDevices(i)
  PROVE  RancherInv'
<1>1. /\ job[i].pc = "devices"
      /\ UNCHANGED <<key, inFlight, worker, fileWritten>> /\ UNCHANGED <<server, device>>
  BY DEF R!ListDevices, R!TeardownOnly
<1>2. CASE R!Fails /\ R!Goto(i, "failed") /\ UNCHANGED lost
  <2>1. /\ job' \in [Jobs -> JobSet] /\ job'[i].pc = "failed"
        /\ \A j \in Jobs \ {i} : job'[j] = job[j]
    BY <1>2, GotoMoves, TeardownTypes
  <2>2. TeardownShape(i)'
    BY <2>1 DEF TeardownShape
  <2> QED
    BY <1>1, <1>2, <2>1, <2>2, TeardownTypes, TeardownStep
<1>3. CASE ~(R!Fails /\ R!Goto(i, "failed") /\ UNCHANGED lost)
  <2> DEFINE listed == {h \in Hosts : device[i][h] # "none"}
             r == [job[i] EXCEPT !.pc = "delete", !.todo = listed]
  <2>1. /\ job' = [job EXCEPT ![i].pc = "delete", ![i].todo = listed]
        /\ lost' = [lost EXCEPT ![i] = lost[i] \cup inFlight[i]]
        /\ UNCHANGED errorsSeen
    BY <1>3, TeardownTypes DEF R!ListDevices, R!NoDevice
  <2>2. r \in JobSet /\ r.pc = "delete" /\ r.todo = listed
    BY TeardownTypes DEF JobSet
  <2>3. job' = [job EXCEPT ![i] = r]
    BY <2>1, TeardownTypes DEF RancherTypes, JobSet
  <2> HIDE DEF r
  <2>4. /\ job' \in [Jobs -> JobSet] /\ job'[i] = r /\ \A j \in Jobs \ {i} : job'[j] = job[j]
    BY <2>2, <2>3, TeardownTypes, JobMoves
  <2>5. /\ lost' \in [Jobs -> SUBSET (Hosts \cup Servers)] /\ lost'[i] = lost[i] \cup inFlight[i]
        /\ \A j \in Jobs \ {i} : lost'[j] = lost[j]
    BY <2>1, TeardownTypes
  <2>6. TeardownShape(i)'
    BY <1>1, <2>2, <2>4, <2>5, TeardownTypes DEF TeardownShape
  <2> QED
    BY <1>1, <2>1, <2>2, <2>4, <2>5, <2>6, TeardownTypes, TeardownStep
<1> QED
  BY <1>2, <1>3

(* A deletion that fails is tried again, or what it was about is lost.     *)
LEMMA DeletionFailsStep ==
  ASSUME RancherInv, NEW i \in Jobs, NEW name \in Hosts \cup Servers, NEW r \in JobSet,
         R!DeletionFails(i, name, r)
  PROVE  /\ R!Fails
         /\ job' \in [Jobs -> JobSet] /\ \A j \in Jobs \ {i} : job'[j] = job[j]
         /\ lost' \in [Jobs -> SUBSET (Hosts \cup Servers)] /\ \A j \in Jobs \ {i} : lost'[j] = lost[j]
         /\ \/ /\ job'[i].pc = job[i].pc /\ job'[i].todo = job[i].todo /\ job'[i].left = job[i].left
               /\ lost'[i] = lost[i]
            \/ job'[i] = r /\ lost'[i] = lost[i] \cup {name}
<1>1. CASE job[i].attempt + 1 < Attempts
  <2> DEFINE again == [job[i] EXCEPT !.attempt = job[i].attempt + 1]
  <2>1. job[i].attempt + 1 \in 0 .. Attempts - 1
    BY <1>1, TeardownTypes DEF JobSet, RancherTypes
  <2>2. /\ again \in JobSet /\ again.pc = job[i].pc /\ again.todo = job[i].todo
        /\ again.left = job[i].left
    BY <2>1, TeardownTypes DEF JobSet
  <2>3. R!Fails /\ job' = [job EXCEPT ![i] = again] /\ UNCHANGED lost
    BY <1>1, TeardownTypes DEF R!DeletionFails, RancherTypes, JobSet
  <2> HIDE DEF again
  <2> QED
    BY <2>2, <2>3, TeardownTypes, JobMoves
<1>2. CASE ~(job[i].attempt + 1 < Attempts)
  <2>1. R!Fails /\ job' = [job EXCEPT ![i] = r] /\ lost' = [lost EXCEPT ![i] = lost[i] \cup {name}]
    BY <1>2, TeardownTypes DEF R!DeletionFails
  <2>2. /\ lost' \in [Jobs -> SUBSET (Hosts \cup Servers)] /\ lost'[i] = lost[i] \cup {name}
        /\ \A j \in Jobs \ {i} : lost'[j] = lost[j]
    BY <2>1, TeardownTypes
  <2> QED
    BY <2>1, <2>2, TeardownTypes, JobMoves
<1> QED
  BY <1>1, <1>2

LEMMA DeleteDeviceStep ==
  ASSUME RancherInv, NEW i \in Jobs, R!DeleteDevice(i)
  PROVE  RancherInv'
<1>1. /\ job[i].pc = "delete" /\ job[i].todo \in SUBSET Hosts
      /\ UNCHANGED <<key, inFlight, worker, fileWritten>> /\ UNCHANGED server
  BY TeardownTypes DEF R!DeleteDevice, R!TeardownOnly, JobSet
<1>2. CASE job[i].todo = {}
  <2>1. R!Goto(i, "servers") /\ UNCHANGED <<device, lost, errorsSeen>>
    BY <1>2 DEF R!DeleteDevice
  <2>2. /\ job' \in [Jobs -> JobSet] /\ job'[i].pc = "servers"
        /\ \A j \in Jobs \ {i} : job'[j] = job[j]
    BY <2>1, GotoMoves, TeardownTypes
  <2>3. TeardownShape(i)'
    BY <1>1, <1>2, <2>1, <2>2, TeardownTypes DEF TeardownShape
  <2> QED
    BY <1>1, <2>1, <2>2, <2>3, TeardownTypes, TeardownStep
<1>3. CASE job[i].todo # {}
  <2> DEFINE h == R!OneOf(job[i].todo)
             r == [job[i] EXCEPT !.todo = job[i].todo \ {h}, !.attempt = 0]
  <2>1. h \in job[i].todo /\ h \in Hosts
    BY <1>1, <1>3 DEF R!OneOf
  <2>2. \/ /\ device' = [device EXCEPT ![i][h] = "none"] /\ job' = [job EXCEPT ![i] = r]
           /\ UNCHANGED <<lost, errorsSeen>>
        \/ R!DeletionFails(i, h, r) /\ UNCHANGED device
    BY <1>3, TeardownTypes DEF R!DeleteDevice, R!NoDevice
  <2>3. r \in JobSet /\ r.pc = "delete" /\ r.todo = job[i].todo \ {h}
    <3>1. job[i] \in JobSet /\ 0 \in 0 .. Attempts - 1 /\ job[i].todo \ {h} \subseteq job[i].todo
      BY TeardownTypes DEF RancherTypes
    <3> HIDE DEF h
    <3> QED
      BY <1>1, <3>1 DEF JobSet
  <2> HIDE DEF h, r
  <2>4. CASE /\ device' = [device EXCEPT ![i][h] = "none"] /\ job' = [job EXCEPT ![i] = r]
             /\ UNCHANGED <<lost, errorsSeen>>
    <3>1. /\ device' \in [Jobs -> [Hosts -> DeviceSet]] /\ device'[i][h] = "none"
          /\ \A g \in Hosts \ {h} : device'[i][g] = device[i][g]
          /\ \A j \in Jobs \ {i} : device'[j] = device[j]
      BY <2>1, <2>4, TeardownTypes DEF DeviceSet
    <3>2. /\ job' \in [Jobs -> JobSet] /\ job'[i] = r /\ \A j \in Jobs \ {i} : job'[j] = job[j]
      BY <2>3, <2>4, TeardownTypes, JobMoves
    <3>3. TeardownShape(i)'
      BY <1>1, <2>3, <2>4, <3>1, <3>2, TeardownTypes DEF TeardownShape
    <3> QED
      BY <1>1, <2>3, <2>4, <3>1, <3>2, <3>3, TeardownTypes, TeardownStep
  <2>5. CASE R!DeletionFails(i, h, r) /\ UNCHANGED device
    <3>1. /\ R!Fails
          /\ job' \in [Jobs -> JobSet] /\ \A j \in Jobs \ {i} : job'[j] = job[j]
          /\ lost' \in [Jobs -> SUBSET (Hosts \cup Servers)] /\ \A j \in Jobs \ {i} : lost'[j] = lost[j]
          /\ \/ job'[i].pc = job[i].pc /\ job'[i].todo = job[i].todo /\ lost'[i] = lost[i]
             \/ job'[i] = r /\ lost'[i] = lost[i] \cup {h}
      BY <2>1, <2>3, <2>5, DeletionFailsStep
    <3>2. job'[i].pc = "delete"
      BY <1>1, <2>3, <3>1
    <3>3. TeardownShape(i)'
      BY <1>1, <2>3, <2>5, <3>1, <3>2, TeardownTypes DEF TeardownShape
    <3> QED
      BY <1>1, <2>5, <3>1, <3>2, <3>3, TeardownTypes, TeardownStep
  <2> QED
    BY <2>2, <2>4, <2>5
<1> QED
  BY <1>2, <1>3

LEMMA ListServersStep ==
  ASSUME RancherInv, NEW i \in Jobs, R!ListServers(i)
  PROVE  RancherInv'
<1>1. /\ job[i].pc = "servers"
      /\ UNCHANGED <<key, inFlight, worker, fileWritten>> /\ UNCHANGED <<server, device, lost>>
      /\ R!Fails \/ UNCHANGED errorsSeen
  BY DEF R!ListServers, R!TeardownOnly
<1>2. /\ job' \in [Jobs -> JobSet] /\ \A j \in Jobs \ {i} : job'[j] = job[j]
      /\ \/ job'[i].pc = "failed"
         \/ job'[i].pc = "done" /\ server[i] = {}
         \/ job'[i].pc = "deleteServers" /\ job'[i].left = server[i]
  <2>1. CASE R!Goto(i, "failed")
    BY <2>1, GotoMoves, TeardownTypes
  <2>2. CASE R!Goto(i, "done") /\ \A j \in Jobs : server[j] = {}
    BY <2>2, GotoMoves, TeardownTypes
  <2>3. CASE job' = [job EXCEPT ![i].pc = "deleteServers", ![i].left = server[i]]
    <3> DEFINE r == [job[i] EXCEPT !.pc = "deleteServers", !.left = server[i]]
    <3>1. r \in JobSet /\ r.pc = "deleteServers" /\ r.left = server[i]
      BY TeardownTypes DEF JobSet
    <3>2. job' = [job EXCEPT ![i] = r]
      BY <2>3, TeardownTypes DEF RancherTypes, JobSet
    <3> HIDE DEF r
    <3> QED
      BY <3>1, <3>2, TeardownTypes, JobMoves
  <2> QED
    BY <2>1, <2>2, <2>3 DEF R!ListServers
<1>3. TeardownShape(i)'
  BY <1>1, <1>2, TeardownTypes DEF TeardownShape
<1>4. job'[i].pc \in {"devices", "delete", "servers", "deleteServers", "done", "failed"}
  BY <1>2
<1> QED
  BY <1>1, <1>2, <1>3, <1>4, TeardownTypes, TeardownStep

LEMMA DeleteServerStep ==
  ASSUME RancherInv, NEW i \in Jobs, R!DeleteServer(i)
  PROVE  RancherInv'
<1>1. /\ job[i].pc = "deleteServers" /\ job[i].left \in SUBSET Servers
      /\ UNCHANGED <<key, inFlight, worker, fileWritten>> /\ UNCHANGED device
  BY TeardownTypes DEF R!DeleteServer, R!TeardownOnly, JobSet
<1>2. CASE job[i].left = {}
  <2>1. R!Goto(i, "done") /\ UNCHANGED <<server, lost, errorsSeen>>
    BY <1>2 DEF R!DeleteServer
  <2>2. /\ job' \in [Jobs -> JobSet] /\ job'[i].pc = "done"
        /\ \A j \in Jobs \ {i} : job'[j] = job[j]
    BY <2>1, GotoMoves, TeardownTypes
  <2>3. TeardownShape(i)'
    BY <1>1, <1>2, <2>1, <2>2, TeardownTypes DEF TeardownShape
  <2> QED
    BY <1>1, <2>1, <2>2, <2>3, TeardownTypes, TeardownStep
<1>3. CASE job[i].left # {}
  <2> DEFINE s == R!OneOf(job[i].left)
             r == [job[i] EXCEPT !.left = job[i].left \ {s}, !.attempt = 0]
  <2>1. s \in job[i].left /\ s \in Servers
    BY <1>1, <1>3 DEF R!OneOf
  <2>2. \/ /\ server' = [server EXCEPT ![i] = server[i] \ {s}] /\ job' = [job EXCEPT ![i] = r]
           /\ UNCHANGED <<lost, errorsSeen>>
        \/ R!DeletionFails(i, s, r) /\ UNCHANGED server
    BY <1>3, TeardownTypes DEF R!DeleteServer
  <2>3. r \in JobSet /\ r.pc = "deleteServers" /\ r.left = job[i].left \ {s}
    <3>1. job[i] \in JobSet /\ 0 \in 0 .. Attempts - 1 /\ job[i].left \ {s} \subseteq job[i].left
      BY TeardownTypes DEF RancherTypes
    <3> HIDE DEF s
    <3> QED
      BY <1>1, <3>1 DEF JobSet
  <2> HIDE DEF s, r
  <2>4. CASE /\ server' = [server EXCEPT ![i] = server[i] \ {s}] /\ job' = [job EXCEPT ![i] = r]
             /\ UNCHANGED <<lost, errorsSeen>>
    <3>1. /\ server' \in [Jobs -> SUBSET Servers] /\ server'[i] = server[i] \ {s}
          /\ \A j \in Jobs \ {i} : server'[j] = server[j]
      BY <2>4, TeardownTypes
    <3>2. /\ job' \in [Jobs -> JobSet] /\ job'[i] = r /\ \A j \in Jobs \ {i} : job'[j] = job[j]
      BY <2>3, <2>4, TeardownTypes, JobMoves
    <3>3. TeardownShape(i)'
      BY <1>1, <2>3, <2>4, <3>1, <3>2, TeardownTypes DEF TeardownShape
    <3> QED
      BY <1>1, <2>3, <2>4, <3>1, <3>2, <3>3, TeardownTypes, TeardownStep
  <2>5. CASE R!DeletionFails(i, s, r) /\ UNCHANGED server
    <3>1. /\ R!Fails
          /\ job' \in [Jobs -> JobSet] /\ \A j \in Jobs \ {i} : job'[j] = job[j]
          /\ lost' \in [Jobs -> SUBSET (Hosts \cup Servers)] /\ \A j \in Jobs \ {i} : lost'[j] = lost[j]
          /\ \/ job'[i].pc = job[i].pc /\ job'[i].left = job[i].left /\ lost'[i] = lost[i]
             \/ job'[i] = r /\ lost'[i] = lost[i] \cup {s}
      BY <2>1, <2>3, <2>5, DeletionFailsStep
    <3>2. job'[i].pc = "deleteServers"
      BY <1>1, <2>3, <3>1
    <3>3. TeardownShape(i)'
      BY <1>1, <2>3, <2>5, <3>1, <3>2, TeardownTypes DEF TeardownShape
    <3> QED
      BY <1>1, <2>5, <3>1, <3>2, <3>3, TeardownTypes, TeardownStep
  <2> QED
    BY <2>2, <2>4, <2>5
<1> QED
  BY <1>2, <1>3

LEMMA RancherStep ==
  ASSUME RancherInv, R!Next
  PROVE  RancherInv'
<1>1. PICK i \in Jobs :
         \/ R!Setup(i) \/ R!Abort(i) \/ R!Teardown(i)
         \/ \E h \in Hosts : R!Worker(i, h) \/ R!ServeCreate(i, h) \/ R!DeviceActive(i, h)
  BY DEF R!Next
<1>2. CASE R!Setup(i)
  BY <1>2, CreateServerStep, TokenStep, UploadKeyStep, WriteFileStep DEF R!Setup
<1>3. CASE R!Teardown(i)
  BY <1>3, StartTeardownStep, ListDevicesStep, DeleteDeviceStep, ListServersStep, DeleteServerStep
     DEF R!Teardown
<1>4. CASE \E h \in Hosts : R!Worker(i, h) \/ R!ServeCreate(i, h) \/ R!DeviceActive(i, h)
  BY <1>4, CreateDeviceStep, AwaitActiveStep, ServeCreateStep, DeviceActiveStep DEF R!Worker
<1> QED
  BY <1>1, <1>2, <1>3, <1>4, AbortStep

LEMMA MachinesFollow == RancherInv => R!FileMeansRegistered /\ R!TeardownLeavesNothing
<1> SUFFICES ASSUME RancherInv, NEW j \in Jobs
             PROVE  /\ job[j].pc = "written" =>
                          \/ \A h \in Hosts : worker[j][h].pc = "registered"
                          \/ errorsSeen > 0
                          \/ \E h \in Hosts : device[j][h] \in Jobs \ {j}
                    /\ job[j].pc = "done" =>
                          /\ {h \in Hosts : device[j][h] # "none"} \subseteq lost[j]
                          /\ server[j] \subseteq lost[j]
  BY DEF R!FileMeansRegistered, R!TeardownLeavesNothing, R!NoDevice
<1>1. SetupShape(j) /\ TeardownShape(j)
  BY DEF RancherInv, JobInv
<1>2. job[j].pc = "written" =>
         \/ \A h \in Hosts : worker[j][h].pc = "registered"
         \/ errorsSeen > 0
         \/ \E h \in Hosts : device[j][h] \in Jobs \ {j}
  BY <1>1 DEF SetupShape, HostShape
<1>3. job[j].pc = "done" =>
         /\ {h \in Hosts : device[j][h] # "none"} \subseteq lost[j]
         /\ server[j] \subseteq lost[j]
  BY <1>1 DEF TeardownShape
<1> QED
  BY <1>2, <1>3

LEMMA RancherStutter ==
  ASSUME RancherInv, UNCHANGED rancher
  PROVE  RancherInv'
<1>1. RancherTypes'
  BY DEF RancherInv, RancherTypes, rancher
<1>2. ASSUME NEW j \in Jobs PROVE JobInv(j)'
  BY DEF RancherInv, JobInv, HostShape, SetupShape, TeardownShape, rancher
<1> QED
  BY <1>1, <1>2 DEF RancherInv

-----------------------------------------------------------------------------
(* The scripts together                                                    *)

Inv == S!TypeOK /\ ScaleInv /\ QaseInv /\ RancherInv

LEMMA Invariance == Spec => []Inv
<1>1. Init => Inv
  BY ScaleTypeInit, ScaleInit, QaseInit, RancherInit DEF Init, Inv
<1>2. Inv /\ [Next]_vars => Inv'
  <2> SUFFICES ASSUME Inv, [Next]_vars PROVE Inv'
    OBVIOUS
  <2>1. S!TypeOK /\ ScaleInv /\ QaseInv /\ RancherInv
    BY DEF Inv
  <2>2. S!TypeOK' /\ ScaleInv'
    <3>1. S!Next \/ UNCHANGED scale
      BY DEF Next, vars
    <3>2. UNCHANGED scale => UNCHANGED <<sts, file, script, data>>
      BY DEF scale
    <3> QED
      BY <2>1, <3>1, <3>2, ScaleTypeStep, ScaleStep, ScaleStutter
  <2>3. QaseInv'
    <3>1. Q!Next \/ UNCHANGED qase
      BY DEF Next, vars
    <3> QED
      BY <2>1, <3>1, QaseStep, QaseStutter
  <2>4. RancherInv'
    <3>1. R!Next \/ UNCHANGED rancher
      BY DEF Next, vars
    <3> QED
      BY <2>1, <3>1, RancherStep, RancherStutter
  <2> QED
    BY <2>2, <2>3, <2>4 DEF Inv
<1> QED
  BY <1>1, <1>2, PTL DEF Spec

(***************************************************************************)
(* What the scripts keep has its types: the Monitor's lists and points     *)
(* through resumed and padded data, what reporters hold of the cases they  *)
(* found, what jobs know of their machines.                                *)
(***************************************************************************)
THEOREM TypeCorrect == Spec => []TypeOK
<1>1. Inv => TypeOK
  BY QaseTyped, RancherTyped DEF Inv, QaseInv, RancherInv, TypeOK
<1> QED
  BY <1>1, Invariance, PTL

(***************************************************************************)
(* scale-test.py "all" never monitors StatefulSets that it has not scaled, *)
(* and the starting point in the Monitor's file is of the first update     *)
(* that saw a late pod, through interrupts and resumed data.               *)
(***************************************************************************)
THEOREM TheStartIsTheFirst == Spec => []MeasuredFromTheStart
<1>1. Inv => MeasuredFromTheStart
  BY PointFollows DEF Inv, MeasuredFromTheStart
<1> QED
  BY <1>1, Invariance, PTL

(***************************************************************************)
(* junit_to_qase.py: whatever reporters do at the same time and whichever  *)
(* requests fail, a run that is complete and had no batch refused has each *)
(* result of its report once, in batches of any size, under a case that    *)
(* its name finds or that was added for it; a test that broke off with an  *)
(* error, or was skipped without a message, is one of those that passed.   *)
(* No reporter adds a case twice that it can find.                         *)
(***************************************************************************)
THEOREM CompleteRunsAreWhole == Spec => []CompleteRunHasAllResults
<1>1. Inv => CompleteRunHasAllResults
  BY ResultsFollow DEF Inv, CompleteRunHasAllResults
<1> QED
  BY <1>1, Invariance, PTL

(***************************************************************************)
(* setupRancher.py writes the property file only when all of its threads   *)
(* have registered their hosts, unless a request failed or another job     *)
(* took the key; teardownRancher.py leaves only machines that it could not *)
(* delete or did not see.                                                  *)
(***************************************************************************)
THEOREM NoMachineIsForgotten == Spec => []MachinesAreAccountedFor
<1>1. Inv => MachinesAreAccountedFor
  BY MachinesFollow DEF Inv, MachinesAreAccountedFor
<1> QED
  BY <1>1, Invariance, PTL
=============================================================================
