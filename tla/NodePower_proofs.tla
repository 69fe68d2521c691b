-------------------------- MODULE NodePower_proofs --------------------------
(***************************************************************************)
(* Proofs about the nodes' power, for any cluster, any number of tests and *)
(* keywords, and any failures.                                             *)
(***************************************************************************)
EXTENDS NodePower, SequenceTheorems, FiniteSetTheorems, TLAPS

(* What is left of a list has its other members: the rank of a position    *)
(* among those that are kept is a bijection to the positions of the rest.  *)
LEMMA WithoutType ==
  ASSUME NEW list \in Seq(Nodes), NEW n \in Nodes
  PROVE  /\ Without(list, n) \in Seq(Nodes)
         /\ Range(Without(list, n)) = Range(list) \ {n}
<1> DEFINE kept == {i \in DOMAIN list : list[i] # n}
           Below(i) == {j \in kept : j <= i}
           rank == [i \in kept |-> Cardinality(Below(i))]
           c == Cardinality(kept)
           pick == [k \in 1 .. c |-> CHOOSE i \in kept : Cardinality(Below(i)) = k]
<1>1. kept \subseteq 1 .. Len(list) /\ \A i \in kept : list[i] \in Range(list) \ {n}
  BY DEF Range
<1>2. Without(list, n) = [k \in 1 .. c |-> list[pick[k]]]
  BY DEF Without
<1>3. \A i \in kept : Below(i) \subseteq kept /\ i \in Below(i)
  BY <1>1
<1>4. \A i, k \in kept : i < k => Below(i) \subseteq Below(k) /\ k \notin Below(i)
  BY <1>1
<1> HIDE DEF kept, Below
<1>5. IsFiniteSet(kept) /\ c \in Nat
  <2>1. IsFiniteSet(1 .. Len(list))
    BY FS_Interval
  <2> QED
    BY <1>1, <2>1, FS_Subset, FS_CardinalityType
<1>6. \A i \in kept : /\ IsFiniteSet(Below(i))
                      /\ Cardinality(Below(i)) \in 1 .. c
  <2> TAKE i \in kept
  <2>1. /\ IsFiniteSet(Below(i))
        /\ Cardinality(Below(i)) \in Nat /\ Cardinality(Below(i)) <= c
    BY <1>3, <1>5, FS_Subset, FS_CardinalityType
  <2>2. Cardinality(Below(i)) # 0
    BY <1>3, <2>1, FS_EmptySet
  <2> QED
    BY <1>5, <2>1, <2>2
<1>7. \A i, k \in kept : i < k => Cardinality(Below(i)) # Cardinality(Below(k))
  <2> SUFFICES ASSUME NEW i \in kept, NEW k \in kept, i < k
               PROVE  Cardinality(Below(i)) # Cardinality(Below(k))
    OBVIOUS
  <2>1. Below(i) \in SUBSET Below(k) /\ Below(i) # Below(k)
    BY <1>3, <1>4
  <2> QED
    BY <1>6, <2>1, FS_Subset
<1>8. rank \in Injection(kept, 1 .. c)
  <2>1. rank \in [kept -> 1 .. c]
    BY <1>6
  <2>2. \A i, k \in kept : rank[i] = rank[k] => i = k
    BY <1>1, <1>7
  <2> QED
    BY <2>1, <2>2 DEF Injection, IsInjective
<1>9. rank \in Surjection(kept, 1 .. c)
  <2>1. IsFiniteSet(1 .. c) /\ Cardinality(1 .. c) = c
    BY <1>5, FS_Interval
  <2> QED
    BY <1>8, <2>1, FS_Injection
<1>10. \A k \in 1 .. c : pick[k] \in kept
  BY <1>9 DEF Surjection
<1>11. \A i \in kept : rank[i] \in 1 .. c /\ pick[rank[i]] = i
  <2>1. \A i, k \in kept : Cardinality(Below(i)) = Cardinality(Below(k)) => i = k
    BY <1>1, <1>7
  <2> QED
    BY <1>6, <2>1
<1> HIDE DEF c, pick
<1>12. \A k \in 1 .. c : list[pick[k]] \in Nodes /\ list[pick[k]] \in Range(list) \ {n}
  <2> TAKE k \in 1 .. c
  <2>1. pick[k] \in 1 .. Len(list)
    BY <1>1, <1>10
  <2> QED
    BY <1>1, <1>10, <2>1
<1>13. Without(list, n) \in [1 .. c -> Nodes]
  BY <1>2, <1>12
<1>14. Range(Without(list, n)) \subseteq Range(list) \ {n}
  BY <1>2, <1>12 DEF Range
<1>15. ASSUME NEW m \in Range(list) \ {n} PROVE m \in Range(Without(list, n))
  <2>1. PICK i \in kept : list[i] = m
    BY DEF Range, kept
  <2>2. rank[i] \in 1 .. c /\ Without(list, n)[rank[i]] = m
    BY <1>2, <1>11, <2>1
  <2> QED
    BY <1>13, <2>2 DEF Range
<1> QED
  BY <1>5, <1>13, <1>14, <1>15 DEF c

LEMMA AppendRange ==
  ASSUME NEW list \in Seq(Nodes), NEW n \in Nodes
  PROVE  Range(Append(list, n)) = Range(list) \cup {n}
<1>1. /\ Len(Append(list, n)) = Len(list) + 1 /\ Append(list, n)[Len(list) + 1] = n
      /\ \A i \in 1 .. Len(list) : Append(list, n)[i] = list[i]
      /\ DOMAIN list = 1 .. Len(list) /\ DOMAIN Append(list, n) = 1 .. Len(list) + 1
      /\ Len(list) \in Nat
  OBVIOUS
<1>2. ASSUME NEW m \in Range(Append(list, n)) PROVE m \in Range(list) \cup {n}
  BY <1>1 DEF Range
<1>3. ASSUME NEW m \in Range(list) \cup {n} PROVE m \in Range(Append(list, n))
  BY <1>1 DEF Range
<1> QED
  BY <1>2, <1>3

(* A finite set of nodes can be put in order.                              *)
LEMMA SetToSeqType ==
  ASSUME NEW S \in SUBSET Nodes
  PROVE  SetToSeq(S) \in Seq(Nodes)
<1>1. IsFiniteSet(S)
  BY NodesAssumption, FS_Subset
<1>2. Cardinality(S) \in Nat /\ ExistsBijection(1 .. Cardinality(S), S)
  BY <1>1, FS_CardinalityType
<1>3. \E f \in [1 .. Cardinality(S) -> S] : IsInjective(f)
  BY <1>2 DEF ExistsBijection, Bijection, Injection
<1>4. SetToSeq(S) \in [1 .. Cardinality(S) -> S]
  BY <1>3 DEF SetToSeq
<1> QED
  BY <1>2, <1>4

CallNames == {"append", "remove", "stop", "stopVolumeNode", "wait", "start", "tryStart"}

LEMMA DoType ==
  ASSUME NEW what \in CallNames, NEW n \in Nodes
  PROVE  /\ Do(what, n) \in Calls
         /\ Do(what, n).do = what /\ Do(what, n).node = n
BY DEF Do, Calls, CallNames

LEMMA EachType ==
  ASSUME NEW what \in CallNames, NEW nodes \in Seq(Nodes)
  PROVE  Each(what, nodes) \in Seq(Calls)
<1>1. \A i \in 1 .. Len(nodes) : Do(what, nodes[i]) \in Calls
  BY DoType
<1> QED
  BY <1>1 DEF Each

LEMMA EachTwiceType ==
  ASSUME NEW first \in CallNames, NEW second \in CallNames, NEW nodes \in Seq(Nodes)
  PROVE  /\ EachTwice(first, second, nodes) \in Seq(Calls)
         /\ Len(EachTwice(first, second, nodes)) = 2 * Len(nodes)
         /\ \A i \in 1 .. Len(nodes) : EachTwice(first, second, nodes)[2 * i] = Do(second, nodes[i])
         /\ \A i \in 1 .. 2 * Len(nodes) : EachTwice(first, second, nodes)[i].do \in {first, second}
<1> DEFINE s == EachTwice(first, second, nodes)
<1>1. \A i \in 1 .. 2 * Len(nodes) :
         /\ i % 2 = 1 => (i + 1) \div 2 \in 1 .. Len(nodes)
         /\ i % 2 # 1 => i \div 2 \in 1 .. Len(nodes)
  OBVIOUS
<1>2. \A i \in 1 .. 2 * Len(nodes) :
         \E what \in {first, second}, k \in 1 .. Len(nodes) : s[i] = Do(what, nodes[k])
  BY <1>1 DEF EachTwice
<1>3. \A i \in 1 .. 2 * Len(nodes) : s[i] \in Calls /\ s[i].do \in {first, second}
  BY <1>2, DoType
<1>4. s \in [1 .. 2 * Len(nodes) -> Calls]
  BY <1>3 DEF EachTwice
<1>5. \A i \in 1 .. Len(nodes) : 2 * i \in 1 .. 2 * Len(nodes) /\ (2 * i) % 2 = 0 /\ (2 * i) \div 2 = i
  OBVIOUS
<1>6. \A i \in 1 .. Len(nodes) : s[2 * i] = Do(second, nodes[i])
  BY <1>5 DEF EachTwice
<1>7. s \in Seq(Calls) /\ Len(s) = 2 * Len(nodes)
  BY <1>4
<1> QED
  BY <1>3, <1>6, <1>7

LEMMA KeywordsType ==
  ASSUME TypeOK
  PROVE  Keywords \subseteq Seq(Calls)
<1> USE DEF TypeOK
<1>1. Workers \subseteq Nodes /\ SetToSeq(Workers) \in Seq(Nodes) /\ SetToSeq(Nodes) \in Seq(Nodes)
  BY WorkersAssumption, SetToSeqType
<1>2. ASSUME NEW nodes \in Seq(Nodes)
      PROVE  RebootNodes(nodes) \in Seq(Calls) /\ PowerOffFor(nodes) \in Seq(Calls)
  <2>1. /\ EachTwice("stop", "wait", nodes) \in Seq(Calls)
        /\ Each("start", nodes) \in Seq(Calls)
        /\ Each("append", nodes) \in Seq(Calls)
        /\ Each("remove", nodes) \in Seq(Calls)
    BY EachType, EachTwiceType DEF CallNames
  <2>2. RebootNodes(nodes) \in Seq(Calls)
    BY <2>1 DEF RebootNodes
  <2> QED
    BY <2>1, <2>2 DEF PowerOffFor
<1>3. \A n \in Workers : <<n>> \in Seq(Nodes)
  BY <1>1
<1>4. \A n \in Workers : /\ PowerOff(n) \in Seq(Calls)
                         /\ PowerOffWithoutWaiting(n) \in Seq(Calls)
                         /\ PowerOnNode(n) \in Seq(Calls)
  BY <1>1, DoType DEF CallNames, PowerOff, PowerOffWithoutWaiting, PowerOnNode
<1>5. PowerOffVolumeNode \in Seq(Calls)
  BY DoType DEF CallNames, PowerOffVolumeNode
<1>6. PowerOnList(off) \in Seq(Calls)
  BY EachTwiceType DEF CallNames, PowerOnList
<1> HIDE DEF TypeOK
<1> QED
  BY <1>1, <1>2, <1>3, <1>4, <1>5, <1>6 DEF Keywords

-----------------------------------------------------------------------------
(* The teardown's loop over a copy of the list: it only starts and removes *)
(* nodes, and it has a removal for every node that is listed.              *)
CleansUp ==
    /\ \A i \in 1 .. Len(script) : script[i].do \in {"tryStart", "remove"}
    /\ \A n \in Range(off) : \E i \in 1 .. Len(script) : script[i] = Do("remove", n)

(* What makes TestsStartWithEmptyList inductive: the teardown's loop has   *)
(* never less left to remove than the list still holds.                    *)
CleanupInv == /\ phase = "idle" => script = <<>> /\ off = <<>>
              /\ phase = "teardown" => CleansUp

(* What makes ListedNodeStaysDown inductive: a node seen down is listed,   *)
(* and the monitor is at work on a listed node only if it was listed after *)
(* the monitor's look.                                                     *)
MonitorInv == /\ confirmed \subseteq Range(off)
              /\ \A n \in Range(off) : PastCheck(n) => n \in overlap

LEMMA BeginTeardownType ==
  ASSUME TypeOK, BeginTeardown, UNCHANGED off
  PROVE  script' \in Seq(Calls) /\ phase' = "teardown" /\ CleansUp'
<1> USE DEF TypeOK
<1>1. /\ script' \in Seq(Calls) /\ Len(script') = 2 * Len(off)
      /\ \A i \in 1 .. Len(off) : script'[2 * i] = Do("remove", off[i])
      /\ \A i \in 1 .. 2 * Len(off) : script'[i].do \in {"tryStart", "remove"}
  <2>1. off \in Seq(Nodes) /\ "tryStart" \in CallNames /\ "remove" \in CallNames
    BY DEF CallNames
  <2>2. script' = EachTwice("tryStart", "remove", off)
    BY DEF BeginTeardown, PowerOnList
  <2> DEFINE loop == EachTwice("tryStart", "remove", off)
  <2>3. /\ loop \in Seq(Calls) /\ Len(loop) = 2 * Len(off)
        /\ \A i \in 1 .. Len(off) : loop[2 * i] = Do("remove", off[i])
        /\ \A i \in 1 .. 2 * Len(off) : loop[i].do \in {"tryStart", "remove"}
    BY <2>1, EachTwiceType, SMTT(30)
  <2> QED
    BY <2>2, <2>3, Zenon
<1>2. \A n \in Range(off) : \E i \in 1 .. Len(off) : off[i] = n
  BY DEF Range
<1>3. \A i \in 1 .. Len(off) : 2 * i \in 1 .. 2 * Len(off)
  OBVIOUS
<1>4. ASSUME NEW n \in Range(off)
      PROVE  \E i \in 1 .. Len(script') : script'[i] = Do("remove", n)
  <2>1. PICK i \in 1 .. Len(off) : off[i] = n
    BY <1>2
  <2>2. 2 * i \in 1 .. Len(script') /\ script'[2 * i] = Do("remove", n)
    BY <1>1, <1>3, <2>1
  <2> QED
    BY <2>2
<1>5. \A i \in 1 .. Len(script') : script'[i].do \in {"tryStart", "remove"}
  BY <1>1
<1> QED
  BY <1>1, <1>4, <1>5 DEF BeginTeardown, CleansUp

(* A step through the script leaves the rest of its calls.                 *)
LEMMA DoneType ==
  ASSUME NEW what, NEW n, TypeOK, NextCall(what, n), Done
  PROVE  /\ script' \in Seq(Calls) /\ phase' = phase
         /\ Len(script) \in Nat /\ Len(script) >= 1 /\ script[1] = Do(what, n)
         /\ Len(script') = Len(script) - 1
         /\ \A i \in 1 .. Len(script') : script'[i] = script[i + 1]
BY DEF TypeOK, NextCall, Done

LEMMA TypeInit == Init => TypeOK
<1>1. (CHOOSE n \in Workers : TRUE) \in Workers
  BY WorkersAssumption
<1> QED
  BY <1>1, WorkersAssumption, BoundAssumption DEF Init, TypeOK

(* What is spent stays within its bound.                                   *)
LEMMA SpendType ==
  ASSUME TypeOK,
         \/ bound.tests < MaxTests /\ Spend("tests")
         \/ bound.keywords < MaxKeywords /\ Spend("keywords")
         \/ bound.crashes < MaxCrashes /\ Spend("crashes")
         \/ Fail
         \/ UNCHANGED bound
  PROVE  bound' \in [tests : 0 .. MaxTests, keywords : 0 .. MaxKeywords,
                    crashes : 0 .. MaxCrashes, failures : 0 .. MaxFailures]
<1>1. MaxTests \in Nat /\ MaxKeywords \in Nat /\ MaxCrashes \in Nat /\ MaxFailures \in Nat
  BY BoundAssumption
<1>2. bound \in [tests : 0 .. MaxTests, keywords : 0 .. MaxKeywords,
                crashes : 0 .. MaxCrashes, failures : 0 .. MaxFailures]
  BY DEF TypeOK
<1>3. CASE bound.tests < MaxTests /\ Spend("tests")
  BY <1>1, <1>2, <1>3 DEF Spend
<1>4. CASE bound.keywords < MaxKeywords /\ Spend("keywords")
  BY <1>1, <1>2, <1>4 DEF Spend
<1>5. CASE bound.crashes < MaxCrashes /\ Spend("crashes")
  BY <1>1, <1>2, <1>5 DEF Spend
<1>6. CASE Fail
  BY <1>1, <1>2, <1>6 DEF Fail, Spend
<1> QED
  BY <1>2, <1>3, <1>4, <1>5, <1>6

(* Every action keeps the types.                                           *)
LEMMA TypeStep == TypeOK /\ [Next]_vars => TypeOK'
<1> SUFFICES ASSUME TypeOK, [Next]_vars PROVE TypeOK'
  OBVIOUS
<1> USE WorkersAssumption DEF MonStays, PastCheck
<1>1. CASE StartTest
  BY <1>1, SpendType DEF StartTest, TypeOK
<1>2. CASE RunKeyword
  <2>1. script' \in Seq(Calls)
    BY <1>2, KeywordsType DEF RunKeyword
  <2> QED
    BY <1>2, <2>1, SpendType DEF RunKeyword, TypeOK
<1>3. CASE EndTest
  BY <1>3, BeginTeardownType DEF EndTest, TypeOK
<1>4. CASE EndTeardown
  BY <1>4 DEF EndTeardown, TypeOK
<1>5. ASSUME NEW n \in Nodes, Call(n) PROVE TypeOK'
  <2>1. CASE AppendToList(n)
    <3>1. script' \in Seq(Calls) /\ phase' = phase
      BY <2>1, DoneType DEF AppendToList
    <3>2. off' \in Seq(Nodes) /\ overlap' \subseteq Workers
      BY <2>1 DEF AppendToList, TypeOK
    <3> QED
      BY <2>1, <3>1, <3>2 DEF AppendToList, TypeOK
  <2>2. CASE RemoveFromList(n)
    <3>1. off' \in Seq(Nodes) /\ script' \in Seq(Calls) /\ phase' = phase
      BY <2>2, DoneType, WithoutType DEF RemoveFromList, TypeOK
    <3>2. /\ UNCHANGED <<vm, volumeNode, mon, bound>>
          /\ overlap' = overlap \ {n} /\ confirmed' = confirmed \ {n}
      BY <2>2 DEF RemoveFromList
    <3> QED
      BY <3>1, <3>2 DEF TypeOK
  <2>3. CASE StopVolumeNode(n)
    <3>1. /\ Do("stop", volumeNode) \in Calls /\ Do("wait", volumeNode) \in Calls
          /\ Tail(script) \in Seq(Calls)
      BY <2>3, DoType DEF StopVolumeNode, NextCall, TypeOK, CallNames
    <3>2. script' \in Seq(Calls)
      BY <2>3, <3>1 DEF StopVolumeNode
    <3> QED
      BY <2>3, <3>2 DEF StopVolumeNode, TypeOK
  <2>4. CASE StopNode(n)
    BY <2>4, DoneType, SpendType DEF StopNode, TypeOK
  <2>5. CASE WaitStopped(n)
    BY <2>5, DoneType DEF WaitStopped, TypeOK
  <2>6. CASE WaitTimesOut(n)
    BY <2>6, BeginTeardownType, SpendType DEF WaitTimesOut, TypeOK
  <2>7. CASE StartPosted(n)
    BY <2>7 DEF StartPosted, PostStart, TypeOK
  <2>8. CASE StartReturns(n)
    BY <2>8, DoneType DEF StartReturns, StartCalled, TypeOK
  <2>9. CASE StartFails(n)
    <3>1. script' \in Seq(Calls) /\ phase' \in {"idle", "test", "teardown"}
      BY <2>9, DoneType, BeginTeardownType DEF StartFails, StartCalled, TypeOK
    <3> QED
      BY <2>9, <3>1, SpendType DEF StartFails, TypeOK
  <2> QED
    BY <1>5, <2>1, <2>2, <2>3, <2>4, <2>5, <2>6, <2>7, <2>8, <2>9 DEF Call
<1>6. CASE Monitor
  <2>1. CASE MonWake \/ MonRoundEnds \/ MonStarted
    BY <2>1 DEF MonWake, MonRoundEnds, MonStarted, TypeOK
  <2>2. CASE MonSsh \/ MonGivesUp
    BY <2>2, SpendType DEF MonSsh, MonGivesUp, TypeOK
  <2>3. CASE MonPosts
    BY <2>3 DEF MonPosts, PostStart, TypeOK
  <2>4. ASSUME NEW n \in Workers, MonCheck(n) PROVE TypeOK'
    BY <2>4 DEF MonCheck, TypeOK
  <2> QED
    BY <1>6, <2>1, <2>2, <2>3, <2>4 DEF Monitor
<1>7. CASE VolumeMoves
  BY <1>7 DEF VolumeMoves, TypeOK
<1>8. ASSUME NEW n \in Nodes, VmMoves(n) \/ VmCrashes(n) PROVE TypeOK'
  BY <1>8, SpendType DEF VmMoves, VmStops, VmBoots, VmCrashes, TypeOK
<1>9. CASE UNCHANGED vars
  BY <1>9 DEF vars, TypeOK
<1> QED
  BY <1>1, <1>2, <1>3, <1>4, <1>5, <1>6, <1>7, <1>8, <1>9 DEF Next, Main

(* Type correctness of the machines, the list, the script and the monitor. *)
THEOREM TypeCorrect == Spec => []TypeOK
BY TypeInit, TypeStep, PTL DEF Spec

-----------------------------------------------------------------------------
LEMMA CleanupInit == Init => CleanupInv
BY DEF Init, CleanupInv

(* One call of the teardown's loop removes what it says it removes and     *)
(* nothing else is put into the list.                                      *)
LEMMA CleansUpStep ==
  ASSUME NEW n \in Nodes, TypeOK, phase = "teardown", CleansUp, Call(n)
  PROVE  \/ UNCHANGED <<off, phase, script>>
         \/ phase' = "teardown" /\ CleansUp'
<1>1. \A what : NextCall(what, n) => what \in {"tryStart", "remove"}
  BY DEF CleansUp, NextCall, TypeOK, Do
<1>2. CASE StartPosted(n)
  BY <1>2 DEF StartPosted
<1>3. CASE NextCall("tryStart", n) /\ Done /\ UNCHANGED off
  <2>1. /\ phase' = phase /\ Len(script') = Len(script) - 1
        /\ Len(script) \in Nat /\ Len(script) >= 1
        /\ script[1] = Do("tryStart", n)
        /\ \A i \in 1 .. Len(script') : script'[i] = script[i + 1]
    BY <1>3, DoneType
  <2>2. \A i \in 1 .. Len(script') : script'[i].do \in {"tryStart", "remove"}
    BY <2>1 DEF CleansUp
  <2>3. ASSUME NEW m \in Range(off)
        PROVE  \E i \in 1 .. Len(script') : script'[i] = Do("remove", m)
    <3>1. PICK i \in 1 .. Len(script) : script[i] = Do("remove", m)
      BY DEF CleansUp
    <3>2. i # 1
      BY <2>1, <3>1 DEF Do
    <3>3. i - 1 \in 1 .. Len(script') /\ script'[i - 1] = script[i]
      BY <2>1, <3>2
    <3> QED
      BY <3>1, <3>3
  <2> QED
    BY <1>3, <2>1, <2>2, <2>3 DEF CleansUp
<1>4. CASE RemoveFromList(n)
  <2>1. /\ phase' = phase /\ Len(script') = Len(script) - 1
        /\ Len(script) \in Nat /\ Len(script) >= 1
        /\ script[1] = Do("remove", n)
        /\ \A i \in 1 .. Len(script') : script'[i] = script[i + 1]
    <3>1. NextCall("remove", n) /\ Done
      BY <1>4 DEF RemoveFromList
    <3> QED
      BY <3>1, DoneType
  <2>2. \A i \in 1 .. Len(script') : script'[i].do \in {"tryStart", "remove"}
    BY <2>1 DEF CleansUp
  <2>3. Range(off') \subseteq Range(off) \ {n}
    BY <1>4, WithoutType DEF RemoveFromList, TypeOK
  <2>4. ASSUME NEW m \in Range(off')
        PROVE  \E i \in 1 .. Len(script') : script'[i] = Do("remove", m)
    <3>1. PICK i \in 1 .. Len(script) : script[i] = Do("remove", m)
      BY <2>3 DEF CleansUp
    <3>2. i # 1
      BY <2>1, <2>3, <3>1 DEF Do
    <3>3. i - 1 \in 1 .. Len(script') /\ script'[i - 1] = script[i]
      BY <2>1, <3>2
    <3> QED
      BY <3>1, <3>3
  <2> QED
    BY <2>1, <2>2, <2>4 DEF CleansUp
<1>5. CASE StartReturns(n) \/ StartFails(n)
  BY <1>1, <1>3, <1>5 DEF StartReturns, StartFails, StartCalled
<1>6. ~ (AppendToList(n) \/ StopVolumeNode(n) \/ StopNode(n) \/ WaitStopped(n) \/ WaitTimesOut(n))
  <2>1. /\ ~ NextCall("append", n) /\ ~ NextCall("stopVolumeNode", n)
        /\ ~ NextCall("stop", n) /\ ~ NextCall("wait", n)
    BY <1>1
  <2> QED
    BY <2>1 DEF AppendToList, StopVolumeNode, StopNode, WaitStopped, WaitTimesOut
<1> QED
  BY <1>2, <1>4, <1>5, <1>6 DEF Call

LEMMA CleanupStep == TypeOK /\ CleanupInv /\ [Next]_vars => CleanupInv'
<1> SUFFICES ASSUME TypeOK, CleanupInv, [Next]_vars PROVE CleanupInv'
  OBVIOUS
<1>1. CASE UNCHANGED <<off, phase, script>>
  BY <1>1 DEF CleanupInv, CleansUp
<1>2. CASE phase' = "teardown" /\ CleansUp'
  BY <1>2 DEF CleanupInv
<1>3. CASE phase' = "test"
  BY <1>3 DEF CleanupInv
<1>4. CASE EndTest
  BY <1>4, BeginTeardownType DEF EndTest, CleanupInv
<1>5. CASE EndTeardown
  <2>1. \A n \in Range(off) : FALSE
    BY <1>5 DEF EndTeardown, CleanupInv, CleansUp
  <2>2. \A i \in 1 .. Len(off) : off[i] \in Range(off)
    BY DEF TypeOK, Range
  <2>3. off = <<>>
    BY <2>1, <2>2 DEF TypeOK
  <2> QED
    BY <1>5, <2>3 DEF EndTeardown, CleanupInv
<1>6. ASSUME NEW n \in Nodes, Call(n) PROVE CleanupInv'
  <2>1. phase # "idle"
    BY <1>6 DEF CleanupInv, Call, NextCall, AppendToList, RemoveFromList, StopVolumeNode,
                StopNode, WaitStopped, WaitTimesOut, StartPosted, StartReturns, StartFails,
                StartCalled
  <2>2. CASE phase = "teardown"
    BY <1>1, <1>2, <1>6, <2>2, CleansUpStep DEF CleanupInv
  <2>3. CASE phase = "test" /\ BeginTeardown /\ UNCHANGED off
    BY <1>2, <2>3, BeginTeardownType
  <2> QED
    BY <1>3, <1>6, <2>1, <2>2, <2>3
       DEF Call, AppendToList, RemoveFromList, StopVolumeNode, StopNode, WaitStopped,
           WaitTimesOut, StartPosted, StartReturns, StartFails, Done, TypeOK
<1> QED
  BY <1>1, <1>3, <1>4, <1>5, <1>6
     DEF Next, Main, StartTest, RunKeyword, Monitor, MonWake, MonRoundEnds, MonSsh, MonPosts,
         MonStarted, MonGivesUp, MonCheck, MonStays, VolumeMoves, VmMoves, VmCrashes, vars

(* Whatever fails, a teardown leaves no node in the list for the next test *)
(* (host.resource and Cleanup test resources).                             *)
THEOREM EveryTestStartsWithEmptyList == Spec => []TestsStartWithEmptyList
<1>1. CleanupInv => TestsStartWithEmptyList
  BY DEF CleanupInv, TestsStartWithEmptyList
<1> QED
  BY <1>1, TypeInit, TypeStep, CleanupInit, CleanupStep, PTL DEF Spec

-----------------------------------------------------------------------------
LEMMA MonitorInit == Init => MonitorInv /\ ListedNodeStaysDown
BY DEF Init, MonitorInv, ListedNodeStaysDown, Range

(* The list changes by Append and Without only; who is appended while the  *)
(* monitor works on it goes into overlap, who is removed is forgotten.     *)
LEMMA MonitorStep ==
  TypeOK /\ MonitorInv /\ ListedNodeStaysDown /\ [Next]_vars
    => MonitorInv' /\ ListedNodeStaysDown'
<1> SUFFICES ASSUME TypeOK, MonitorInv, ListedNodeStaysDown, [Next]_vars
             PROVE  MonitorInv' /\ ListedNodeStaysDown'
  OBVIOUS
<1> USE DEF MonitorInv, ListedNodeStaysDown, PastCheck, Listed
<1>1. ASSUME UNCHANGED <<vm, off, mon, confirmed, overlap>>
      PROVE  MonitorInv' /\ ListedNodeStaysDown'
  BY <1>1
<1>2. ASSUME NEW n \in Nodes, UNCHANGED <<vm, off, mon, overlap>>, confirmed' = confirmed \ {n}
      PROVE  MonitorInv' /\ ListedNodeStaysDown'
  BY <1>2
<1>3. ASSUME NEW n \in Nodes, Call(n) PROVE MonitorInv' /\ ListedNodeStaysDown'
  <2>1. CASE AppendToList(n)
    <3>1. Range(off') = Range(off) \cup {n}
      BY <2>1, AppendRange DEF AppendToList, TypeOK
    <3> QED
      BY <2>1, <3>1 DEF AppendToList
  <2>2. CASE RemoveFromList(n)
    <3>1. Range(off') = Range(off) \ {n}
      BY <2>2, WithoutType DEF RemoveFromList, TypeOK
    <3> QED
      BY <2>2, <3>1 DEF RemoveFromList
  <2>3. CASE StopNode(n)
    BY <2>3 DEF StopNode, TypeOK
  <2>4. CASE WaitStopped(n)
    BY <2>4 DEF WaitStopped
  <2>5. CASE StartPosted(n)
    BY <2>5 DEF StartPosted, PostStart, TypeOK
  <2> QED
    BY <1>1, <1>2, <1>3, <2>1, <2>2, <2>3, <2>4, <2>5
       DEF Call, StopVolumeNode, WaitTimesOut, StartReturns, StartFails
<1>4. CASE Monitor
  <2>1. CASE MonWake \/ MonRoundEnds \/ MonStarted \/ MonGivesUp
    BY <2>1 DEF MonWake, MonRoundEnds, MonStarted, MonGivesUp, MonStays, TypeOK
  <2>2. CASE MonSsh
    BY <2>2 DEF MonSsh, MonStays, TypeOK
  <2>3. CASE MonPosts
    BY <2>3 DEF MonPosts, PostStart, MonStays, TypeOK
  <2>4. ASSUME NEW n \in Workers, MonCheck(n) PROVE MonitorInv' /\ ListedNodeStaysDown'
    BY <2>4 DEF MonCheck, MonStays, TypeOK
  <2> QED
    BY <1>4, <2>1, <2>2, <2>3, <2>4 DEF Monitor
<1>5. CASE StartTest
  BY <1>5 DEF StartTest, TypeOK
<1>6. ASSUME NEW n \in Nodes, VmMoves(n) \/ VmCrashes(n)
      PROVE  MonitorInv' /\ ListedNodeStaysDown'
  BY <1>6 DEF VmMoves, VmStops, VmBoots, VmCrashes, TypeOK
<1> QED
  BY <1>1, <1>3, <1>4, <1>5, <1>6
     DEF Next, Main, RunKeyword, EndTest, EndTeardown, VolumeMoves, vars

(* The monitor never starts a node that a test listed and saw down, unless *)
(* it had looked for it in the list before the test put it there           *)
(* (host_keywords.py _monitor_worker_nodes).                               *)
THEOREM ListedNodeIsLeftAlone == Spec => []ListedNodeStaysDown
BY TypeInit, TypeStep, MonitorInit, MonitorStep, PTL DEF Spec
=============================================================================
