--------------------------- MODULE Keywords_proofs ---------------------------
(***************************************************************************)
(* Proofs about the keywords for snapshots, backups and kubelets, for any  *)
(* sets of nodes, replicas, snapshots and backups and any bounds.          *)
(***************************************************************************)
EXTENDS MC_Keywords, Integers, Sequences, TLAPS

-----------------------------------------------------------------------------
(* Kubelets.                                                               *)

(* The lists of nodes that a keyword gets, and what a step leaves of them. *)
LEMMA NodeListType ==
  ASSUME NEW list \in K!NodeLists
  PROVE  /\ list \in Seq(Nodes) /\ list # <<>>
         /\ Len(list) \in {1, 2} /\ DOMAIN list = 1 .. Len(list)
         /\ Head(list) = list[1]
         /\ Len(list) = 1 => Tail(list) = <<>>
         /\ Len(list) = 2 => Tail(list) = <<list[2]>> /\ <<list[2]>> \in K!NodeLists
<1>1. CASE \E n \in Nodes : list = <<n>>
  BY <1>1 DEF K!NodeLists
<1>2. CASE list \in K!Pairs
  <2>1. PICK n \in Nodes, m \in Nodes : list = <<n, m>>
    BY <1>2 DEF K!Pairs
  <2>2. Tail(list) = <<m>> /\ list[2] = m
    BY <2>1
  <2> QED
    BY <2>1, <2>2 DEF K!NodeLists
<1> QED
  BY <1>1, <1>2 DEF K!NodeLists

(* An outage that its keyword or its thread is still at work on.           *)
Active(u) == u.state \in {"stopping", "sleeping", "starting"}

(* Where an outage can be, with respect to the robot thread: only the last *)
(* one is still stopping its nodes, and the robot waits for the end of one *)
(* that has no thread.                                                     *)
OutageShape(u, newest, pc) ==
    /\ Active(u) => \/ u.todo = u.node_list
                    \/ Len(u.node_list) = 2 /\ u.todo = <<u.node_list[2]>>
    /\ u.state = "stopping" => newest /\ pc = "stop"
    /\ u.state = "sleeping" => u.todo = u.node_list
    /\ Active(u) /\ u.wait /\ u.state # "stopping" => newest /\ pc = "join"

KubeletShape ==
    /\ robot.pc = "stop" => /\ outage # <<>> /\ outage[Len(outage)].state = "stopping"
                            /\ outage[Len(outage)].test = robot.no
    /\ \A o \in 1 .. Len(outage) : OutageShape(outage[o], o = Len(outage), robot.pc)

(* No outage up to this one is of a test that failed while it had a thread *)
(* and none lists a node twice.                                            *)
Orderly(o) == \A i \in 1 .. o : ~K!Unjoined(i) /\ ~K!ListedTwice(i)

(* What the waits of a test bring about, as long as all is orderly: the    *)
(* outage at work is the last one, its test is the one that runs, and what *)
(* the robot has still to wait for tells that it is at work.               *)
OrderlyOutage(o) ==
    LET u == outage[o]
        DownAndSeen(n) == kubelet[n] = "down" /\ seen[n] = "down"
    IN  /\ o = Len(outage) /\ u.test = robot.no
        /\ u.state = "stopping" =>
              \A i \in 1 .. Len(u.node_list) - Len(u.todo) : kubelet[u.node_list[i]] = "down"
        /\ u.state = "sleeping" => \A i \in 1 .. Len(u.node_list) : kubelet[u.node_list[i]] = "down"
        /\ ~u.wait /\ u.state # "stopping" => robot.pc \in {"unknown", "degraded", "healthy0"}
        /\ ~u.wait /\ u.state = "sleeping" /\ robot.pc # "unknown" => seen[u.node_list[1]] = "down"
        /\ ~u.wait /\ u.state = "starting" => \A i \in 1 .. Len(u.todo) : DownAndSeen(u.todo[i])

OrderlyInv == \A o \in 1 .. Len(outage) : Active(outage[o]) /\ Orderly(o) => OrderlyOutage(o)

LEMMA KubeletInit == K!Init => K!TypeOK
BY KubeletBounds DEF K!Bounds, K!Init, K!TypeOK, K!Outages, K!Tests

(* How an outage goes on: it has another list and another state, and the   *)
(* other outages and what it is about are as before.                       *)
Becomes(o, list, state) ==
    /\ outage' \in Seq(K!Outage) /\ Len(outage') = Len(outage)
    /\ \A i \in 1 .. Len(outage) : i # o => outage'[i] = outage[i]
    /\ outage'[o] = [outage[o] EXCEPT !.todo = list, !.state = state]

LEMMA OutageBecomes ==
  ASSUME outage \in Seq(K!Outage), NEW o \in 1 .. Len(outage),
         NEW list \in {<<>>} \cup K!NodeLists,
         NEW state \in {"stopping", "sleeping", "starting", "ended", "failed"},
         outage' = [outage EXCEPT ![o] = [outage[o] EXCEPT !.todo = list, !.state = state]]
  PROVE  Becomes(o, list, state)
<1> DEFINE u == [outage[o] EXCEPT !.todo = list, !.state = state]
<1>1. outage[o] \in K!Outage /\ DOMAIN outage = 1 .. Len(outage) /\ Len(outage) \in Nat
  OBVIOUS
<1>2. u \in K!Outage
  BY <1>1 DEF K!Outage
<1> HIDE DEF u
<1>3. outage' = [outage EXCEPT ![o] = u]
  BY DEF u
<1>4. outage' \in Seq(K!Outage) /\ Len(outage') = Len(outage)
  BY <1>1, <1>2, <1>3
<1>5. outage'[o] = u /\ \A i \in 1 .. Len(outage) : i # o => outage'[i] = outage[i]
  BY <1>1, <1>3
<1> QED
  BY <1>4, <1>5 DEF Becomes, u

(* The steps of an outage, one by one.                                     *)
LEMMA StopKubeletStep ==
  ASSUME K!TypeOK, KubeletShape, K!StopKubelet
  PROVE  LET o == Len(outage)
             u == outage[o]
             n == Head(u.todo)
         IN /\ o \in 1 .. Len(outage) /\ u \in K!Outage /\ u.state = "stopping" /\ u.test = robot.no
            /\ n \in Nodes /\ seen' = seen /\ cutShort' = cutShort
            /\ \/ /\ kubelet' = [kubelet EXCEPT ![n] = "down"]
                  /\ broken' = broken /\ sshFaults' = sshFaults
                  /\ \/ /\ Len(u.node_list) = 2 /\ u.todo = u.node_list
                        /\ Becomes(o, <<u.node_list[2]>>, "stopping")
                        /\ robot' = robot
                     \/ /\ Len(u.todo) = 1
                        /\ Becomes(o, u.node_list, "sleeping")
                        /\ robot' = [robot EXCEPT !.pc = IF u.wait THEN "join" ELSE "unknown"]
               \/ /\ Becomes(o, u.todo, "failed") /\ kubelet' = kubelet
                  /\ robot' = [robot EXCEPT !.pc = "end"]
                  /\ broken' = broken \cup {robot.no} /\ sshFaults' \in 0 .. SshFaults
<1> DEFINE o == Len(outage)
           u == outage[o]
           n == Head(u.todo)
           Stops == /\ kubelet' = [kubelet EXCEPT ![n] = "down"] /\ broken' = broken /\ sshFaults' = sshFaults
                    /\ IF Len(u.todo) > 1
                       THEN outage' = [outage EXCEPT ![o].todo = Tail(@)] /\ robot' = robot
                       ELSE /\ outage' = [outage EXCEPT ![o].todo = u.node_list,
                                                        ![o].state = "sleeping"]
                            /\ robot' = [robot EXCEPT !.pc = IF u.wait THEN "join" ELSE "unknown"]
           Fails == /\ K!Fault /\ K!TestFails /\ kubelet' = kubelet
                    /\ outage' = [outage EXCEPT ![o].state = "failed"]
<1>1. outage \in Seq(K!Outage) /\ o \in 1 .. Len(outage) /\ robot.pc = "stop"
  BY DEF K!TypeOK, KubeletShape, K!StopKubelet, K!At
<1>2. u \in K!Outage
  BY <1>1
<1>3. u.state = "stopping" /\ u.test = robot.no
  BY <1>1 DEF KubeletShape
<1>4. u.node_list \in K!NodeLists /\ u.wait \in BOOLEAN
  BY <1>2 DEF K!Outage
<1>5. \/ u.todo = u.node_list
      \/ Len(u.node_list) = 2 /\ u.todo = <<u.node_list[2]>>
  BY <1>1, <1>3 DEF KubeletShape, OutageShape, Active
<1>6. u.todo \in K!NodeLists /\ n \in Nodes
  <2>1. u.todo \in K!NodeLists
    BY <1>4, <1>5, NodeListType
  <2>2. u.todo \in Seq(Nodes) /\ u.todo # <<>>
    BY <2>1, NodeListType, Zenon
  <2> QED
    BY <2>1, <2>2
<1>6a. Len(u.todo) \in {1, 2} /\ Len(u.node_list) \in {1, 2}
  BY <1>4, <1>6, NodeListType, Zenon
<1>7. seen' = seen /\ cutShort' = cutShort /\ (Stops \/ Fails)
  BY DEF K!StopKubelet, K!Current, K!Goto
<1>8. CASE Stops
  <2>1. CASE Len(u.todo) > 1
    <3>1. Len(u.node_list) = 2 /\ u.todo = u.node_list
      BY <1>5, <1>6a, <2>1
    <3>2. Tail(u.todo) = <<u.node_list[2]>> /\ <<u.node_list[2]>> \in K!NodeLists
      BY <1>4, <3>1, NodeListType
    <3>3. outage' = [outage EXCEPT ![o] = [u EXCEPT !.todo = <<u.node_list[2]>>, !.state = "stopping"]]
      <4>1. outage' = [outage EXCEPT ![o] = [u EXCEPT !.todo = Tail(u.todo)]]
        BY <1>1, <1>8, <2>1
      <4>2. [u EXCEPT !.todo = Tail(u.todo)] = [u EXCEPT !.todo = <<u.node_list[2]>>, !.state = "stopping"]
        BY <1>2, <1>3, <3>2 DEF K!Outage
      <4> QED
        BY <4>1, <4>2, Zenon
    <3>4. Becomes(o, <<u.node_list[2]>>, "stopping")
      BY <1>1, <3>2, <3>3, OutageBecomes
    <3> QED
      BY <1>1, <1>2, <1>3, <1>6, <1>7, <1>8, <2>1, <3>1, <3>4, Zenon
  <2>2. CASE ~(Len(u.todo) > 1)
    <3>1. Len(u.todo) = 1
      BY <1>6a, <2>2
    <3>2. outage' = [outage EXCEPT ![o] = [u EXCEPT !.todo = u.node_list, !.state = "sleeping"]]
      BY <1>1, <1>2, <1>8, <2>2 DEF K!Outage
    <3>3. Becomes(o, u.node_list, "sleeping")
      BY <1>1, <1>4, <3>2, OutageBecomes
    <3> QED
      BY <1>1, <1>2, <1>3, <1>6, <1>7, <1>8, <2>2, <3>1, <3>3, Zenon
  <2> QED
    BY <2>1, <2>2
<1>9. CASE Fails
  <2>1. outage' = [outage EXCEPT ![o] = [u EXCEPT !.todo = u.todo, !.state = "failed"]]
    <3>1. outage' = [outage EXCEPT ![o] = [u EXCEPT !.state = "failed"]]
      BY <1>1, <1>9
    <3>2. [u EXCEPT !.state = "failed"] = [u EXCEPT !.todo = u.todo, !.state = "failed"]
      BY <1>2 DEF K!Outage
    <3> QED
      BY <3>1, <3>2, Zenon
  <2>2. Becomes(o, u.todo, "failed")
    BY <1>1, <1>6, <2>1, OutageBecomes
  <2>3. robot' = [robot EXCEPT !.pc = "end"] /\ broken' = broken \cup {robot.no}
    BY <1>9 DEF K!TestFails, K!Goto
  <2>4. sshFaults' \in 0 .. SshFaults
    BY <1>9, KubeletBounds DEF K!Fault, K!TypeOK, K!Bounds
  <2> QED
    BY <1>1, <1>2, <1>3, <1>6, <1>7, <1>9, <2>2, <2>3, <2>4, Zenon
<1> QED
  BY <1>7, <1>8, <1>9
LEMMA DowntimeStep ==
  ASSUME K!TypeOK, KubeletShape, NEW o \in 1 .. Len(outage), K!Downtime(o)
  PROVE  LET u == outage[o]
         IN /\ u \in K!Outage /\ u.state = "sleeping" /\ u.todo = u.node_list
            /\ ~u.wait => \A i \in 1 .. Len(u.node_list) : seen[u.node_list[i]] = kubelet[u.node_list[i]]
            /\ Becomes(o, u.todo, "starting")
            /\ UNCHANGED <<kubelet, seen, robot, broken, cutShort, sshFaults>>
<1> DEFINE u == outage[o]
<1>1. outage \in Seq(K!Outage)
  BY DEF K!TypeOK
<1>2. u \in K!Outage /\ u.state = "sleeping"
  BY <1>1 DEF K!Downtime
<1>3. u.todo = u.node_list
  BY <1>2 DEF KubeletShape, OutageShape
<1>4. u.node_list \in K!NodeLists
  BY <1>2 DEF K!Outage
<1>5. DOMAIN u.node_list = 1 .. Len(u.node_list)
  BY <1>4, NodeListType, Zenon
<1>6. Becomes(o, u.todo, "starting")
  <2>1. outage' = [outage EXCEPT ![o] = [u EXCEPT !.state = "starting"]]
    BY <1>1 DEF K!Downtime
  <2>2. [u EXCEPT !.state = "starting"] = [u EXCEPT !.todo = u.todo, !.state = "starting"]
    BY <1>2 DEF K!Outage
  <2>3. outage' = [outage EXCEPT ![o] = [u EXCEPT !.todo = u.todo, !.state = "starting"]]
    BY <2>1, <2>2, Zenon
  <2> QED
    BY <1>1, <1>3, <1>4, <2>3, OutageBecomes
<1>7. /\ ~u.wait => \A i \in 1 .. Len(u.node_list) : seen[u.node_list[i]] = kubelet[u.node_list[i]]
      /\ UNCHANGED <<kubelet, seen, robot, broken, cutShort, sshFaults>>
  BY <1>5 DEF K!Downtime
<1> QED
  BY <1>2, <1>3, <1>6, <1>7

(* The next node of the list is started, or the keyword or thread gives up.*)
LEMMA StartKubeletStep ==
  ASSUME K!TypeOK, KubeletShape, NEW o \in 1 .. Len(outage), K!StartKubelet(o)
  PROVE  LET u == outage[o]
             n == Head(u.todo)
         IN /\ u \in K!Outage /\ u.state = "starting" /\ n \in Nodes /\ seen' = seen
            /\ \/ /\ kubelet' = [kubelet EXCEPT ![n] = "up"]
                  /\ broken' = broken /\ sshFaults' = sshFaults
                  /\ cutShort' = cutShort \cup
                        {<<v, o>> : v \in {x \in 1 .. Len(outage) \ {o} : n \in K!Stopped(x)}}
                  /\ \/ /\ Len(u.node_list) = 2 /\ u.todo = u.node_list
                        /\ Becomes(o, <<u.node_list[2]>>, "starting")
                        /\ robot' = robot
                     \/ /\ Len(u.todo) = 1 /\ Becomes(o, <<>>, "ended")
                        /\ robot' = IF u.wait THEN [robot EXCEPT !.pc = "healthy0"] ELSE robot
               \/ /\ Becomes(o, u.todo, "failed") /\ kubelet' = kubelet /\ cutShort' = cutShort
                  /\ sshFaults' \in 0 .. SshFaults
                  /\ robot' = IF u.wait THEN [robot EXCEPT !.pc = "end"] ELSE robot
                  /\ broken' = IF u.wait THEN broken \cup {robot.no} ELSE broken
<1> DEFINE u == outage[o]
           n == Head(u.todo)
           more == Len(u.todo) > 1
           Starts == /\ kubelet' = [kubelet EXCEPT ![n] = "up"] /\ broken' = broken /\ sshFaults' = sshFaults
                     /\ cutShort' = cutShort \cup
                           {<<v, o>> : v \in {x \in 1 .. Len(outage) \ {o} : n \in K!Stopped(x)}}
                     /\ outage' = [outage EXCEPT ![o].state = IF more THEN @ ELSE "ended", ![o].todo = Tail(@)]
                     /\ robot' = IF u.wait /\ ~more THEN [robot EXCEPT !.pc = "healthy0"] ELSE robot
           Fails == /\ K!Fault /\ kubelet' = kubelet /\ cutShort' = cutShort
                    /\ outage' = [outage EXCEPT ![o].state = "failed"]
                    /\ robot' = IF u.wait THEN [robot EXCEPT !.pc = "end"] ELSE robot
                    /\ broken' = IF u.wait THEN broken \cup {robot.no} ELSE broken
<1>1. outage \in Seq(K!Outage) /\ DOMAIN outage = 1 .. Len(outage)
  BY DEF K!TypeOK
<1>2. u \in K!Outage /\ u.state = "starting"
  BY <1>1 DEF K!StartKubelet
<1>3. u.node_list \in K!NodeLists /\ u.wait \in BOOLEAN
  BY <1>2 DEF K!Outage
<1>4. \/ u.todo = u.node_list
      \/ Len(u.node_list) = 2 /\ u.todo = <<u.node_list[2]>>
  BY <1>2 DEF KubeletShape, OutageShape, Active
<1>5. u.todo \in K!NodeLists
  BY <1>3, <1>4, NodeListType
<1>6. /\ Len(u.todo) \in {1, 2} /\ Len(u.node_list) \in {1, 2} /\ u.todo \in Seq(Nodes) /\ u.todo # <<>>
      /\ Len(u.node_list) = 2 => Tail(u.node_list) = <<u.node_list[2]>> /\ <<u.node_list[2]>> \in K!NodeLists
      /\ Len(u.todo) = 1 => Tail(u.todo) = <<>>
  BY <1>3, <1>5, NodeListType, Zenon
<1>7. n \in Nodes
  BY <1>6
<1>8. seen' = seen /\ (Starts \/ Fails)
  BY <1>1 DEF K!StartKubelet, K!Outages, K!Goto, K!TestFails
<1>9. CASE Starts
  <2>1. CASE more
    <3>1. Len(u.node_list) = 2 /\ u.todo = u.node_list
      <4>1. Len(u.todo) = 2 /\ Len(u.node_list) \in {1, 2}
        BY <1>6, <2>1, SMTT(30)
      <4> QED
        BY <1>4, <4>1
    <3>2. outage' = [outage EXCEPT ![o] = [u EXCEPT !.todo = <<u.node_list[2]>>, !.state = "starting"]]
      <4>1. outage' = [outage EXCEPT ![o] = [u EXCEPT !.state = u.state, !.todo = Tail(u.todo)]]
        BY <1>1, <1>2, <1>9, <2>1 DEF K!Outage
      <4>2. [u EXCEPT !.state = u.state, !.todo = Tail(u.todo)]
              = [u EXCEPT !.todo = <<u.node_list[2]>>, !.state = "starting"]
        BY <1>2, <1>6, <3>1 DEF K!Outage
      <4> QED
        BY <4>1, <4>2, Zenon
    <3>3. Becomes(o, <<u.node_list[2]>>, "starting")
      BY <1>1, <1>6, <3>1, <3>2, OutageBecomes
    <3>4. robot' = robot
      BY <1>9, <2>1
    <3> QED
      BY <1>2, <1>7, <1>8, <1>9, <3>1, <3>3, <3>4, Zenon
  <2>2. CASE ~more
    <3>1. Len(u.todo) = 1 /\ Tail(u.todo) = <<>>
      BY <1>6, <2>2
    <3>2. outage' = [outage EXCEPT ![o] = [u EXCEPT !.todo = <<>>, !.state = "ended"]]
      <4>1. outage' = [outage EXCEPT ![o] = [u EXCEPT !.state = "ended", !.todo = Tail(u.todo)]]
        BY <1>1, <1>2, <1>9, <2>2 DEF K!Outage
      <4>2. [u EXCEPT !.state = "ended", !.todo = Tail(u.todo)]
              = [u EXCEPT !.todo = <<>>, !.state = "ended"]
        BY <1>2, <3>1 DEF K!Outage
      <4> QED
        BY <4>1, <4>2, Zenon
    <3>3. Becomes(o, <<>>, "ended")
      BY <1>1, <3>2, OutageBecomes
    <3>4. robot' = IF u.wait THEN [robot EXCEPT !.pc = "healthy0"] ELSE robot
      BY <1>9, <2>2
    <3> QED
      BY <1>2, <1>7, <1>8, <1>9, <3>1, <3>3, <3>4, Zenon
  <2> QED
    BY <2>1, <2>2
<1>10. CASE Fails
  <2>1. outage' = [outage EXCEPT ![o] = [u EXCEPT !.todo = u.todo, !.state = "failed"]]
    <3>1. outage' = [outage EXCEPT ![o] = [u EXCEPT !.state = "failed"]]
      BY <1>1, <1>10
    <3>2. [u EXCEPT !.state = "failed"] = [u EXCEPT !.todo = u.todo, !.state = "failed"]
      BY <1>2 DEF K!Outage
    <3> QED
      BY <3>1, <3>2, Zenon
  <2>2. Becomes(o, u.todo, "failed")
    BY <1>1, <1>5, <2>1, OutageBecomes
  <2>3. sshFaults' \in 0 .. SshFaults
    BY <1>10, KubeletBounds DEF K!Fault, K!TypeOK, K!Bounds
  <2> QED
    BY <1>2, <1>7, <1>8, <1>10, <2>2, <2>3, Zenon
<1> QED
  BY <1>8, <1>9, <1>10

LEMMA BeginOutageStep ==
  ASSUME K!TypeOK, K!BeginOutage
  PROVE  /\ robot.pc = "begin" /\ robot' = [robot EXCEPT !.pc = "stop"]
         /\ UNCHANGED <<kubelet, seen, broken, cutShort, sshFaults>>
         /\ outage' \in Seq(K!Outage)
         /\ Len(outage) \in Nat /\ Len(outage') = Len(outage) + 1 /\ Len(outage') <= MaxOutages
         /\ \A o \in 1 .. Len(outage) : outage'[o] = outage[o]
         /\ LET u == outage'[Len(outage')]
            IN  u \in K!Outage /\ u.todo = u.node_list /\ u.state = "stopping" /\ u.test = robot.no
<1>1. PICK list \in K!NodeLists :
         outage' = Append(outage, [node_list |-> list, todo |-> list, wait |-> robot.wait,
                                   test |-> robot.no, state |-> "stopping"])
  BY DEF K!BeginOutage, K!NodeLists
<1> DEFINE u == [node_list |-> list, todo |-> list, wait |-> robot.wait,
                 test |-> robot.no, state |-> "stopping"]
<1>2. u \in K!Outage /\ outage \in Seq(K!Outage)
  BY DEF K!TypeOK, K!Outage
<1>3. u.todo = u.node_list /\ u.state = "stopping" /\ u.test = robot.no
  OBVIOUS
<1> HIDE DEF u
<1>4. /\ outage' \in Seq(K!Outage) /\ Len(outage) \in Nat /\ Len(outage') = Len(outage) + 1
      /\ \A o \in 1 .. Len(outage) : outage'[o] = outage[o]
      /\ outage'[Len(outage')] = u
  <2>1. outage' = Append(outage, u)
    BY <1>1 DEF u
  <2> QED
    BY <1>2, <2>1
<1>5. Len(outage) < MaxOutages /\ MaxOutages \in Nat
  BY KubeletBounds DEF K!BeginOutage, K!Bounds
<1>6. /\ robot.pc = "begin" /\ robot' = [robot EXCEPT !.pc = "stop"]
      /\ UNCHANGED <<kubelet, seen, broken, cutShort, sshFaults>>
  BY DEF K!BeginOutage, K!At, K!Goto
<1> QED
  BY <1>2, <1>3, <1>4, <1>5, <1>6

(* The waits of a test: the next one, when it saw what it was to see.      *)
LEMMA AwaitStep ==
  ASSUME K!AwaitDown \/ K!AwaitHealthy
  PROVE  /\ UNCHANGED <<kubelet, seen, outage, cutShort, sshFaults>>
         /\ robot.pc \in {"unknown", "degraded", "healthy0", "healthy1"}
         /\ \/ /\ broken' = broken
               /\ \/ /\ robot.pc = "unknown" /\ robot' = [robot EXCEPT !.pc = "degraded"]
                     /\ seen[outage[Len(outage)].node_list[1]] = "down"
                  \/ robot.pc = "degraded" /\ robot' = [robot EXCEPT !.pc = "healthy0"]
                  \/ /\ robot.pc = "healthy0" /\ robot' = [robot EXCEPT !.pc = "healthy1"]
                     /\ \A n \in Nodes : seen[n] = "up"
                  \/ robot.pc = "healthy1" /\ robot' = [robot EXCEPT !.pc = "end"]
            \/ /\ robot' = [robot EXCEPT !.pc = "end"]
               /\ broken' = broken \cup {robot.no}
BY DEF K!AwaitDown, K!AwaitHealthy, K!Wait, K!At, K!Goto, K!TestFails, K!AllSeenUp, K!Current

LEMMA NextRoundStep ==
  ASSUME K!TypeOK, K!NextRound
  PROVE  /\ UNCHANGED <<kubelet, seen, outage, broken, cutShort, sshFaults>>
         /\ robot.pc = "end" /\ robot'.pc = "begin"
         /\ robot' \in [no : 1 .. LastTest, round : 1 .. LOOP_COUNT, wait : BOOLEAN, pc : {"begin"}]
<1>1. robot \in [no : 1 .. LastTest, round : 1 .. LOOP_COUNT, wait : BOOLEAN,
                 pc : {"begin", "stop", "join", "unknown", "degraded", "healthy0", "healthy1", "end"}]
  BY DEF K!TypeOK, K!Tests
<1>2. LastTest \in Nat \ {0} /\ LOOP_COUNT \in Nat \ {0}
  BY KubeletBounds DEF K!Bounds
<1>3. UNCHANGED <<kubelet, seen, outage, broken, cutShort, sshFaults>> /\ robot.pc = "end"
  BY DEF K!NextRound, K!At
<1>4. CASE robot.round < LOOP_COUNT /\ robot' = [robot EXCEPT !.round = @ + 1, !.pc = "begin"]
  <2>1. robot.round + 1 \in 1 .. LOOP_COUNT
    BY <1>1, <1>2, <1>4
  <2>2. robot' = [no |-> robot.no, round |-> robot.round + 1, wait |-> robot.wait, pc |-> "begin"]
    BY <1>1, <1>4
  <2> QED
    BY <1>1, <1>3, <2>1, <2>2
<1>5. CASE /\ robot.no < LastTest
           /\ \E w \in BOOLEAN : robot' = [no |-> robot.no + 1, round |-> 1, wait |-> w, pc |-> "begin"]
  BY <1>1, <1>2, <1>3, <1>5
<1> QED
  BY <1>4, <1>5 DEF K!NextRound

LEMMA KubeletTypeStep ==
  ASSUME K!TypeOK, KubeletShape, [K!Next]_(K!vars)
  PROVE  K!TypeOK'
<1> DEFINE Places == {"begin", "stop", "join", "unknown", "degraded", "healthy0", "healthy1", "end"}
           Robots == [no : 1 .. LastTest, round : 1 .. LOOP_COUNT, wait : BOOLEAN, pc : Places]
           Power == [Nodes -> {"up", "down"}]
           Cuts(l) == (1 .. l) \X (1 .. l)
<1>1. /\ kubelet \in Power /\ seen \in Power /\ outage \in Seq(K!Outage) /\ Len(outage) \in Nat
      /\ Len(outage) <= MaxOutages /\ robot \in Robots /\ broken \subseteq 1 .. LastTest
      /\ cutShort \subseteq Cuts(Len(outage)) /\ sshFaults \in 0 .. SshFaults
  BY DEF K!TypeOK, K!Tests, K!Outages
<1>2. SUFFICES
        /\ kubelet' \in Power /\ seen' \in Power /\ outage' \in Seq(K!Outage)
        /\ Len(outage') <= MaxOutages /\ robot' \in Robots /\ broken' \subseteq 1 .. LastTest
        /\ cutShort' \subseteq Cuts(Len(outage')) /\ sshFaults' \in 0 .. SshFaults
  BY DEF K!TypeOK, K!Tests, K!Outages
<1>3. \A pc \in Places : [robot EXCEPT !.pc = pc] \in Robots
  BY <1>1
<1>4. robot.no \in 1 .. LastTest
  BY <1>1
<1>5. CASE K!BeginOutage
  <2>1. robot' \in Robots
    BY <1>3, <1>5, BeginOutageStep
  <2>2. Cuts(Len(outage)) \subseteq Cuts(Len(outage'))
    BY <1>5, BeginOutageStep
  <2> HIDE DEF Robots, Cuts, Power
  <2> QED
    BY <1>1, <1>5, <2>1, <2>2, BeginOutageStep
<1>6. CASE K!StopKubelet
  <2>1. \A list, state : Becomes(Len(outage), list, state) =>
           outage' \in Seq(K!Outage) /\ Len(outage') = Len(outage)
    BY DEF Becomes
  <2>2. outage' \in Seq(K!Outage) /\ Len(outage') = Len(outage) /\ seen' = seen /\ cutShort' = cutShort
    BY <1>6, <2>1, StopKubeletStep
  <2>3. robot' \in Robots
    <3> HIDE DEF Robots
    <3> QED
      BY <1>1, <1>3, <1>6, StopKubeletStep
  <2>4. kubelet' \in Power
    BY <1>1, <1>6, StopKubeletStep
  <2>5. broken' \subseteq 1 .. LastTest /\ sshFaults' \in 0 .. SshFaults
    BY <1>1, <1>4, <1>6, StopKubeletStep
  <2> QED
    BY <1>1, <2>2, <2>3, <2>4, <2>5
<1>7. CASE \E o \in 1 .. Len(outage) : K!Downtime(o)
  <2>1. PICK o \in 1 .. Len(outage) : K!Downtime(o)
    BY <1>7
  <2>2. outage' \in Seq(K!Outage) /\ Len(outage') = Len(outage)
    BY <2>1, DowntimeStep DEF Becomes
  <2>3. UNCHANGED <<kubelet, seen, robot, broken, cutShort, sshFaults>>
    BY <2>1, DowntimeStep
  <2> QED
    BY <1>1, <2>2, <2>3
<1>8. CASE \E o \in 1 .. Len(outage) : K!StartKubelet(o)
  <2>1. PICK o \in 1 .. Len(outage) : K!StartKubelet(o)
    BY <1>8
  <2>2. \A list, state : Becomes(o, list, state) =>
           outage' \in Seq(K!Outage) /\ Len(outage') = Len(outage)
    BY DEF Becomes
  <2>3. outage' \in Seq(K!Outage) /\ Len(outage') = Len(outage) /\ seen' = seen
    BY <2>1, <2>2, StartKubeletStep
  <2>4. robot' \in Robots
    <3> HIDE DEF Robots
    <3> QED
      BY <1>1, <1>3, <2>1, StartKubeletStep
  <2>5. kubelet' \in Power
    BY <1>1, <2>1, StartKubeletStep
  <2>6. sshFaults' \in 0 .. SshFaults
    BY <1>1, <2>1, StartKubeletStep
  <2>7. broken' = broken \/ broken' = broken \cup {robot.no}
    BY <2>1, StartKubeletStep
  <2>8. \/ cutShort' = cutShort
        \/ cutShort' = cutShort \cup
              {<<v, o>> : v \in {x \in 1 .. Len(outage) \ {o} : Head(outage[o].todo) \in K!Stopped(x)}}
    BY <2>1, StartKubeletStep
  <2>9. cutShort' \subseteq Cuts(Len(outage'))
    BY <1>1, <2>3, <2>8
  <2> QED
    BY <1>1, <1>4, <2>3, <2>4, <2>5, <2>6, <2>7, <2>9
<1>9. CASE K!AwaitDown \/ K!AwaitHealthy
  <2>1. UNCHANGED <<kubelet, seen, outage, cutShort, sshFaults>>
    BY <1>9, AwaitStep
  <2>2. robot' \in Robots
    <3> HIDE DEF Robots
    <3> QED
      BY <1>3, <1>9, AwaitStep
  <2>3. broken' \subseteq 1 .. LastTest
    BY <1>1, <1>4, <1>9, AwaitStep
  <2> QED
    BY <1>1, <2>1, <2>2, <2>3
<1>10. CASE K!NextRound
  <2>1. robot' \in Robots
    BY <1>10, NextRoundStep
  <2> QED
    BY <1>1, <1>10, <2>1, NextRoundStep
<1>11. CASE \E n \in Nodes : K!Notice(n)
  <2>1. UNCHANGED <<kubelet, outage, robot, broken, cutShort, sshFaults>> /\ seen' \in Power
    BY <1>1, <1>11 DEF K!Notice
  <2> QED
    BY <1>1, <2>1
<1>12. CASE UNCHANGED K!vars
  BY <1>1, <1>12 DEF K!vars
<1> QED
  BY <1>1, <1>5, <1>6, <1>7, <1>8, <1>9, <1>10, <1>11, <1>12 DEF K!Next, K!Robot, K!Outages

LEMMA KubeletShapeStep ==
  ASSUME K!TypeOK, KubeletShape, [K!Next]_(K!vars)
  PROVE  KubeletShape'
<1> DEFINE Shape(o) == OutageShape(outage[o], o = Len(outage), robot.pc)
           RobotShape == robot.pc = "stop" =>
                            /\ outage # <<>> /\ outage[Len(outage)].state = "stopping"
                            /\ outage[Len(outage)].test = robot.no
<1>1. /\ RobotShape /\ \A o \in 1 .. Len(outage) : Shape(o)
      /\ outage \in Seq(K!Outage) /\ Len(outage) \in Nat /\ robot = [robot EXCEPT !.pc = robot.pc]
      /\ \A pc : [robot EXCEPT !.pc = pc].pc = pc /\ [robot EXCEPT !.pc = pc].no = robot.no
  BY DEF KubeletShape, K!TypeOK
<1>2. SUFFICES RobotShape' /\ \A o \in 1 .. Len(outage') : Shape(o)'
  BY DEF KubeletShape
<1>3. CASE K!BeginOutage
  <2>1. RobotShape'
    <3>1. Len(outage') \in Nat \ {0} /\ robot'.no = robot.no
      <4>1. /\ Len(outage) \in Nat /\ Len(outage') = Len(outage) + 1
            /\ robot' = [robot EXCEPT !.pc = "stop"]
        BY <1>3, BeginOutageStep
      <4> QED
        BY <1>1, <4>1
    <3>2. outage' # <<>>
      BY <3>1
    <3> QED
      BY <1>3, <3>1, <3>2, BeginOutageStep
  <2>2. ASSUME NEW o \in 1 .. Len(outage)  PROVE Shape(o)'
    <3>1. outage'[o] = outage[o] /\ robot.pc = "begin" /\ Shape(o)
      BY <1>1, <1>3, BeginOutageStep
    <3> QED
      BY <3>1 DEF OutageShape
  <2>3. Shape(Len(outage))'
    <3>1. /\ outage'[Len(outage')].todo = outage'[Len(outage')].node_list
          /\ outage'[Len(outage')].state = "stopping" /\ robot'.pc = "stop"
      BY <1>1, <1>3, BeginOutageStep
    <3> QED
      BY <3>1 DEF OutageShape, Active
  <2>4. Len(outage') = Len(outage) + 1
    BY <1>3, BeginOutageStep
  <2> HIDE DEF RobotShape, Shape
  <2>5. \A o \in 1 .. Len(outage') : o \in 1 .. Len(outage) \/ o = Len(outage')
    BY <1>1, <2>4
  <2>6. ASSUME NEW o \in 1 .. Len(outage')  PROVE Shape(o)'
    <3>1. CASE o \in 1 .. Len(outage)
      BY <2>2, <3>1
    <3>2. CASE o = Len(outage')
      BY <2>3, <3>2 DEF Shape
    <3> QED
      BY <2>5, <3>1, <3>2
  <2> QED
    BY <2>1, <2>6
<1>4. CASE K!StopKubelet
  <2> DEFINE l == Len(outage)
             u == outage[l]
  <2>1. l \in 1 .. Len(outage) /\ u \in K!Outage /\ robot.pc = "stop"
    BY <1>4, StopKubeletStep DEF K!StopKubelet, K!At
  <2>2. CASE Len(u.node_list) = 2 /\ Becomes(l, <<u.node_list[2]>>, "stopping") /\ robot' = robot
    <3>1. \A o \in 1 .. Len(outage) : o # l => Shape(o)'
      BY <1>1, <2>2 DEF Becomes
    <3>2. outage'[l].todo = <<u.node_list[2]>> /\ outage'[l].state = "stopping"
          /\ outage'[l].node_list = u.node_list /\ outage'[l].test = u.test
      BY <2>1, <2>2 DEF Becomes, K!Outage
    <3>3. Shape(l)'
      BY <2>1, <2>2, <3>2 DEF OutageShape, Becomes
    <3>4. RobotShape'
      BY <1>1, <2>1, <2>2, <3>2 DEF Becomes
    <3> QED
      BY <2>2, <3>1, <3>3, <3>4 DEF Becomes
  <2>3. CASE \/ /\ Becomes(l, u.node_list, "sleeping")
                /\ robot' = [robot EXCEPT !.pc = IF u.wait THEN "join" ELSE "unknown"]
             \/ /\ Becomes(l, u.todo, "failed") /\ robot' = [robot EXCEPT !.pc = "end"]
    <3>1. \A o \in 1 .. Len(outage) : o # l => outage'[o] = outage[o]
      BY <2>3 DEF Becomes
    <3>2. ASSUME NEW o \in 1 .. Len(outage), o # l  PROVE Shape(o)'
      <4>1. Shape(o) /\ outage'[o] = outage[o]
        BY <1>1, <3>1, <3>2
      <4>2. ~(Active(outage[o]) /\ outage[o].wait /\ outage[o].state # "stopping")
        BY <2>1, <4>1 DEF OutageShape
      <4>3. outage[o].state # "stopping"
        BY <3>2, <4>1 DEF OutageShape
      <4> QED
        BY <4>1, <4>2, <4>3 DEF OutageShape
    <3>3. \/ robot'.pc = "join" /\ u.wait
          \/ robot'.pc = "unknown" /\ ~u.wait
          \/ robot'.pc = "end"
      <4>1. CASE robot' = [robot EXCEPT !.pc = "end"]
        BY <1>1, <4>1
      <4>2. CASE u.wait /\ robot' = [robot EXCEPT !.pc = "join"]
        BY <1>1, <4>2
      <4>3. CASE ~u.wait /\ robot' = [robot EXCEPT !.pc = "unknown"]
        BY <1>1, <4>3
      <4> QED
        BY <2>3, <4>1, <4>2, <4>3, Zenon
    <3>4. \/ /\ outage'[l].todo = u.node_list /\ outage'[l].state = "sleeping"
             /\ outage'[l].node_list = u.node_list /\ outage'[l].wait = u.wait
             /\ robot'.pc = "join" \/ ~u.wait
          \/ outage'[l].state = "failed"
      BY <1>1, <2>1, <2>3 DEF Becomes, K!Outage
    <3>5. Len(outage') = l
      BY <2>3 DEF Becomes
    <3>6. Shape(l)'
      BY <3>4, <3>5 DEF OutageShape, Active
    <3>7. RobotShape'
      BY <3>3
    <3> HIDE DEF RobotShape, Shape
    <3> QED
      BY <3>2, <3>5, <3>6, <3>7
  <2> QED
    BY <1>4, <2>2, <2>3, StopKubeletStep
<1>5. CASE \E o \in 1 .. Len(outage) : K!Downtime(o)
  <2>1. PICK o \in 1 .. Len(outage) : K!Downtime(o)
    BY <1>5
  <2> DEFINE u == outage[o]
  <2>2. /\ u \in K!Outage /\ u.state = "sleeping" /\ u.todo = u.node_list
        /\ Becomes(o, u.todo, "starting") /\ robot' = robot
    BY <2>1, DowntimeStep
  <2>3. \A i \in 1 .. Len(outage) : i # o => Shape(i)'
    BY <1>1, <2>2 DEF Becomes
  <2>4. /\ outage'[o].todo = u.node_list /\ outage'[o].state = "starting"
        /\ outage'[o].node_list = u.node_list /\ outage'[o].wait = u.wait
    BY <2>2 DEF Becomes, K!Outage
  <2>5. Shape(o)'
    <3>1. Shape(o)
      BY <1>1
    <3>2. Len(outage') = Len(outage)
      BY <2>2 DEF Becomes
    <3> QED
      BY <2>2, <2>4, <3>1, <3>2 DEF OutageShape, Active
  <2>6. RobotShape'
    <3>1. robot.pc = "stop" => o # Len(outage)
      BY <1>1, <2>2
    <3> QED
      BY <1>1, <2>2, <3>1 DEF Becomes
  <2> HIDE DEF RobotShape, Shape
  <2>7. Len(outage') = Len(outage)
    BY <2>2 DEF Becomes
  <2> QED
    BY <2>3, <2>5, <2>6, <2>7
<1>6. CASE \E o \in 1 .. Len(outage) : K!StartKubelet(o)
  <2>1. PICK o \in 1 .. Len(outage) : K!StartKubelet(o)
    BY <1>6
  <2> DEFINE u == outage[o]
  <2>2. /\ u \in K!Outage /\ u.state = "starting"
        /\ \/ /\ Len(u.node_list) = 2 /\ Becomes(o, <<u.node_list[2]>>, "starting")
              /\ robot' = robot
           \/ /\ Becomes(o, <<>>, "ended")
              /\ robot' = IF u.wait THEN [robot EXCEPT !.pc = "healthy0"] ELSE robot
           \/ /\ Becomes(o, u.todo, "failed")
              /\ robot' = IF u.wait THEN [robot EXCEPT !.pc = "end"] ELSE robot
    BY <2>1, StartKubeletStep
  <2>3. /\ Len(outage') = Len(outage)
        /\ \A i \in 1 .. Len(outage) : i # o => outage'[i] = outage[i]
    BY <2>2 DEF Becomes
  <2>4. u.wait => o = Len(outage) /\ robot.pc = "join"
    <3>1. Shape(o)
      BY <1>1
    <3> QED
      BY <2>2, <3>1 DEF OutageShape, Active
  <2>5. ~u.wait => robot' = robot
    BY <2>2
  <2>6. ASSUME NEW i \in 1 .. Len(outage), i # o  PROVE Shape(i)'
    <3>1. Shape(i) /\ outage'[i] = outage[i] /\ Len(outage') = Len(outage)
      BY <1>1, <2>3, <2>6
    <3>2. CASE u.wait
      <4>1. i # Len(outage)
        BY <2>4, <2>6, <3>2
      <4> QED
        BY <3>1, <4>1 DEF OutageShape
    <3>3. CASE ~u.wait
      BY <2>5, <3>1, <3>3 DEF OutageShape
    <3> QED
      BY <3>2, <3>3
  <2>7. Shape(o)'
    <3>1. \/ /\ Len(u.node_list) = 2 /\ outage'[o].todo = <<u.node_list[2]>>
             /\ outage'[o].node_list = u.node_list /\ outage'[o].state = "starting"
             /\ outage'[o].wait = u.wait /\ robot' = robot
          \/ outage'[o].state \in {"ended", "failed"}
      BY <2>2, ZenonT(60) DEF Becomes, K!Outage
    <3> QED
      BY <2>3, <2>4, <3>1 DEF OutageShape, Active
  <2>8. RobotShape'
    <3>1. CASE u.wait
      <4>1. robot'.pc # "stop"
        BY <1>1, <2>2, <2>4, <3>1
      <4> QED
        BY <4>1
    <3>2. CASE ~u.wait
      <4>1. robot.pc = "stop" => o # Len(outage)
        BY <1>1, <2>2
      <4>2. robot.pc = "stop" => Len(outage) \in 1 .. Len(outage)
        BY <1>1
      <4> QED
        BY <1>1, <2>3, <2>5, <3>2, <4>1, <4>2
    <3> QED
      BY <3>1, <3>2
  <2> HIDE DEF RobotShape, Shape
  <2> QED
    BY <2>3, <2>6, <2>7, <2>8
<1>7. CASE K!AwaitDown \/ K!AwaitHealthy
  <2>1. /\ outage' = outage /\ robot.pc \notin {"stop", "join"}
        /\ robot'.pc \in {"degraded", "healthy0", "healthy1", "end"}
    BY <1>1, <1>7, AwaitStep, ZenonT(60)
  <2>2. \A o \in 1 .. Len(outage') : Shape(o)'
    BY <1>1, <2>1 DEF OutageShape
  <2> QED
    BY <2>1, <2>2
<1>8. CASE K!NextRound
  <2>1. outage' = outage /\ robot.pc = "end" /\ robot'.pc = "begin"
    BY <1>8, NextRoundStep
  <2>2. \A o \in 1 .. Len(outage') : Shape(o)'
    BY <1>1, <2>1 DEF OutageShape
  <2> QED
    BY <2>1, <2>2
<1>9. CASE (\E n \in Nodes : K!Notice(n)) \/ UNCHANGED K!vars
  <2>1. UNCHANGED <<outage, robot>>
    BY <1>9 DEF K!Notice, K!vars
  <2> QED
    BY <1>1, <2>1
<1> QED
  BY <1>3, <1>4, <1>5, <1>6, <1>7, <1>8, <1>9 DEF K!Next, K!Robot, K!Outages

(* What an outage is about stays, and no test that failed is forgotten.    *)
LEMMA OutagesKept ==
  ASSUME K!TypeOK, KubeletShape, [K!Next]_(K!vars)
  PROVE  /\ broken \subseteq broken' /\ Len(outage) \in Nat /\ Len(outage') \in Nat
         /\ Len(outage) <= Len(outage')
         /\ \A i \in 1 .. Len(outage) : /\ outage'[i].node_list = outage[i].node_list
                                        /\ outage'[i].test = outage[i].test
                                        /\ outage'[i].wait = outage[i].wait
<1> DEFINE Kept == /\ Len(outage) <= Len(outage')
                   /\ \A i \in 1 .. Len(outage) : /\ outage'[i].node_list = outage[i].node_list
                                                  /\ outage'[i].test = outage[i].test
                                                  /\ outage'[i].wait = outage[i].wait
<1>1. outage \in Seq(K!Outage) /\ Len(outage) \in Nat /\ \A i \in 1 .. Len(outage) : outage[i] \in K!Outage
  BY DEF K!TypeOK
<1>2. Len(outage') \in Nat
  BY KubeletTypeStep DEF K!TypeOK
<1>3. ASSUME NEW o \in 1 .. Len(outage), NEW list, NEW state, Becomes(o, list, state)
      PROVE  Kept
  <2>1. \A i \in 1 .. Len(outage) : i # o => outage'[i] = outage[i]
    BY <1>3 DEF Becomes
  <2>2. outage'[o].node_list = outage[o].node_list /\ outage'[o].test = outage[o].test
        /\ outage'[o].wait = outage[o].wait
    BY <1>1, <1>3 DEF Becomes, K!Outage
  <2>3. Len(outage') = Len(outage)
    BY <1>3 DEF Becomes
  <2> QED
    BY <1>1, <2>1, <2>2, <2>3
<1>4. CASE K!BeginOutage
  <2>1. broken' = broken /\ Kept
    BY <1>4, BeginOutageStep
  <2> QED
    BY <1>1, <1>2, <2>1
<1>5. CASE K!StopKubelet
  <2> HIDE DEF Kept
  <2>1. Len(outage) \in 1 .. Len(outage)
    BY <1>5, StopKubeletStep
  <2>2. Kept /\ broken \subseteq broken'
    BY <1>3, <1>5, <2>1, StopKubeletStep
  <2> QED
    BY <1>1, <1>2, <2>2 DEF Kept
<1>6. CASE \E o \in 1 .. Len(outage) : K!Downtime(o)
  <2> HIDE DEF Kept
  <2>1. Kept /\ broken' = broken
    BY <1>3, <1>6, DowntimeStep
  <2> QED
    BY <1>1, <1>2, <2>1 DEF Kept
<1>7. CASE \E o \in 1 .. Len(outage) : K!StartKubelet(o)
  <2> HIDE DEF Kept
  <2>1. Kept /\ broken \subseteq broken'
    BY <1>3, <1>7, StartKubeletStep
  <2> QED
    BY <1>1, <1>2, <2>1 DEF Kept
<1>8. CASE K!AwaitDown \/ K!AwaitHealthy
  BY <1>1, <1>2, <1>8, AwaitStep
<1>9. CASE K!NextRound
  BY <1>1, <1>2, <1>9, NextRoundStep
<1>10. CASE (\E n \in Nodes : K!Notice(n)) \/ UNCHANGED K!vars
  <2>1. UNCHANGED <<outage, broken>>
    BY <1>10 DEF K!Notice, K!vars
  <2> QED
    BY <1>1, <2>1
<1> QED
  BY <1>4, <1>5, <1>6, <1>7, <1>8, <1>9, <1>10 DEF K!Next, K!Robot, K!Outages

LEMMA DisorderStays ==
  ASSUME K!TypeOK, KubeletShape, [K!Next]_(K!vars),
         NEW i \in 1 .. Len(outage), K!Unjoined(i) \/ K!ListedTwice(i)
  PROVE  (K!Unjoined(i) \/ K!ListedTwice(i))'
BY OutagesKept DEF K!Unjoined, K!ListedTwice

(* Whether an outage will start a node of its list, or could not.          *)
Pending(u, n) == \/ u.state \in {"stopping", "sleeping", "failed"} /\ n \in K!ToSet(u.node_list)
                 \/ u.state = "starting" /\ n \in K!ToSet(u.todo)

LEMMA DownMeansPendingStep ==
  ASSUME K!TypeOK, KubeletShape, [K!Next]_(K!vars), K!DownMeansPending
  PROVE  K!DownMeansPending'
<1> DEFINE P == \A n \in Nodes : kubelet[n] = "down" => \E o \in 1 .. Len(outage) : Pending(outage[o], n)
<1>1. outage \in Seq(K!Outage) /\ Len(outage) \in Nat /\ \A i \in 1 .. Len(outage) : outage[i] \in K!Outage
  BY DEF K!TypeOK
<1>2. P /\ kubelet \in [Nodes -> {"up", "down"}]
  BY DEF K!DownMeansPending, K!Outages, Pending, K!TypeOK
<1>3. SUFFICES P'
  <2>1. DOMAIN outage' = 1 .. Len(outage')
    BY KubeletTypeStep DEF K!TypeOK
  <2> QED
    BY <1>3, <2>1 DEF K!DownMeansPending, K!Outages, Pending
<1>4. ASSUME NEW o \in 1 .. Len(outage), NEW list, NEW state, Becomes(o, list, state), NEW m \in Nodes,
             kubelet[m] = "down", Pending(outage[o], m) => Pending(outage'[o], m)
      PROVE  \E i \in 1 .. Len(outage') : Pending(outage'[i], m)
  <2>1. PICK i \in 1 .. Len(outage) : Pending(outage[i], m)
    BY <1>2, <1>4
  <2>2. Len(outage') = Len(outage) /\ (i # o => outage'[i] = outage[i])
    BY <1>4 DEF Becomes
  <2>3. Pending(outage'[i], m)
    BY <1>4, <2>1, <2>2
  <2> QED
    BY <2>2, <2>3
<1>5. ASSUME NEW o \in 1 .. Len(outage), NEW list, NEW state, Becomes(o, list, state)
      PROVE  /\ Len(outage') = Len(outage) /\ outage'[o].todo = list /\ outage'[o].state = state
             /\ outage'[o].node_list = outage[o].node_list
  BY <1>1, <1>5 DEF Becomes, K!Outage
<1>6. ASSUME NEW o \in 1 .. Len(outage), Active(outage[o])
      PROVE  LET u == outage[o]
             IN  /\ u.todo \in K!NodeLists /\ Head(u.todo) = u.todo[1]
                 /\ K!ToSet(u.todo) \subseteq K!ToSet(u.node_list)
                 /\ Head(u.todo) \in K!ToSet(u.todo)
                 /\ Len(u.todo) = 1 => K!ToSet(u.todo) = {Head(u.todo)}
                 /\ Len(u.node_list) = 2 /\ u.todo = u.node_list =>
                       K!ToSet(u.todo) = {Head(u.todo)} \cup K!ToSet(<<u.node_list[2]>>)
  <2> DEFINE u == outage[o]
  <2>1. u.node_list \in K!NodeLists
    BY <1>1 DEF K!Outage
  <2>2. \/ u.todo = u.node_list
        \/ Len(u.node_list) = 2 /\ u.todo = <<u.node_list[2]>>
    BY <1>6 DEF KubeletShape, OutageShape
  <2>3. u.todo \in K!NodeLists
    BY <2>1, <2>2, NodeListType
  <2>4. Head(u.todo) = u.todo[1] /\ DOMAIN u.todo = 1 .. Len(u.todo) /\ Len(u.todo) \in {1, 2}
        /\ DOMAIN u.node_list = 1 .. Len(u.node_list)
    BY <2>1, <2>3, NodeListType, Zenon
  <2>5. DOMAIN <<u.node_list[2]>> = {1} /\ <<u.node_list[2]>>[1] = u.node_list[2]
    OBVIOUS
  <2>6. K!ToSet(u.todo) \subseteq K!ToSet(u.node_list)
    BY <2>2, <2>4, <2>5 DEF K!ToSet
  <2>7. Head(u.todo) \in K!ToSet(u.todo) /\ (Len(u.todo) = 1 => K!ToSet(u.todo) = {Head(u.todo)})
    BY <2>4 DEF K!ToSet
  <2>8. Len(u.node_list) = 2 /\ u.todo = u.node_list =>
           K!ToSet(u.todo) = {Head(u.todo)} \cup K!ToSet(<<u.node_list[2]>>)
    BY <2>4, <2>5 DEF K!ToSet
  <2> QED
    BY <2>3, <2>4, <2>6, <2>7, <2>8
<1>7. CASE K!BeginOutage
  <2>1. /\ kubelet' = kubelet /\ Len(outage') = Len(outage) + 1
        /\ \A o \in 1 .. Len(outage) : outage'[o] = outage[o]
    BY <1>7, BeginOutageStep
  <2> QED
    BY <1>1, <1>2, <2>1
<1>8. CASE K!StopKubelet
  <2> DEFINE l == Len(outage)
             u == outage[l]
             n == Head(u.todo)
  <2>1. /\ l \in 1 .. Len(outage) /\ u.state = "stopping"
        /\ \/ /\ kubelet' = [kubelet EXCEPT ![n] = "down"]
              /\ Becomes(l, <<u.node_list[2]>>, "stopping") \/ Becomes(l, u.node_list, "sleeping")
           \/ Becomes(l, u.todo, "failed") /\ kubelet' = kubelet
    BY <1>8, StopKubeletStep
  <2>2. PICK list, state : /\ Becomes(l, list, state) /\ state \in {"stopping", "sleeping", "failed"}
                           /\ kubelet' = kubelet \/ kubelet' = [kubelet EXCEPT ![n] = "down"]
    BY <2>1
  <2>3. /\ Len(outage') = Len(outage) /\ outage'[l].state \in {"stopping", "sleeping", "failed"}
        /\ outage'[l].node_list = u.node_list
    BY <1>5, <2>1, <2>2
  <2>4. n \in K!ToSet(u.node_list)
    BY <1>6, <2>1 DEF Active
  <2>5. \A m : Pending(u, m) => Pending(outage'[l], m)
    BY <2>1, <2>3 DEF Pending
  <2>6. Pending(outage'[l], n)
    BY <2>3, <2>4 DEF Pending
  <2>7. ASSUME NEW m \in Nodes, kubelet'[m] = "down"
        PROVE  \E i \in 1 .. Len(outage') : Pending(outage'[i], m)
    <3>1. CASE m = n
      BY <2>1, <2>3, <2>6, <3>1
    <3>2. CASE m # n
      <4>1. kubelet[m] = "down"
        BY <1>2, <2>2, <2>7, <3>2
      <4> QED
        BY <1>4, <2>1, <2>2, <2>5, <4>1
    <3> QED
      BY <3>1, <3>2
  <2> QED
    BY <2>7
<1>9. CASE \E o \in 1 .. Len(outage) : K!Downtime(o)
  <2>1. PICK o \in 1 .. Len(outage) : K!Downtime(o)
    BY <1>9
  <2> DEFINE u == outage[o]
  <2>2. /\ u.state = "sleeping" /\ u.todo = u.node_list
        /\ Becomes(o, u.todo, "starting") /\ kubelet' = kubelet
    BY <2>1, DowntimeStep
  <2>3. outage'[o].todo = u.node_list /\ outage'[o].state = "starting"
    BY <1>5, <2>2
  <2>4. \A m : Pending(u, m) => Pending(outage'[o], m)
    BY <2>2, <2>3 DEF Pending
  <2> QED
    BY <1>4, <2>2, <2>4
<1>10. CASE \E o \in 1 .. Len(outage) : K!StartKubelet(o)
  <2>1. PICK o \in 1 .. Len(outage) : K!StartKubelet(o)
    BY <1>10
  <2> DEFINE u == outage[o]
             n == Head(u.todo)
  <2>2. /\ u.state = "starting"
        /\ \/ /\ kubelet' = [kubelet EXCEPT ![n] = "up"] /\ n \in Nodes
              /\ \/ /\ Len(u.node_list) = 2 /\ u.todo = u.node_list
                    /\ Becomes(o, <<u.node_list[2]>>, "starting")
                 \/ Len(u.todo) = 1 /\ Becomes(o, <<>>, "ended")
           \/ Becomes(o, u.todo, "failed") /\ kubelet' = kubelet
    BY <2>1, StartKubeletStep
  <2>3. Active(u)
    BY <2>2 DEF Active
  <2>4. CASE Becomes(o, u.todo, "failed") /\ kubelet' = kubelet
    <3>1. outage'[o].state = "failed" /\ outage'[o].node_list = u.node_list
      BY <1>5, <2>4
    <3>2. K!ToSet(u.todo) \subseteq K!ToSet(u.node_list)
      BY <1>6, <2>3
    <3>3. \A m : Pending(u, m) => Pending(outage'[o], m)
      BY <2>2, <3>1, <3>2 DEF Pending
    <3> QED
      BY <1>4, <2>4, <3>3
  <2>5. CASE /\ kubelet' = [kubelet EXCEPT ![n] = "up"] /\ n \in Nodes
             /\ Len(u.node_list) = 2 /\ u.todo = u.node_list
             /\ Becomes(o, <<u.node_list[2]>>, "starting")
    <3>1. outage'[o].state = "starting" /\ outage'[o].todo = <<u.node_list[2]>>
      BY <1>5, <2>5
    <3>2. K!ToSet(u.todo) = {n} \cup K!ToSet(<<u.node_list[2]>>)
      BY <1>6, <2>3, <2>5
    <3>3. \A m : m # n /\ Pending(u, m) => Pending(outage'[o], m)
      BY <2>2, <3>1, <3>2 DEF Pending
    <3>4. \A m \in Nodes : kubelet'[m] = "down" => m # n /\ kubelet[m] = "down"
      BY <1>2, <2>5
    <3> QED
      BY <1>4, <2>5, <3>3, <3>4
  <2>6. CASE /\ kubelet' = [kubelet EXCEPT ![n] = "up"] /\ n \in Nodes
             /\ Len(u.todo) = 1 /\ Becomes(o, <<>>, "ended")
    <3>1. K!ToSet(u.todo) = {n}
      BY <1>6, <2>3, <2>6
    <3>2. \A m : m # n => ~Pending(u, m)
      BY <2>2, <3>1 DEF Pending
    <3>3. \A m \in Nodes : kubelet'[m] = "down" => m # n /\ kubelet[m] = "down"
      BY <1>2, <2>6
    <3> QED
      BY <1>4, <2>6, <3>2, <3>3
  <2> QED
    BY <2>2, <2>4, <2>5, <2>6
<1>11. CASE K!AwaitDown \/ K!AwaitHealthy
  BY <1>2, <1>11, AwaitStep
<1>12. CASE K!NextRound
  BY <1>2, <1>12, NextRoundStep
<1>13. CASE (\E n \in Nodes : K!Notice(n)) \/ UNCHANGED K!vars
  <2>1. UNCHANGED <<outage, kubelet>>
    BY <1>13 DEF K!Notice, K!vars
  <2> QED
    BY <1>2, <2>1
<1> QED
  BY <1>7, <1>8, <1>9, <1>10, <1>11, <1>12, <1>13 DEF K!Next, K!Robot, K!Outages

LEMMA OrderlyStep ==
  ASSUME K!TypeOK, KubeletShape, OrderlyInv, [K!Next]_(K!vars)
  PROVE  OrderlyInv'
<1>1. /\ outage \in Seq(K!Outage) /\ Len(outage) \in Nat
      /\ \A i \in 1 .. Len(outage) : outage[i] \in K!Outage /\ outage[i].node_list \in K!NodeLists
      /\ kubelet \in [Nodes -> {"up", "down"}] /\ seen \in [Nodes -> {"up", "down"}]
      /\ \A pc : [robot EXCEPT !.pc = pc].pc = pc /\ [robot EXCEPT !.pc = pc].no = robot.no
  <2>1. /\ outage \in Seq(K!Outage) /\ kubelet \in [Nodes -> {"up", "down"}]
        /\ seen \in [Nodes -> {"up", "down"}]
        /\ \A pc : [robot EXCEPT !.pc = pc].pc = pc /\ [robot EXCEPT !.pc = pc].no = robot.no
    BY DEF K!TypeOK
  <2>2. Len(outage) \in Nat /\ \A i \in 1 .. Len(outage) : outage[i] \in K!Outage
    BY <2>1
  <2>3. \A u \in K!Outage : u.node_list \in K!NodeLists
    BY DEF K!Outage
  <2> QED
    BY <2>1, <2>2, <2>3
<1>2. ASSUME NEW o \in 1 .. Len(outage), Orderly(o)'
      PROVE  Orderly(o)
  <2>1. \A i \in 1 .. o : i \in 1 .. Len(outage)
    BY <1>1
  <2>2. \A i \in 1 .. o : ~(K!Unjoined(i) \/ K!ListedTwice(i))
    BY <1>2, <2>1, DisorderStays DEF Orderly
  <2> QED
    BY <2>2 DEF Orderly
<1>3. ASSUME NEW o \in 1 .. Len(outage), Active(outage[o]), Orderly(o)'
      PROVE  /\ OrderlyOutage(o) /\ o = Len(outage) /\ outage[o].test = robot.no
             /\ OutageShape(outage[o], TRUE, robot.pc)
             /\ ~outage[o].wait => robot.no \notin broken'
  <2>1. OrderlyOutage(o)
    BY <1>2, <1>3 DEF OrderlyInv
  <2>2. o = Len(outage) /\ outage[o].test = robot.no
    BY <2>1 DEF OrderlyOutage
  <2>3. OutageShape(outage[o], TRUE, robot.pc)
    <3>1. OutageShape(outage[o], o = Len(outage), robot.pc)
      BY DEF KubeletShape
    <3> QED
      BY <2>2, <3>1 DEF OutageShape
  <2>4. ~outage[o].wait => robot.no \notin broken'
    <3>1. ~K!Unjoined(o)'
      BY <1>3 DEF Orderly
    <3> QED
      BY <2>2, <3>1, OutagesKept DEF K!Unjoined
  <2> QED
    BY <2>1, <2>2, <2>3, <2>4
<1>4. CASE K!BeginOutage
  <2> PICK l \in Nat : l = Len(outage) + 1
    BY <1>1
  <2>1. /\ robot.pc = "begin" /\ robot' = [robot EXCEPT !.pc = "stop"]
        /\ Len(outage') = l /\ \A o \in 1 .. Len(outage) : outage'[o] = outage[o]
        /\ outage'[l] \in K!Outage /\ outage'[l].todo = outage'[l].node_list
        /\ outage'[l].state = "stopping" /\ outage'[l].test = robot.no
    BY <1>4, BeginOutageStep
  <2>2. ASSUME NEW o \in 1 .. Len(outage), Active(outage'[o]), Orderly(o)'
        PROVE  FALSE
    <3>1. Active(outage[o])
      BY <2>1, <2>2
    <3>2. OrderlyOutage(o) /\ OutageShape(outage[o], TRUE, robot.pc)
      BY <1>3, <2>2, <3>1
    <3> QED
      BY <2>1, <3>1, <3>2 DEF OrderlyOutage, OutageShape, Active
  <2>3. OrderlyOutage(l)'
    <3>1. Len(outage'[l].node_list) \in {1, 2}
      <4>1. outage'[l].node_list \in K!NodeLists
        BY <2>1 DEF K!Outage
      <4> QED
        BY <4>1, NodeListType
    <3>2. 1 .. Len(outage'[l].node_list) - Len(outage'[l].todo) = {}
      BY <2>1, <3>1
    <3>3. robot'.no = robot.no
      BY <1>1, <2>1
    <3> QED
      BY <2>1, <3>2, <3>3 DEF OrderlyOutage
  <2>4. \A o \in 1 .. Len(outage') : o \in 1 .. Len(outage) \/ o = l
    BY <1>1, <2>1
  <2> QED
    BY <2>2, <2>3, <2>4 DEF OrderlyInv
<1>5. CASE K!StopKubelet
  <2> PICK l \in Nat : l = Len(outage)
    BY <1>1
  <2> DEFINE u == outage[l]
             n == Head(u.todo)
  <2>1. /\ l \in 1 .. Len(outage) /\ u \in K!Outage /\ u.state = "stopping" /\ u.test = robot.no
        /\ n \in Nodes
        /\ \/ /\ kubelet' = [kubelet EXCEPT ![n] = "down"]
              /\ Len(u.node_list) = 2 /\ u.todo = u.node_list
              /\ Becomes(l, <<u.node_list[2]>>, "stopping") /\ robot' = robot
           \/ /\ kubelet' = [kubelet EXCEPT ![n] = "down"] /\ Len(u.todo) = 1
              /\ Becomes(l, u.node_list, "sleeping")
              /\ robot' = [robot EXCEPT !.pc = IF u.wait THEN "join" ELSE "unknown"]
           \/ Becomes(l, u.todo, "failed")
    BY <1>5, StopKubeletStep
  <2>2. Active(u)
    BY <2>1 DEF Active
  <2>3. /\ u.node_list \in K!NodeLists
        /\ \/ u.todo = u.node_list
           \/ Len(u.node_list) = 2 /\ u.todo = <<u.node_list[2]>>
    BY <1>1, <2>1, <2>2 DEF KubeletShape, OutageShape
  <2>4. Len(u.node_list) \in {1, 2} /\ Head(u.node_list) = u.node_list[1]
        /\ \A i \in 1 .. Len(u.node_list) : u.node_list[i] \in Nodes
    <3>1. /\ Len(u.node_list) \in {1, 2} /\ Head(u.node_list) = u.node_list[1]
          /\ u.node_list \in Seq(Nodes)
      BY <2>3, NodeListType, Zenon
    <3> QED
      BY <3>1
  <2>5. PICK list, state : Becomes(l, list, state)
    BY <2>1
  <2>6. Len(outage') = Len(outage) /\ \A i \in 1 .. Len(outage) : i # l => outage'[i] = outage[i]
    BY <2>5 DEF Becomes
  <2>7. ASSUME NEW o \in 1 .. Len(outage), o # l, Active(outage'[o]), Orderly(o)'
        PROVE  FALSE
    BY <1>3, <2>6, <2>7
  <2>8. ASSUME Active(outage'[l]), Orderly(l)'
        PROVE  OrderlyOutage(l)'
    <3>1. OrderlyOutage(l)
      BY <1>3, <2>1, <2>2, <2>8
    <3>2. outage'[l].node_list = u.node_list /\ outage'[l].wait = u.wait /\ outage'[l].test = robot.no
      BY <2>1, OutagesKept
    <3>3. CASE /\ kubelet' = [kubelet EXCEPT ![n] = "down"]
               /\ Len(u.node_list) = 2 /\ u.todo = u.node_list
               /\ Becomes(l, <<u.node_list[2]>>, "stopping") /\ robot' = robot
      <4>1. outage'[l].todo = <<u.node_list[2]>> /\ outage'[l].state = "stopping"
        BY <2>1, <3>3 DEF Becomes, K!Outage
      <4>2. 1 .. Len(outage'[l].node_list) - Len(outage'[l].todo) = {1}
        BY <3>2, <3>3, <4>1
      <4>3. kubelet'[u.node_list[1]] = "down"
        BY <1>1, <2>1, <2>4, <3>3
      <4> QED
        BY <2>6, <3>2, <3>3, <4>1, <4>2, <4>3 DEF OrderlyOutage
    <3>4. CASE /\ kubelet' = [kubelet EXCEPT ![n] = "down"] /\ Len(u.todo) = 1
               /\ Becomes(l, u.node_list, "sleeping")
               /\ robot' = [robot EXCEPT !.pc = IF u.wait THEN "join" ELSE "unknown"]
      <4>1. outage'[l].state = "sleeping"
        BY <2>1, <3>4 DEF Becomes, K!Outage
      <4>2. robot'.no = robot.no /\ (~u.wait => robot'.pc = "unknown")
        BY <1>1, <3>4
      <4>3. \A i \in 1 .. Len(u.node_list) : kubelet'[u.node_list[i]] = "down"
        <5>1. CASE Len(u.node_list) = 1
          <6>1. u.todo = u.node_list
            BY <2>3, <5>1
          <6> QED
            BY <1>1, <2>1, <2>4, <3>4, <5>1, <6>1
        <5>2. CASE Len(u.node_list) = 2
          <6>1. u.todo = <<u.node_list[2]>>
            BY <2>3, <3>4, <5>2
          <6>2. n = u.node_list[2]
            BY <6>1
          <6>3. kubelet[u.node_list[1]] = "down"
            <7>1. 1 \in 1 .. Len(u.node_list) - Len(u.todo)
              BY <3>4, <5>2
            <7> QED
              BY <2>1, <3>1, <7>1 DEF OrderlyOutage
          <6> QED
            BY <1>1, <2>1, <2>4, <3>4, <5>2, <6>2, <6>3
        <5> QED
          BY <2>4, <5>1, <5>2
      <4> QED
        BY <2>6, <3>2, <4>1, <4>2, <4>3 DEF OrderlyOutage
    <3>5. CASE Becomes(l, u.todo, "failed")
      <4>1. outage'[l].state = "failed"
        BY <2>1, <3>5 DEF Becomes, K!Outage
      <4> QED
        BY <2>8, <4>1 DEF Active
    <3> QED
      BY <2>1, <3>3, <3>4, <3>5
  <2> QED
    BY <2>6, <2>7, <2>8 DEF OrderlyInv
<1>6. CASE \E o \in 1 .. Len(outage) : K!Downtime(o)
  <2>1. PICK o \in 1 .. Len(outage) : K!Downtime(o)
    BY <1>6
  <2> DEFINE u == outage[o]
  <2>2. /\ u \in K!Outage /\ u.state = "sleeping" /\ u.todo = u.node_list
        /\ ~u.wait => \A i \in 1 .. Len(u.node_list) : seen[u.node_list[i]] = kubelet[u.node_list[i]]
        /\ Becomes(o, u.todo, "starting")
        /\ UNCHANGED <<kubelet, seen, robot, broken>>
    BY <2>1, DowntimeStep
  <2>3. Len(outage') = Len(outage) /\ \A i \in 1 .. Len(outage) : i # o => outage'[i] = outage[i]
    BY <2>2 DEF Becomes
  <2>4. ASSUME NEW i \in 1 .. Len(outage), i # o, Active(outage'[i]), Orderly(i)'
        PROVE  OrderlyOutage(i)'
    <3>1. OrderlyOutage(i)
      BY <1>3, <2>3, <2>4
    <3> QED
      BY <2>2, <2>3, <2>4, <3>1 DEF OrderlyOutage
  <2>5. ASSUME Orderly(o)'
        PROVE  OrderlyOutage(o)'
    <3>1. OrderlyOutage(o)
      BY <1>3, <2>2, <2>5 DEF Active
    <3>2. /\ outage'[o].node_list = u.node_list /\ outage'[o].wait = u.wait /\ outage'[o].test = u.test
          /\ outage'[o].state = "starting" /\ outage'[o].todo = u.node_list
      BY <2>2 DEF Becomes, K!Outage
    <3> QED
      BY <2>2, <2>3, <3>1, <3>2 DEF OrderlyOutage
  <2> QED
    BY <2>3, <2>4, <2>5 DEF OrderlyInv
<1>7. CASE \E o \in 1 .. Len(outage) : K!StartKubelet(o)
  <2>1. PICK o \in 1 .. Len(outage) : K!StartKubelet(o)
    BY <1>7
  <2> DEFINE u == outage[o]
             n == Head(u.todo)
  <2>2. /\ u \in K!Outage /\ u.state = "starting" /\ n \in Nodes /\ seen' = seen
        /\ \/ /\ kubelet' = [kubelet EXCEPT ![n] = "up"]
              /\ Len(u.node_list) = 2 /\ u.todo = u.node_list
              /\ Becomes(o, <<u.node_list[2]>>, "starting") /\ robot' = robot
           \/ Becomes(o, <<>>, "ended")
           \/ Becomes(o, u.todo, "failed")
    BY <2>1, StartKubeletStep
  <2>3. PICK list, state : Becomes(o, list, state)
    BY <2>2
  <2>4. Len(outage') = Len(outage) /\ \A i \in 1 .. Len(outage) : i # o => outage'[i] = outage[i]
    BY <2>3 DEF Becomes
  <2>5. ASSUME NEW i \in 1 .. Len(outage), i # o, Active(outage'[i]), Orderly(i)'
        PROVE  OrderlyOutage(i)'
    (* The other one is the last outage, so that the one whose node is     *)
    (* started came before it, and would be the last one too.              *)
    <3>1. i = Len(outage) /\ o \in 1 .. i
      BY <1>1, <1>3, <2>4, <2>5
    <3>2. Orderly(o)'
      BY <1>1, <2>5, <3>1 DEF Orderly
    <3>3. o = Len(outage)
      BY <1>3, <2>2, <3>2 DEF Active
    <3> QED
      BY <2>5, <3>1, <3>3
  <2>6. ASSUME Active(outage'[o]), Orderly(o)'
        PROVE  OrderlyOutage(o)'
    <3>1. OrderlyOutage(o)
      BY <1>3, <2>2, <2>6 DEF Active
    <3>2. CASE /\ kubelet' = [kubelet EXCEPT ![n] = "up"]
               /\ Len(u.node_list) = 2 /\ u.todo = u.node_list
               /\ Becomes(o, <<u.node_list[2]>>, "starting") /\ robot' = robot
      <4> DEFINE m == u.node_list[2]
      <4>1. /\ outage'[o].node_list = u.node_list /\ outage'[o].wait = u.wait /\ outage'[o].test = u.test
            /\ outage'[o].state = "starting" /\ outage'[o].todo = <<m>>
        BY <2>2, <3>2 DEF Becomes, K!Outage
      <4>2. n = u.node_list[1] /\ DOMAIN u.node_list = 1 .. 2 /\ m \in Nodes
        <5>1. u.node_list \in K!NodeLists
          BY <1>1
        <5>2. /\ Head(u.node_list) = u.node_list[1] /\ u.node_list \in Seq(Nodes)
              /\ DOMAIN u.node_list = 1 .. Len(u.node_list)
          BY <5>1, NodeListType, Zenon
        <5> QED
          BY <3>2, <5>2
      <4>3. m # n
        <5>1. ~K!ListedTwice(o)'
          BY <2>6 DEF Orderly
        <5> QED
          BY <4>1, <4>2, <5>1 DEF K!ListedTwice, K!IsInjective
      <4>4. ~u.wait => kubelet'[m] = "down" /\ seen'[m] = "down"
        BY <1>1, <2>2, <3>1, <3>2, <4>2, <4>3 DEF OrderlyOutage
      <4>5. \A i \in 1 .. Len(<<m>>) : <<m>>[i] = m
        OBVIOUS
      <4> QED
        BY <2>2, <2>4, <3>1, <3>2, <4>1, <4>4, <4>5 DEF OrderlyOutage
    <3>3. CASE Becomes(o, <<>>, "ended") \/ Becomes(o, u.todo, "failed")
      <4>1. outage'[o].state \in {"ended", "failed"}
        BY <2>2, <3>3 DEF Becomes, K!Outage
      <4> QED
        BY <2>6, <4>1 DEF Active
    <3> QED
      BY <2>2, <3>2, <3>3
  <2> QED
    BY <2>4, <2>5, <2>6 DEF OrderlyInv
<1>8. CASE K!AwaitDown \/ K!AwaitHealthy
  <2>1. ASSUME NEW o \in 1 .. Len(outage), Active(outage[o]), Orderly(o)'
        PROVE  OrderlyOutage(o)'
    <3> DEFINE u == outage[o]
    <3>1. /\ OrderlyOutage(o) /\ OutageShape(u, TRUE, robot.pc)
          /\ ~u.wait => robot.no \notin broken'
          /\ o = Len(outage)
      BY <1>3, <2>1
    <3>2. /\ UNCHANGED <<kubelet, seen, outage>>
          /\ robot.pc \in {"unknown", "degraded", "healthy0", "healthy1"}
          /\ \/ /\ broken' = broken
                /\ \/ /\ robot.pc = "unknown" /\ robot' = [robot EXCEPT !.pc = "degraded"]
                      /\ seen[u.node_list[1]] = "down"
                   \/ robot.pc = "degraded" /\ robot' = [robot EXCEPT !.pc = "healthy0"]
                   \/ /\ robot.pc = "healthy0" /\ robot' = [robot EXCEPT !.pc = "healthy1"]
                      /\ \A n \in Nodes : seen[n] = "up"
                   \/ robot.pc = "healthy1"
             \/ broken' = broken \cup {robot.no}
      BY <1>8, <3>1, AwaitStep
    <3>3. u.state # "stopping" /\ ~u.wait
      BY <2>1, <3>1, <3>2 DEF OutageShape
    <3>4. robot.pc # "healthy1" /\ broken' = broken
      BY <3>1, <3>2, <3>3 DEF OrderlyOutage
    <3>5. ~(\A n \in Nodes : seen[n] = "up") \/ robot.pc # "healthy0"
      <4>1. /\ u.node_list \in K!NodeLists
            /\ \/ u.todo = u.node_list
               \/ Len(u.node_list) = 2 /\ u.todo = <<u.node_list[2]>>
        BY <1>1, <2>1, <3>1 DEF OutageShape
      <4>2. u.todo \in K!NodeLists
        BY <4>1, NodeListType
      <4>3. /\ Len(u.node_list) \in {1, 2} /\ u.node_list \in Seq(Nodes)
            /\ Len(u.todo) \in {1, 2} /\ u.todo \in Seq(Nodes)
        BY <4>1, <4>2, NodeListType, Zenon
      <4>4. /\ u.node_list[1] \in Nodes /\ u.todo[1] \in Nodes /\ 1 \in 1 .. Len(u.todo)
        BY <4>3
      <4> QED
        BY <2>1, <3>1, <3>3, <4>4 DEF OrderlyOutage, Active
    <3>6. \/ robot.pc = "unknown" /\ robot' = [robot EXCEPT !.pc = "degraded"] /\ seen[u.node_list[1]] = "down"
          \/ robot.pc = "degraded" /\ robot' = [robot EXCEPT !.pc = "healthy0"]
      <4>1. broken' # broken \cup {robot.no}
        BY <3>1, <3>3
      <4> QED
        BY <3>2, <3>4, <3>5, <4>1
    <3>7. robot'.no = robot.no /\ robot'.pc \in {"degraded", "healthy0"}
          /\ (robot.pc = "unknown" => seen[u.node_list[1]] = "down")
      BY <1>1, <3>6, ZenonT(60)
    <3> QED
      BY <3>1, <3>2, <3>3, <3>7 DEF OrderlyOutage
  <2>2. outage' = outage
    BY <1>8, AwaitStep
  <2> QED
    BY <2>1, <2>2 DEF OrderlyInv
<1>9. CASE K!NextRound
  <2>1. outage' = outage /\ robot.pc = "end"
    BY <1>9, NextRoundStep
  <2>2. ASSUME NEW o \in 1 .. Len(outage), Active(outage[o]), Orderly(o)'
        PROVE  FALSE
    <3>1. OrderlyOutage(o) /\ OutageShape(outage[o], TRUE, robot.pc)
      BY <1>3, <2>2
    <3> QED
      BY <2>1, <2>2, <3>1 DEF OrderlyOutage, OutageShape, Active
  <2> QED
    BY <2>1, <2>2 DEF OrderlyInv
<1>10. CASE \E n \in Nodes : K!Notice(n)
  <2>1. PICK n \in Nodes : K!Notice(n)
    BY <1>10
  <2>2. UNCHANGED <<kubelet, outage, robot, broken>> /\ seen' = [seen EXCEPT ![n] = kubelet[n]]
    BY <2>1 DEF K!Notice
  <2>3. ASSUME NEW o \in 1 .. Len(outage), Active(outage[o]), Orderly(o)'
        PROVE  OrderlyOutage(o)'
    <3> DEFINE u == outage[o]
    <3>1. OrderlyOutage(o)
      BY <1>3, <2>3
    <3>2. ASSUME NEW m, kubelet[m] = "down" /\ seen[m] = "down"
          PROVE  seen'[m] = "down"
      BY <1>1, <2>2, <3>2
    <3>3. u.state = "sleeping" => kubelet[u.node_list[1]] = "down"
      <4>1. 1 \in 1 .. Len(u.node_list)
        <5>1. Len(u.node_list) \in {1, 2}
          BY <1>1, NodeListType, Zenon
        <5>2. \A l \in {1, 2} : 1 \in 1 .. l
          OBVIOUS
        <5> QED
          BY <5>1, <5>2, Zenon
      <4> QED
        BY <3>1, <4>1 DEF OrderlyOutage
    <3> QED
      BY <2>2, <3>1, <3>2, <3>3 DEF OrderlyOutage
  <2> QED
    BY <2>2, <2>3 DEF OrderlyInv
<1>11. CASE UNCHANGED K!vars
  BY <1>11 DEF K!vars, OrderlyInv, Orderly, OrderlyOutage, K!Unjoined, K!ListedTwice
<1> QED
  BY <1>4, <1>5, <1>6, <1>7, <1>8, <1>9, <1>10, <1>11 DEF K!Next, K!Robot, K!Outages

(* The outage that is cut short and the one that cuts it are two at work,  *)
(* and no two are when all is orderly up to the later of them.             *)
LEMMA OutagesAreWholeStep ==
  ASSUME K!TypeOK, KubeletShape, OrderlyInv, [K!Next]_(K!vars), K!OutagesAreWhole
  PROVE  K!OutagesAreWhole'
<1> DEFINE Excused(o) == \E i \in 1 .. o : K!Unjoined(i) \/ K!ListedTwice(i)
<1>1. /\ Len(outage) \in Nat
      /\ \A c \in cutShort : c \in (1 .. Len(outage)) \X (1 .. Len(outage))
  BY DEF K!TypeOK, K!Outages
<1>2. ASSUME NEW o \in 1 .. Len(outage), Excused(o)
      PROVE  Excused(o)'
  <2>1. PICK i \in 1 .. o : K!Unjoined(i) \/ K!ListedTwice(i)
    BY <1>2
  <2>2. i \in 1 .. Len(outage)
    BY <1>1
  <2> QED
    BY <2>1, <2>2, DisorderStays
<1>3. ASSUME NEW o \in 1 .. Len(outage), outage[o].state = "starting",
             NEW v \in 1 .. Len(outage), v # o, NEW n \in K!Stopped(v)
      PROVE  Excused(o)
  <2>1. SUFFICES ASSUME Orderly(o)  PROVE FALSE
    BY DEF Orderly
  <2>2. o = Len(outage)
    BY <1>3, <2>1 DEF OrderlyInv, OrderlyOutage, Active
  <2>3. Orderly(v)
    BY <1>1, <2>1, <2>2 DEF Orderly
  <2>4. Active(outage[v])
    BY DEF K!Stopped, Active
  <2>5. v = Len(outage)
    BY <2>3, <2>4 DEF OrderlyInv, OrderlyOutage
  <2> QED
    BY <1>3, <2>2, <2>5
<1>4. CASE cutShort' = cutShort
  BY <1>1, <1>2, <1>4 DEF K!OutagesAreWhole
<1>5. CASE \E o \in 1 .. Len(outage) : K!StartKubelet(o)
  <2>1. PICK o \in 1 .. Len(outage) : K!StartKubelet(o)
    BY <1>5
  <2> DEFINE n == Head(outage[o].todo)
  <2>2. /\ outage[o].state = "starting"
        /\ \/ cutShort' = cutShort
           \/ cutShort' = cutShort \cup
                 {<<v, o>> : v \in {x \in 1 .. Len(outage) \ {o} : n \in K!Stopped(x)}}
    BY <2>1, StartKubeletStep
  <2>3. ASSUME NEW v \in 1 .. Len(outage), v # o, n \in K!Stopped(v)
        PROVE  Excused(o)'
    BY <1>2, <1>3, <2>2, <2>3
  <2>4. ASSUME NEW c \in cutShort
        PROVE  Excused(c[2])'
    <3>1. c[2] \in 1 .. Len(outage) /\ Excused(c[2])
      BY <1>1 DEF K!OutagesAreWhole
    <3> QED
      BY <1>2, <3>1
  <2> HIDE DEF Excused
  <2>5. \A c \in cutShort' : c \in cutShort \/ (c[2] = o /\ Excused(o)')
    BY <2>2, <2>3
  <2>6. \A c \in cutShort' : \E i \in 1 .. c[2] : (K!Unjoined(i) \/ K!ListedTwice(i))'
    BY <2>4, <2>5 DEF Excused
  <2> QED
    BY <2>6 DEF K!OutagesAreWhole
<1>6. CASE K!BeginOutage
  BY <1>4, <1>6, BeginOutageStep
<1>7. CASE K!StopKubelet
  BY <1>4, <1>7, StopKubeletStep
<1>8. CASE \E o \in 1 .. Len(outage) : K!Downtime(o)
  BY <1>4, <1>8, DowntimeStep
<1>9. CASE K!AwaitDown \/ K!AwaitHealthy
  BY <1>4, <1>9, AwaitStep
<1>10. CASE K!NextRound
  BY <1>4, <1>10, NextRoundStep
<1>11. CASE (\E n \in Nodes : K!Notice(n)) \/ UNCHANGED K!vars
  BY <1>4, <1>11 DEF K!Notice, K!vars
<1> QED
  BY <1>5, <1>6, <1>7, <1>8, <1>9, <1>10, <1>11 DEF K!Next, K!Robot, K!Outages

(* What holds of the kubelets in every state, and is kept by every step.   *)
KubeletInv == /\ K!TypeOK /\ KubeletShape /\ OrderlyInv
              /\ K!OutagesAreWhole /\ K!DownMeansPending

LEMMA KubeletInvInit == K!Init => KubeletInv
<1> SUFFICES ASSUME K!Init  PROVE KubeletInv
  OBVIOUS
<1>1. K!TypeOK
  BY KubeletInit
<1>2. outage = <<>> /\ cutShort = {} /\ robot.pc = "begin"
  BY DEF K!Init
<1>3. Len(outage) = 0 /\ 1 .. Len(outage) = {}
  BY <1>2
<1>4. \A n \in Nodes : kubelet[n] = "up"
  BY DEF K!Init
<1> QED
  BY <1>1, <1>2, <1>3, <1>4 DEF KubeletInv, KubeletShape, OrderlyInv, K!OutagesAreWhole, K!DownMeansPending

LEMMA KubeletInvStep == KubeletInv /\ [K!Next]_(K!vars) => KubeletInv'
BY KubeletTypeStep, KubeletShapeStep, OrderlyStep, OutagesAreWholeStep, DownMeansPendingStep DEF KubeletInv

-----------------------------------------------------------------------------
(* Backups.                                                                *)

Records == [state : {"none", "inProgress", "completed", "error"},
            data : B!Data, fresh : BOOLEAN, id : BOOLEAN, sum : B!Checksum]
Threads == [pc : {"none", "wait", "find", "setId", "readLast", "setSum", "end", "raised"},
            waited : BOOLEAN, sum : B!Checksum]
Mains == [pc : {"idle", "note", "join", "lastBackup", "check", "passed", "failed"},
          b : Backups, verdict : {"none", "same", "missing", "differs"}]

(* Who waits in its own thread is in the join of the backup, so that the   *)
(* volume is not written and its last checksum stays; what was read of it  *)
(* is the checksum of the backup's data.  An id is given only to a backup  *)
(* that was seen completed.                                                *)
BackupThread(b) ==
    LET t == thread[b]
        r == backup[b]
    IN  /\ t.waited /\ t.pc \in {"wait", "find", "setId", "readLast", "setSum"} =>
              main.pc = "join" /\ main.b = b /\ (r.fresh => r.data = disk)
        /\ t.waited /\ r.fresh /\ t.pc = "setSum" /\ bFaults = 0 /\ r.data > 0 => t.sum = r.data
        /\ r.id \/ t.pc \in {"find", "setId"} => r.state = "completed"

BackupInv == /\ B!TypeOK
             /\ \A b \in Backups : BackupThread(b)
             /\ bFaults = 0 /\ main.pc # "note" /\ disk > 0 => last = disk
             /\ B!WaitedBackupIsRight /\ B!FoundBackupIsComplete

LEMMA BackupInvInit == B!Init => BackupInv
<1> SUFFICES ASSUME B!Init  PROVE BackupInv
  OBVIOUS
<1>1. /\ MaxWrites \in Nat /\ BackupFaults \in Nat
      /\ disk = 0 /\ last = Unset /\ snap = Unset /\ lastBackup = Unset /\ bFaults = 0
  BY BackupBounds DEF B!Init, B!Bounds
<1>2. /\ \A b \in Backups : /\ backup[b].state = "none" /\ ~backup[b].id
                            /\ thread[b].pc = "none"
      /\ main \in Mains /\ main.pc = "idle"
  BY DEF B!Init, Mains
<1>3. backup \in [Backups -> Records] /\ thread \in [Backups -> Threads]
  BY <1>1 DEF B!Init, Records, Threads, B!Data, B!Checksum
<1>4. B!TypeOK
  BY <1>1, <1>2, <1>3 DEF B!TypeOK, Records, Threads, Mains, B!Data, B!Checksum
<1> QED
  BY <1>1, <1>2, <1>4 DEF BackupInv, BackupThread, B!WaitedBackupIsRight, B!FoundBackupIsComplete, B!At

LEMMA FaultCounts == B!TypeOK /\ B!Fault => bFaults' \in 0 .. BackupFaults /\ bFaults' > 0
BY BackupBounds DEF B!TypeOK, B!Fault, B!Bounds

(* No fault was counted, or one was.                                       *)
Counted == bFaults' = bFaults \/ (bFaults' \in 0 .. BackupFaults /\ bFaults' > 0)

(* A step of the thread of a backup, as what it makes of the thread and of *)
(* the backup.                                                             *)
LEMMA BackgroundStep ==
  ASSUME B!TypeOK, NEW b \in Backups, B!Step(b)
  PROVE  /\ UNCHANGED <<disk, last, snap, lastBackup, main>>
         /\ Counted
         /\ \E t \in Threads, r \in Records :
               /\ thread' = [thread EXCEPT ![b] = t] /\ backup' = [backup EXCEPT ![b] = r]
               /\ t.waited = thread[b].waited
               /\ r.state = backup[b].state /\ r.data = backup[b].data /\ r.fresh = backup[b].fresh
               /\ r.id = backup[b].id \/ thread[b].pc = "setId"
               /\ \/ thread[b].pc = "wait" /\ t.pc = "find" /\ r.state = "completed"
                  \/ thread[b].pc = "find" /\ t.pc = "setId"
                  \/ thread[b].pc = "setId" /\ t.pc = "readLast"
                  \/ /\ thread[b].pc = "readLast" /\ t.pc = "setSum"
                     /\ t.sum = last \/ bFaults' > 0
                  \/ /\ thread[b].pc = "setSum" /\ t.pc = "end"
                     /\ r.sum = thread[b].sum \/ bFaults' > 0
                  \/ t.pc = "raised"
<1> DEFINE Effect(t, r) ==
             /\ thread' = [thread EXCEPT ![b] = t] /\ backup' = [backup EXCEPT ![b] = r]
             /\ t.waited = thread[b].waited
             /\ r.state = backup[b].state /\ r.data = backup[b].data /\ r.fresh = backup[b].fresh
             /\ r.id = backup[b].id \/ thread[b].pc = "setId"
             /\ \/ thread[b].pc = "wait" /\ t.pc = "find" /\ r.state = "completed"
                \/ thread[b].pc = "find" /\ t.pc = "setId"
                \/ thread[b].pc = "setId" /\ t.pc = "readLast"
                \/ /\ thread[b].pc = "readLast" /\ t.pc = "setSum"
                   /\ t.sum = last \/ bFaults' > 0
                \/ /\ thread[b].pc = "setSum" /\ t.pc = "end"
                   /\ r.sum = thread[b].sum \/ bFaults' > 0
                \/ t.pc = "raised"
<1>1. /\ backup \in [Backups -> Records] /\ thread \in [Backups -> Threads]
      /\ last \in B!Checksum /\ Unset \in B!Checksum
  BY DEF B!TypeOK, Records, Threads, B!Checksum
<1>2. backup[b] \in Records /\ thread[b] \in Threads
  BY <1>1
<1>3. UNCHANGED <<disk, last, snap, lastBackup, main>>
  BY DEF B!Step, B!WaitCompleted, B!GivesUp, B!FindBackup, B!SetBackupId, B!ReadLast, B!SetDataChecksum,
         B!Background
<1>4. \A pc : thread' = [thread EXCEPT ![b].pc = pc] => thread' = [thread EXCEPT ![b] = [thread[b] EXCEPT !.pc = pc]]
  BY <1>1
<1>5. \A pc : B!Go(b, pc) => thread' = [thread EXCEPT ![b] = [thread[b] EXCEPT !.pc = pc]]
  BY <1>4 DEF B!Go
<1>6. backup' = backup => backup' = [backup EXCEPT ![b] = backup[b]]
  BY <1>1
<1>7. \A pc \in {"find", "setId", "readLast", "setSum", "end", "raised"} :
         LET t == [thread[b] EXCEPT !.pc = pc]
         IN  t \in Threads /\ t.waited = thread[b].waited /\ t.pc = pc /\ t.sum = thread[b].sum
  BY <1>2 DEF Threads
<1>8. ASSUME NEW pc \in {"find", "setId", "readLast", "setSum", "end", "raised"}, B!Go(b, pc), backup' = backup,
             \/ thread[b].pc = "wait" /\ pc = "find" /\ backup[b].state = "completed"
             \/ thread[b].pc = "find" /\ pc = "setId"
             \/ thread[b].pc = "setId" /\ pc = "readLast"
             \/ thread[b].pc = "setSum" /\ pc = "end" /\ bFaults' > 0
             \/ pc = "raised"
      PROVE  \E t \in Threads, r \in Records : Effect(t, r)
  <2>1. Effect([thread[b] EXCEPT !.pc = pc], backup[b])
    BY <1>2, <1>5, <1>6, <1>7, <1>8
  <2> QED
    BY <1>2, <1>7, <2>1, Zenon
<1>9. CASE B!WaitCompleted(b)
  BY <1>3, <1>8, <1>9 DEF B!WaitCompleted, B!At, B!Completed, Counted
<1>10. CASE B!GivesUp(b)
  BY <1>3, <1>8, <1>10 DEF B!GivesUp, Counted
<1>11. CASE B!FindBackup(b)
  BY <1>3, <1>8, <1>11 DEF B!FindBackup, B!At, Counted
<1>12. CASE B!SetBackupId(b)
  <2> DEFINE r == [backup[b] EXCEPT !.id = TRUE]
             t == [thread[b] EXCEPT !.pc = "readLast"]
  <2>1. r \in Records /\ r.state = backup[b].state /\ r.data = backup[b].data /\ r.fresh = backup[b].fresh
    BY <1>2 DEF Records
  <2>2. CASE backup' = [backup EXCEPT ![b].id = TRUE] /\ B!Go(b, "readLast") /\ bFaults' = bFaults
    <3>1. backup' = [backup EXCEPT ![b] = r]
      BY <1>1, <2>2
    <3>2. Effect(t, r)
      BY <1>5, <1>7, <1>12, <2>1, <2>2, <3>1 DEF B!SetBackupId, B!At
    <3> QED
      BY <1>3, <1>7, <2>1, <2>2, <3>2, Zenon DEF Counted
  <2>3. CASE B!Fault /\ backup' = backup /\ (B!Go(b, "readLast") \/ B!Go(b, "raised"))
    BY <1>3, <1>8, <1>12, <2>3, FaultCounts DEF B!SetBackupId, B!At, Counted
  <2> QED
    BY <1>12, <2>2, <2>3 DEF B!SetBackupId
<1>13. CASE B!ReadLast(b)
  <2>1. PICK sum \in {last, Unset} :
           /\ IF sum = last THEN UNCHANGED bFaults ELSE B!Fault
           /\ thread' = [thread EXCEPT ![b].pc = "setSum", ![b].sum = sum]
    BY <1>13 DEF B!ReadLast
  <2> DEFINE t == [thread[b] EXCEPT !.pc = "setSum", !.sum = sum]
  <2>2. t \in Threads /\ t.waited = thread[b].waited /\ t.pc = "setSum" /\ t.sum = sum
    BY <1>1, <1>2 DEF Threads
  <2>3. thread' = [thread EXCEPT ![b] = t]
    BY <1>1, <1>2, <2>1 DEF Threads
  <2>4. (sum = last /\ bFaults' = bFaults) \/ (sum # last /\ B!Fault)
    BY <2>1
  <2>5. Counted
    BY <2>4, FaultCounts DEF Counted
  <2>6. sum = last \/ bFaults' > 0
    BY <2>4, FaultCounts
  <2>7. Effect(t, backup[b])
    BY <1>2, <1>6, <1>13, <2>2, <2>3, <2>6 DEF B!ReadLast, B!At
  <2> QED
    BY <1>2, <1>3, <2>2, <2>5, <2>7, Zenon
<1>14. CASE B!SetDataChecksum(b)
  <2> DEFINE r == [backup[b] EXCEPT !.sum = thread[b].sum]
             t == [thread[b] EXCEPT !.pc = "end"]
  <2>1. /\ r \in Records /\ r.state = backup[b].state /\ r.data = backup[b].data /\ r.fresh = backup[b].fresh
        /\ r.id = backup[b].id /\ r.sum = thread[b].sum
    BY <1>2 DEF Records, Threads
  <2>2. CASE backup' = [backup EXCEPT ![b].sum = thread[b].sum] /\ B!Go(b, "end") /\ bFaults' = bFaults
    <3>1. backup' = [backup EXCEPT ![b] = r]
      BY <1>1, <2>2
    <3>2. Effect(t, r)
      BY <1>5, <1>7, <1>14, <2>1, <2>2, <3>1 DEF B!SetDataChecksum, B!At
    <3> QED
      BY <1>3, <1>7, <2>1, <2>2, <3>2, Zenon DEF Counted
  <2>3. CASE B!Fault /\ backup' = backup /\ (B!Go(b, "end") \/ B!Go(b, "raised"))
    BY <1>3, <1>8, <1>14, <2>3, FaultCounts DEF B!SetDataChecksum, B!At, Counted
  <2> QED
    BY <1>14, <2>2, <2>3 DEF B!SetDataChecksum
<1> QED
  BY <1>9, <1>10, <1>11, <1>12, <1>13, <1>14 DEF B!Step

LEMMA BackupInvStep == BackupInv /\ [B!Next]_(B!vars) => BackupInv'
<1> SUFFICES ASSUME BackupInv, [B!Next]_(B!vars)  PROVE BackupInv'
  OBVIOUS
<1> DEFINE Noted == bFaults = 0 /\ main.pc # "note" /\ disk > 0 => last = disk
           Right(b) == /\ thread[b].waited /\ backup[b].fresh /\ thread[b].pc = "end"
                       /\ backup[b].data > 0 /\ bFaults = 0
                       => backup[b].sum = backup[b].data
           Complete == main.pc = "check" => backup[main.b].state = "completed"
           Types == /\ disk \in B!Data /\ last \in B!Checksum /\ snap \in B!Checksum
                    /\ backup \in [Backups -> Records] /\ thread \in [Backups -> Threads]
                    /\ lastBackup \in Backups \cup {Unset} /\ main \in Mains
                    /\ bFaults \in 0 .. BackupFaults
<1>1. /\ Types /\ B!TypeOK
      /\ \A b \in Backups : BackupThread(b) /\ Right(b)
      /\ Noted /\ Complete
  BY DEF BackupInv, B!TypeOK, B!WaitedBackupIsRight, B!FoundBackupIsComplete, B!At, B!Completed,
         Records, Threads, Mains
<1>2. SUFFICES /\ Types' /\ \A b \in Backups : BackupThread(b)' /\ Right(b)'
               /\ Noted' /\ Complete'
  BY DEF BackupInv, B!TypeOK, B!WaitedBackupIsRight, B!FoundBackupIsComplete, B!At, B!Completed,
         Records, Threads, Mains
<1>3. MaxWrites \in Nat /\ BackupFaults \in Nat /\ B!Data = 0 .. MaxWrites
      /\ B!Checksum = B!Data \cup {Unset}
  BY BackupBounds DEF B!Bounds, B!Data, B!Checksum
<1>4. /\ main.b \in Backups /\ main \in Mains
      /\ \A pc \in {"idle", "note", "join", "lastBackup", "check", "passed", "failed"} :
            /\ [main EXCEPT !.pc = pc] \in Mains
            /\ [main EXCEPT !.pc = pc].pc = pc /\ [main EXCEPT !.pc = pc].b = main.b
  BY <1>1 DEF Mains
<1>5. CASE B!Write
  <2>1. /\ UNCHANGED <<last, snap, backup, thread, lastBackup, bFaults>>
        /\ main.pc = "idle" /\ main' = [main EXCEPT !.pc = "note"] /\ disk' \in B!Data
    BY <1>1, <1>3, <1>5 DEF B!Write, B!Idle, B!Goto
  <2>2. main' \in Mains /\ main'.pc = "note"
    BY <1>4, <2>1
  <2>3. ASSUME NEW b \in Backups  PROVE BackupThread(b)' /\ Right(b)'
    <3>1. BackupThread(b) /\ Right(b)
      BY <1>1
    <3> QED
      BY <2>1, <3>1 DEF BackupThread
  <2> QED
    BY <1>1, <2>1, <2>2, <2>3
<1>6. CASE B!NoteLast
  <2>1. /\ UNCHANGED <<disk, snap, backup, thread, lastBackup>> /\ main.pc = "note"
        /\ \/ last' = disk /\ bFaults' = bFaults
           \/ last' = last /\ B!Fault
        /\ main' = [main EXCEPT !.pc = "idle"] \/ main' = [main EXCEPT !.pc = "failed"]
    BY <1>6 DEF B!NoteLast, B!Goto
  <2>2. main' \in Mains /\ main'.pc \in {"idle", "failed"}
    BY <1>4, <2>1
  <2>3. (bFaults' = bFaults /\ last' = disk) \/ (bFaults' \in 0 .. BackupFaults /\ bFaults' > 0 /\ last' = last)
    BY <1>1, <2>1, FaultCounts
  <2>4. ASSUME NEW b \in Backups  PROVE BackupThread(b)' /\ Right(b)'
    <3>1. BackupThread(b) /\ Right(b)
      BY <1>1
    <3> QED
      BY <2>1, <2>3, <3>1 DEF BackupThread
  <2>5. Types'
    BY <1>1, <1>3, <2>1, <2>2, <2>3
  <2>6. Noted' /\ Complete'
    BY <2>1, <2>2, <2>3
  <2> QED
    BY <2>4, <2>5, <2>6
<1>7. CASE B!TakeSnapshot
  <2>1. UNCHANGED <<disk, last, backup, thread, lastBackup, main, bFaults>> /\ snap' = disk
    BY <1>7 DEF B!TakeSnapshot
  <2>2. ASSUME NEW b \in Backups  PROVE BackupThread(b)' /\ Right(b)'
    <3>1. BackupThread(b) /\ Right(b)
      BY <1>1
    <3> QED
      BY <2>1, <3>1 DEF BackupThread
  <2> QED
    BY <1>1, <1>3, <2>1, <2>2
<1>8. ASSUME UNCHANGED <<disk, last, snap, backup, thread, lastBackup, bFaults>>,
             main' \in Mains, main'.pc # "join", main'.pc # "note", main.pc # "note",
             main.pc = "join" => thread[main.b].pc \in {"end", "raised"},
             Complete'
      PROVE  /\ Types' /\ \A b \in Backups : BackupThread(b)' /\ Right(b)'
             /\ Noted' /\ Complete'
  (* The test thread goes on and is in no join.                            *)
  <2>1. ASSUME NEW b \in Backups  PROVE BackupThread(b)' /\ Right(b)'
    <3>1. BackupThread(b) /\ Right(b)
      BY <1>1
    <3> QED
      BY <1>8, <3>1 DEF BackupThread
  <2> QED
    BY <1>1, <1>8, <2>1
<1>9. CASE B!Join
  <2>1. /\ UNCHANGED <<disk, last, snap, backup, thread, lastBackup, bFaults>> /\ main.pc = "join"
        /\ thread[main.b].pc \in {"end", "raised"}
        /\ main' = [main EXCEPT !.pc = "lastBackup"] \/ main' = [main EXCEPT !.pc = "failed"]
    BY <1>9 DEF B!Join, B!Goto
  <2>2. main' \in Mains /\ main'.pc \in {"lastBackup", "failed"}
    BY <1>4, <2>1
  <2> QED
    BY <1>8, <2>1, <2>2
<1>10. CASE B!AwaitLastBackup \/ B!EndTest \/ \E b \in Backups : B!NotFound(b)
  <2>1. /\ UNCHANGED <<disk, last, snap, backup, thread, lastBackup, bFaults>>
        /\ main.pc \in {"idle", "lastBackup"}
        /\ \E pc \in {"idle", "passed", "failed"} : main' = [main EXCEPT !.pc = pc]
    BY <1>10 DEF B!AwaitLastBackup, B!EndTest, B!NotFound, B!Idle, B!Goto
  <2>2. main' \in Mains /\ main'.pc \in {"idle", "passed", "failed"}
    BY <1>4, <2>1
  <2> QED
    BY <1>8, <2>1, <2>2
<1>11. CASE \E b \in Backups : B!Found(b)
  <2>1. PICK b \in Backups : B!Found(b)
    BY <1>11
  <2>2. /\ UNCHANGED <<disk, last, snap, backup, thread, lastBackup, bFaults>> /\ main.pc = "idle"
        /\ backup[b].id /\ main' = [main EXCEPT !.pc = "check", !.b = b]
    BY <2>1 DEF B!Found, B!Idle
  <2>3. main' \in Mains /\ main'.pc = "check" /\ main'.b = b
    BY <1>4, <2>2 DEF Mains
  <2>4. backup[b].state = "completed"
    BY <1>1, <2>2 DEF BackupThread
  <2> QED
    BY <1>8, <2>2, <2>3, <2>4
<1>12. CASE B!CheckRestored
  <2>1. /\ UNCHANGED <<disk, last, snap, backup, thread, lastBackup, bFaults>> /\ main.pc = "check"
        /\ \E verdict \in {"same", "missing", "differs"}, pc \in {"idle", "failed"} :
              main' = [main EXCEPT !.pc = pc, !.verdict = verdict]
    <3> DEFINE sum == backup[main.b].sum
               v == CASE sum = backup[main.b].data -> "same"
                      [] sum = Unset -> "missing"
                      [] OTHER -> "differs"
               next == IF v = "same" THEN "idle" ELSE "failed"
    <3>1. v \in {"same", "missing", "differs"} /\ next \in {"idle", "failed"}
      OBVIOUS
    <3>2. /\ UNCHANGED <<disk, last, snap, backup, thread, lastBackup, bFaults>> /\ main.pc = "check"
          /\ main' = [main EXCEPT !.pc = next, !.verdict = v]
      BY <1>12 DEF B!CheckRestored
    <3> HIDE DEF v, next
    <3> QED
      BY <3>1, <3>2
  <2>2. main' \in Mains /\ main'.pc \in {"idle", "failed"}
    BY <1>4, <2>1 DEF Mains
  <2> QED
    BY <1>8, <2>1, <2>2
<1>13. CASE \E b \in Backups : B!Create(b)
  <2>1. PICK b \in Backups, wait \in BOOLEAN :
           /\ \/ B!Request(b, disk, TRUE, wait)
              \/ snap # Unset /\ B!Request(b, snap, FALSE, wait)
           /\ main' = IF wait THEN [main EXCEPT !.pc = "join", !.b = b] ELSE main
    BY <1>13 DEF B!Create
  <2>2. PICK data \in B!Data, fresh \in BOOLEAN : B!Request(b, data, fresh, wait) /\ (fresh => data = disk)
    BY <1>1, <1>3, <2>1
  <2> DEFINE r == [backup[b] EXCEPT !.state = "inProgress", !.data = data, !.fresh = fresh]
             t == [thread[b] EXCEPT !.pc = "wait", !.waited = wait]
  <2>3. /\ backup[b] \in Records /\ thread[b] \in Threads /\ backup[b].state = "none" /\ main.pc = "idle"
        /\ UNCHANGED <<disk, last, snap, lastBackup, bFaults>>
    BY <1>1, <2>2 DEF B!Request, B!Idle
  <2>4. backup' = [backup EXCEPT ![b] = r] /\ thread' = [thread EXCEPT ![b] = t]
    BY <1>1, <2>2, <2>3 DEF B!Request, Records, Threads
  <2>5. /\ r \in Records /\ t \in Threads
        /\ r.state = "inProgress" /\ r.data = data /\ r.fresh = fresh /\ r.id = backup[b].id
        /\ t.pc = "wait" /\ t.waited = wait
    BY <2>3 DEF Records, Threads
  <2> HIDE DEF r, t
  <2>6. /\ main' \in Mains
        /\ IF wait THEN main'.pc = "join" /\ main'.b = b ELSE main' = main
    BY <1>4, <2>1 DEF Mains
  <2>7. backup' \in [Backups -> Records] /\ thread' \in [Backups -> Threads]
    BY <1>1, <2>4, <2>5
  <2>8. ASSUME NEW x \in Backups  PROVE BackupThread(x)' /\ Right(x)'
    <3>1. BackupThread(x) /\ Right(x)
      BY <1>1
    <3>2. CASE x = b
      <4>1. backup'[x] = r /\ thread'[x] = t
        BY <1>1, <2>4, <3>2
      <4>2. ~backup[b].id
        BY <2>3, <3>1, <3>2 DEF BackupThread
      <4> QED
        BY <2>2, <2>3, <2>5, <2>6, <3>2, <4>1, <4>2 DEF BackupThread
    <3>3. CASE x # b
      <4>1. backup'[x] = backup[x] /\ thread'[x] = thread[x]
        BY <1>1, <2>4, <3>3
      <4> QED
        BY <2>3, <3>1, <4>1 DEF BackupThread
    <3> QED
      BY <3>2, <3>3
  <2>9. Noted' /\ Complete'
    BY <1>1, <2>3, <2>6
  <2> QED
    BY <1>1, <2>3, <2>6, <2>7, <2>8, <2>9
<1>14. CASE \E b \in Backups : B!Step(b)
  <2>1. PICK b \in Backups : B!Step(b)
    BY <1>14
  <2>2. UNCHANGED <<disk, last, snap, lastBackup, main>> /\ Counted
    BY <1>1, <2>1, BackgroundStep
  <2>3. PICK t \in Threads, r \in Records :
               /\ thread' = [thread EXCEPT ![b] = t] /\ backup' = [backup EXCEPT ![b] = r]
               /\ t.waited = thread[b].waited
               /\ r.state = backup[b].state /\ r.data = backup[b].data /\ r.fresh = backup[b].fresh
               /\ r.id = backup[b].id \/ thread[b].pc = "setId"
               /\ \/ thread[b].pc = "wait" /\ t.pc = "find" /\ r.state = "completed"
                  \/ thread[b].pc = "find" /\ t.pc = "setId"
                  \/ thread[b].pc = "setId" /\ t.pc = "readLast"
                  \/ /\ thread[b].pc = "readLast" /\ t.pc = "setSum"
                     /\ t.sum = last \/ bFaults' > 0
                  \/ /\ thread[b].pc = "setSum" /\ t.pc = "end"
                     /\ r.sum = thread[b].sum \/ bFaults' > 0
                  \/ t.pc = "raised"
    BY <1>1, <2>1, BackgroundStep
  <2>4. bFaults' \in 0 .. BackupFaults /\ (bFaults' = 0 => bFaults = 0)
    BY <1>1, <2>2 DEF Counted
  <2>5. backup' \in [Backups -> Records] /\ thread' \in [Backups -> Threads]
    BY <1>1, <2>3
  <2>6. ASSUME NEW x \in Backups  PROVE BackupThread(x)' /\ Right(x)'
    <3>1. BackupThread(x) /\ Right(x)
      BY <1>1
    <3>2. CASE x = b
      <4>1. backup'[x] = r /\ thread'[x] = t
        BY <1>1, <2>3, <3>2
      <4>2. BackupThread(x)'
        BY <1>1, <2>2, <2>3, <2>4, <3>1, <3>2, <4>1 DEF BackupThread
      <4>3. Right(x)'
        BY <2>2, <2>3, <2>4, <3>1, <3>2, <4>1 DEF BackupThread
      <4> QED
        BY <4>2, <4>3
    <3>3. CASE x # b
      <4>1. backup'[x] = backup[x] /\ thread'[x] = thread[x]
        BY <1>1, <2>3, <3>3
      <4> QED
        BY <2>2, <2>4, <3>1, <4>1 DEF BackupThread
    <3> QED
      BY <3>2, <3>3
  <2>7. Noted'
    BY <1>1, <2>2, <2>4
  <2>8. Complete'
    <3>1. backup'[main.b].state = backup[main.b].state
      BY <1>1, <1>4, <2>3
    <3> QED
      BY <1>1, <2>2, <3>1
  <2> QED
    BY <1>1, <2>2, <2>4, <2>5, <2>6, <2>7, <2>8
<1>15. CASE \E b \in Backups : B!Finish(b)
  <2>1. PICK b \in Backups : B!Finish(b)
    BY <1>15
  <2>2. PICK state \in {"completed", "error"} :
           /\ backup' = [backup EXCEPT ![b].state = state] /\ lastBackup' \in {lastBackup, b}
           /\ backup[b].state = "inProgress" /\ UNCHANGED <<disk, last, snap, thread, main, bFaults>>
    BY <2>1 DEF B!Finish
  <2> DEFINE r == [backup[b] EXCEPT !.state = state]
  <2>3. backup' = [backup EXCEPT ![b] = r] /\ backup[b] \in Records
    BY <1>1, <2>2
  <2>4. /\ r \in Records /\ r.state = state /\ r.data = backup[b].data /\ r.fresh = backup[b].fresh
        /\ r.id = backup[b].id /\ r.sum = backup[b].sum
    BY <2>3 DEF Records
  <2> HIDE DEF r
  <2>5. backup' \in [Backups -> Records]
    BY <1>1, <2>3, <2>4
  <2>6. ASSUME NEW x \in Backups  PROVE BackupThread(x)' /\ Right(x)'
    <3>1. BackupThread(x) /\ Right(x)
      BY <1>1
    <3>2. CASE x = b
      <4>1. backup'[x] = r
        BY <1>1, <2>3, <3>2
      <4> QED
        BY <2>2, <2>4, <3>1, <3>2, <4>1 DEF BackupThread
    <3>3. CASE x # b
      <4>1. backup'[x] = backup[x]
        BY <1>1, <2>3, <3>3
      <4> QED
        BY <2>2, <3>1, <4>1 DEF BackupThread
    <3> QED
      BY <3>2, <3>3
  <2>7. Complete'
    <3>1. CASE main.b = b
      BY <1>1, <2>2, <3>1
    <3>2. CASE main.b # b
      <4>1. backup'[main.b] = backup[main.b]
        BY <1>1, <1>4, <2>3, <3>2
      <4> QED
        BY <1>1, <2>2, <4>1
    <3> QED
      BY <3>1, <3>2
  <2> QED
    BY <1>1, <2>2, <2>5, <2>6, <2>7
<1>16. CASE UNCHANGED B!vars
  <2>1. ASSUME NEW b \in Backups  PROVE BackupThread(b)' /\ Right(b)'
    <3>1. BackupThread(b) /\ Right(b)
      BY <1>1
    <3> QED
      BY <1>16, <3>1 DEF BackupThread, B!vars
  <2> QED
    BY <1>1, <1>16, <2>1 DEF B!vars
<1> QED
  BY <1>5, <1>6, <1>7, <1>9, <1>10, <1>11, <1>12, <1>13, <1>14, <1>15, <1>16 DEF B!Next, B!Main

-----------------------------------------------------------------------------
(* Snapshots.                                                              *)

Calls == [pc : {"idle", "create", "lookup", "again", "failed"} \cup S!Waits \cup S!ByName,
          call : {"none"} \cup S!Lookups, id : Ids \cup {None},
          round : 0 .. SnapshotRounds,
          listed : BOOLEAN, removed : BOOLEAN]

(* The calls that are about a snapshot, and those that look one up.        *)
GoodCall(t) ==
    /\ t \in Calls
    /\ t.pc \in {"create", "lookup", "again"} \cup S!ByName => t.id \in Ids
    /\ t.pc \in {"lookup", "again"} => t.call \in S!Lookups
    /\ t.pc = "lookup" => t.round < SnapshotRounds

(* Only snapshots that were taken are in a replica, have an id, are marked *)
(* as removed, are purged or were found to be missing.  One that a get did *)
(* not list although it has its id will not turn up.                       *)
SnapshotShape ==
    /\ GoodCall(test)
    /\ \A r \in Replicas : \A i \in held[r] : snapshot[i].state = "taken"
    /\ \A i \in Ids : snapshot[i].named \/ snapshot[i].removed \/ i \in todo \/ i \in hist.absent =>
                         snapshot[i].state = "taken"
    /\ test.pc = "lookup" /\ ~test.listed /\ snapshot[test.id].named => test.id \notin S!Listed

(* The replicas begin their purges together.  A replica that completed its *)
(* purge has none of what was to go.  A status that was reported since the *)
(* purge began tells of each replica, and truly if it is done with it.     *)
PurgeBegan == \A r \in Replicas : purge[r] # "none"

PurgeShape ==
    /\ PurgeBegan \/ \A r \in Replicas : purge[r] = "none"
    /\ \A r \in Replicas : purge[r] = "complete" => held[r] \cap todo = {}
    /\ DOMAIN status # {} \/ test.pc = "purge" => PurgeBegan
    /\ hist.fresh => /\ DOMAIN status = {r \in Replicas : purge[r] # "none"}
                     /\ \A r \in DOMAIN status : status[r] \in {"inProgress", purge[r]}
    /\ hist.told = "polled" => \A r \in Replicas : purge[r] = "complete"
    /\ hist.told = "started" => PurgeBegan /\ (hist.fresh \/ S!IsPurging)
    /\ hist.told = "ended" => \A r \in Replicas : purge[r] \in {"complete", "error"}

SnapshotInv == /\ S!TypeOK /\ SnapshotShape /\ PurgeShape
               /\ S!AbsentMeansGone /\ S!PolledPurgeIsDone /\ S!AwaitedPurgeIsDone

(* The calls that the steps make, and what they leave of a call.           *)
LEMMA NoCallIsGood == /\ GoodCall(S!NoCall) /\ S!NoCall.pc = "idle"
                      /\ GoodCall(S!Failed) /\ S!Failed.pc = "failed"
<1>1. S!NoCall \in Calls /\ S!NoCall.pc = "idle"
  BY SnapshotBounds DEF S!Bounds, S!NoCall, Calls
<1>2. S!Failed \in Calls /\ S!Failed.pc = "failed"
  BY <1>1 DEF S!Failed, Calls
<1> QED
  BY <1>1, <1>2 DEF GoodCall, S!ByName

LEMMA NewCallIsGood ==
  ASSUME NEW pc \in {"create"} \cup S!Waits \cup S!ByName, NEW i \in Ids \cup {None},
         pc \in S!Waits \/ i \in Ids, S!Call(pc, i)
  PROVE  GoodCall(test') /\ test'.pc = pc
<1>1. S!NoCall \in Calls
  BY NoCallIsGood DEF GoodCall
<1>2. test' = [S!NoCall EXCEPT !.pc = pc, !.id = i]
  BY DEF S!Call
<1>3. test' \in Calls /\ test'.pc = pc /\ test'.id = i
  BY <1>1, <1>2 DEF Calls
<1> QED
  BY <1>3 DEF GoodCall, S!Waits, S!ByName

LEMMA NextRoundIsGood ==
  ASSUME GoodCall(test), test.pc # "lookup", test.round < SnapshotRounds,
         test' = [test EXCEPT !.round = @ + 1]
  PROVE  GoodCall(test') /\ test'.pc = test.pc
<1>1. test \in Calls
  BY DEF GoodCall
<1>2. test.round + 1 \in 0 .. SnapshotRounds
  BY <1>1, SnapshotBounds DEF S!Bounds, Calls
<1>3. test' = [test EXCEPT !.round = test.round + 1]
  OBVIOUS
<1>4. test' \in Calls /\ test'.pc = test.pc /\ test'.id = test.id /\ test'.call = test.call
  BY <1>1, <1>2, <1>3 DEF Calls
<1> QED
  BY <1>4 DEF GoodCall

LEMMA AgainIsGood ==
  ASSUME NEW call \in S!Lookups, NEW i \in Ids, NEW round \in 0 .. SnapshotRounds
  PROVE  GoodCall(S!Again(call, i, round)) /\ S!Again(call, i, round).pc = "again"
<1> DEFINE c1 == [S!NoCall EXCEPT !.pc = "again"]
           c2 == [c1 EXCEPT !.call = call]
           c3 == [c2 EXCEPT !.id = i]
           c4 == [c3 EXCEPT !.round = round]
<1>1. c1 \in Calls /\ c1.pc = "again"
  BY NoCallIsGood DEF GoodCall, Calls
<1> HIDE DEF c1
<1>2. c2 \in Calls /\ c2.pc = "again" /\ c2.call = call
  BY <1>1 DEF Calls
<1> HIDE DEF c2
<1>3. c3 \in Calls /\ c3.pc = "again" /\ c3.call = call /\ c3.id = i
  BY <1>2 DEF Calls
<1> HIDE DEF c3
<1>4. c4 \in Calls /\ c4.pc = "again" /\ c4.call = call /\ c4.id = i
  BY <1>3 DEF Calls
<1> HIDE DEF c4
<1>5. S!Again(call, i, round) = c4
  BY DEF S!Again, c1, c2, c3, c4
<1> QED
  BY <1>4, <1>5 DEF GoodCall

LEMMA SnapshotFaultCounts ==
  S!TypeOK /\ S!Fault => faults' \in 0 .. SnapshotFaults /\ faults' = faults + 1 /\ faults' # faults
BY SnapshotBounds DEF S!Bounds, S!TypeOK, S!Fault

(* The steps that change nothing but the call of the test.                 *)
CallStep == \/ S!NotListed \/ S!LookAgain \/ S!NotFound \/ S!Present \/ S!Marked \/ S!StillThere
            \/ S!Ready \/ S!WaitsOn \/ S!ByNameReturns \/ S!ByNameGoesOn
            \/ S!PurgeFails \/ S!PurgeGoesOn \/ S!WaitGoesOn \/ S!TimesOut \/ S!ReadFails
            \/ \E call \in S!Lookups, i \in Ids : S!Lookup(call, i)
            \/ \E pc \in S!ByName, i \in Ids : S!AwaitByName(pc, i)
            \/ \E call \in {"waitStart", "waitCompleted"} : S!WaitForPurge(call)

LEMMA ListStep ==
  ASSUME S!TypeOK, NEW call \in S!Lookups, NEW i \in Ids, NEW round \in 0 .. SnapshotRounds,
         round < SnapshotRounds, S!List(call, i, round)
  PROVE  /\ UNCHANGED <<snapshot, head, held, purge, todo, status, hist>>
         /\ faults' \in 0 .. SnapshotFaults /\ GoodCall(test') /\ test'.pc # "purge"
         /\ test'.pc = "lookup" => (test'.listed <=> test'.id \in S!Listed)
<1>1. /\ UNCHANGED <<snapshot, head, held, purge, todo, status, hist>>
      /\ snapshot[i].removed \in BOOLEAN /\ faults \in 0 .. SnapshotFaults
  BY DEF S!List, S!TypeOK
<1>2. CASE /\ test' = [pc |-> "lookup", call |-> call, id |-> i, round |-> round,
                       listed |-> i \in S!Listed, removed |-> snapshot[i].removed]
           /\ faults' = faults
  <2>1. test' \in Calls
    BY <1>1, <1>2 DEF Calls
  <2>2. test'.pc = "lookup" /\ test'.call = call /\ test'.id = i /\ test'.round = round
        /\ test'.listed = (i \in S!Listed)
    BY <1>2
  <2> QED
    BY <1>1, <1>2, <2>1, <2>2 DEF GoodCall
<1>3. CASE /\ S!Fault
           /\ test' = IF call = "awaitReady" THEN S!Again(call, i, round + 1) ELSE S!Failed
  <2>1. round + 1 \in 0 .. SnapshotRounds
    BY SnapshotBounds DEF S!Bounds
  <2>2. GoodCall(test') /\ test'.pc \in {"again", "failed"}
    BY <1>3, <2>1, AgainIsGood, NoCallIsGood
  <2> QED
    BY <1>1, <1>3, <2>2, SnapshotFaultCounts
<1> QED
  BY <1>2, <1>3 DEF S!List

LEMMA CallStepEffect ==
  ASSUME S!TypeOK, GoodCall(test), CallStep
  PROVE  /\ UNCHANGED <<snapshot, head, held, purge, todo, status, hist>>
         /\ faults' \in 0 .. SnapshotFaults
         /\ GoodCall(test')
         /\ test'.pc = "purge" => test.pc = "purge"
         /\ test'.pc = "lookup" => (test'.listed <=> test'.id \in S!Listed)
<1> DEFINE Effect == /\ UNCHANGED <<snapshot, head, held, purge, todo, status, hist>>
                     /\ faults' \in 0 .. SnapshotFaults
                     /\ GoodCall(test')
                     /\ test'.pc = "purge" => test.pc = "purge"
                     /\ test'.pc = "lookup" => (test'.listed <=> test'.id \in S!Listed)
           Rest == UNCHANGED <<snapshot, head, held, purge, todo, status, hist>>
<1>1. faults \in 0 .. SnapshotFaults /\ test \in Calls /\ test.round \in 0 .. SnapshotRounds
      /\ SnapshotRounds \in Nat \ {0}
  BY SnapshotBounds DEF S!TypeOK, GoodCall, Calls, S!Bounds
<1>2. S!Fault \/ UNCHANGED faults => faults' \in 0 .. SnapshotFaults
  BY <1>1, SnapshotFaultCounts
<1>3. ASSUME Rest, S!Fault \/ UNCHANGED faults, test' \in {S!NoCall, S!Failed}
      PROVE  Effect
  BY <1>2, <1>3, NoCallIsGood
<1>4. ASSUME Rest, S!Fault \/ UNCHANGED faults, test.pc # "lookup", test.round < SnapshotRounds,
             test' = [test EXCEPT !.round = @ + 1]
      PROVE  Effect
  BY <1>2, <1>4, NextRoundIsGood
<1>5. \A call, found : S!Looked(call, found) =>
         test.pc = "lookup" /\ test.call = call /\ (S!Fault \/ UNCHANGED faults)
  BY DEF S!Looked, S!Got
<1>6. \A passes : S!Checked(passes) /\ UNCHANGED hist => Rest /\ test' \in {S!NoCall, S!Failed}
  BY DEF S!Checked
<1> HIDE DEF Rest
<1>7. CASE S!NotFound \/ S!Present \/ S!Marked \/ S!StillThere \/ S!Ready
  <2> HIDE DEF Effect
  <2>1. PICK call, found, passes : S!Looked(call, found) /\ S!Checked(passes) /\ UNCHANGED hist
    BY <1>7 DEF S!NotFound, S!Present, S!Marked, S!StillThere, S!Ready
  <2>2. Effect
    BY <1>3, <1>5, <1>6, <2>1
  <2> QED
    BY <2>2 DEF Effect
<1>8. CASE S!WaitsOn
  <2>1. Rest /\ test' = S!Again(test.call, test.id, test.round + 1)
    BY <1>8 DEF S!WaitsOn, Rest
  <2>2. test.pc = "lookup" /\ (S!Fault \/ UNCHANGED faults)
    BY <1>5, <1>8 DEF S!WaitsOn
  <2>3. test.call \in S!Lookups /\ test.id \in Ids /\ test.round < SnapshotRounds
    BY <2>2 DEF GoodCall
  <2>4. test.round + 1 \in 0 .. SnapshotRounds
    BY <1>1, <2>3
  <2>5. GoodCall(test') /\ test'.pc = "again"
    BY <2>1, <2>3, <2>4, AgainIsGood
  <2> QED
    BY <1>2, <2>1, <2>2, <2>5 DEF Rest
<1>9. CASE S!NotListed \/ S!ByNameGoesOn \/ S!PurgeGoesOn \/ S!WaitGoesOn
  <2>1. /\ test.pc # "lookup" /\ test.round < SnapshotRounds /\ test' = [test EXCEPT !.round = @ + 1]
        /\ Rest /\ (S!Fault \/ UNCHANGED faults)
    BY <1>9 DEF S!NotListed, S!ByNameGoesOn, S!PurgeGoesOn, S!PollPurge, S!WaitGoesOn, S!ByName, Rest
  <2> QED
    BY <1>4, <2>1
<1>10. CASE S!ByNameReturns \/ S!PurgeFails \/ S!TimesOut \/ S!ReadFails
  <2>1. test' \in {S!NoCall, S!Failed} /\ Rest /\ (S!Fault \/ UNCHANGED faults)
    BY <1>10 DEF S!ByNameReturns, S!PurgeFails, S!TimesOut, S!ReadFails, Rest
  <2> QED
    BY <1>3, <2>1
<1>11. CASE S!LookAgain
  <2>1. test.call \in S!Lookups /\ test.id \in Ids /\ test.round < SnapshotRounds
        /\ S!List(test.call, test.id, test.round)
    BY <1>11 DEF S!LookAgain, GoodCall
  <2> QED
    BY <1>1, <2>1, ListStep
<1>12. CASE \E call \in S!Lookups, i \in Ids : S!Lookup(call, i)
  <2>1. PICK call \in S!Lookups, i \in Ids : S!List(call, i, 0)
    BY <1>12 DEF S!Lookup
  <2>2. 0 \in 0 .. SnapshotRounds /\ 0 < SnapshotRounds
    BY <1>1
  <2> QED
    BY <2>1, <2>2, ListStep
<1>13. CASE \E pc \in S!ByName, i \in Ids : S!AwaitByName(pc, i)
  <2>1. PICK pc \in S!ByName, i \in Ids : S!AwaitByName(pc, i)
    BY <1>13
  <2>2. S!Call(pc, i) /\ Rest /\ UNCHANGED faults
    BY <2>1 DEF S!AwaitByName, Rest
  <2>3. GoodCall(test') /\ test'.pc = pc
    BY <2>2, NewCallIsGood
  <2> QED
    BY <1>2, <2>2, <2>3 DEF Rest, S!ByName
<1>14. CASE \E call \in {"waitStart", "waitCompleted"} : S!WaitForPurge(call)
  <2>1. PICK call \in {"waitStart", "waitCompleted"} : S!WaitForPurge(call)
    BY <1>14
  <2>2. S!Call(call, None) /\ Rest /\ UNCHANGED faults
    BY <2>1 DEF S!WaitForPurge, Rest
  <2>3. call \in S!Waits
    BY DEF S!Waits
  <2>4. GoodCall(test') /\ test'.pc = call
    BY <2>2, <2>3, NewCallIsGood
  <2> QED
    BY <1>2, <2>2, <2>4 DEF Rest
<1> QED
  BY <1>7, <1>8, <1>9, <1>10, <1>11, <1>12, <1>13, <1>14 DEF CallStep

LEMMA ListedMeansHeld == \A i : i \in S!Listed <=> \E r \in Replicas : i \in held[r]
BY DEF S!Listed

SnapshotRecords == [state : {"none", "asked", "taken"}, removed : BOOLEAN, named : BOOLEAN]
Histories == [absent : SUBSET Ids, fresh : BOOLEAN, told : {"nothing", "started", "polled", "ended"}]

LEMMA SnapshotInvInit == S!Init => SnapshotInv
<1> SUFFICES ASSUME S!Init  PROVE SnapshotInv
  OBVIOUS
<1>1. /\ head = None /\ held = [r \in Replicas |-> {}] /\ purge = [r \in Replicas |-> "none"]
      /\ todo = {} /\ status = [r \in {} |-> "none"] /\ test = S!NoCall /\ faults = 0
      /\ hist = [absent |-> {}, fresh |-> FALSE, told |-> "nothing"]
      /\ snapshot = [i \in Ids |-> [state |-> "none", removed |-> FALSE, named |-> FALSE]]
  BY DEF S!Init
<1>2. GoodCall(test) /\ test.pc = "idle"
  BY <1>1, NoCallIsGood
<1>3. \A i : i \notin S!Listed
  BY <1>1, ListedMeansHeld
<1>4. snapshot \in [Ids -> SnapshotRecords]
  BY <1>1 DEF SnapshotRecords
<1>5. \E R \in SUBSET Replicas : status \in [R -> S!Phases \ {"none"}]
  <2>1. status \in [{} -> S!Phases \ {"none"}]
    BY <1>1
  <2> QED
    BY <2>1
<1>6. S!TypeOK
  <2>1. held \in [Replicas -> SUBSET Ids] /\ purge \in [Replicas -> S!Phases]
    BY <1>1 DEF S!Phases
  <2>2. faults \in 0 .. SnapshotFaults /\ hist \in Histories /\ todo \subseteq Ids /\ head \in Ids \cup {None}
    BY <1>1, SnapshotBounds DEF S!Bounds, Histories
  <2>3. test \in Calls
    BY <1>2 DEF GoodCall
  <2> QED
    BY <1>4, <1>5, <2>1, <2>2, <2>3 DEF S!TypeOK, SnapshotRecords, Histories, Calls
<1>7. SnapshotShape
  BY <1>1, <1>2, <1>3 DEF SnapshotShape
<1>8. PurgeShape
  BY <1>1, <1>2 DEF PurgeShape
<1> QED
  BY <1>1, <1>3, <1>6, <1>7, <1>8
     DEF SnapshotInv, S!AbsentMeansGone, S!PolledPurgeIsDone, S!AwaitedPurgeIsDone

LEMMA SnapshotInvStep == SnapshotInv /\ [S!Next]_(S!vars) => SnapshotInv'
<1> SUFFICES ASSUME SnapshotInv, [S!Next]_(S!vars)  PROVE SnapshotInv'
  OBVIOUS
<1> DEFINE Types == /\ snapshot \in [Ids -> SnapshotRecords] /\ head \in Ids \cup {None}
                    /\ held \in [Replicas -> SUBSET Ids] /\ purge \in [Replicas -> S!Phases]
                    /\ todo \subseteq Ids
                    /\ \E R \in SUBSET Replicas : status \in [R -> S!Phases \ {"none"}]
                    /\ faults \in 0 .. SnapshotFaults /\ hist \in Histories
           Gone == \A i \in hist.absent : i \notin S!Listed
           Taken == /\ \A r \in Replicas : \A i \in held[r] : snapshot[i].state = "taken"
                    /\ \A i \in Ids : snapshot[i].named \/ snapshot[i].removed \/ i \in todo \/ i \in hist.absent =>
                                         snapshot[i].state = "taken"
           Missing == test.pc = "lookup" /\ ~test.listed /\ snapshot[test.id].named => test.id \notin S!Listed
<1>1. /\ Types /\ S!TypeOK /\ GoodCall(test) /\ Taken /\ Missing /\ Gone /\ PurgeShape
  <2>1. /\ S!TypeOK /\ SnapshotShape /\ PurgeShape /\ S!AbsentMeansGone
    BY DEF SnapshotInv
  <2>2. Types
    BY <2>1 DEF S!TypeOK, SnapshotRecords, Histories
  <2> QED
    BY <2>1, <2>2 DEF SnapshotShape, S!AbsentMeansGone
<1>2. SUFFICES /\ Types' /\ GoodCall(test)' /\ Taken' /\ Missing' /\ Gone' /\ PurgeShape'
  <2>1. S!TypeOK'
    BY <1>2 DEF S!TypeOK, SnapshotRecords, Histories, GoodCall, Calls
  <2>2. SnapshotShape' /\ PurgeShape' /\ S!AbsentMeansGone'
    BY <1>2 DEF SnapshotShape, S!AbsentMeansGone
  (* Once all purges are complete, nothing that was to go is listed.       *)
  <2>3. (\A r \in Replicas : purge'[r] = "complete") => S!Listed' \cap todo' = {}
    <3>1. \A r \in Replicas : purge'[r] = "complete" => held'[r] \cap todo' = {}
      BY <1>2 DEF PurgeShape
    <3> QED
      BY <3>1 DEF S!Listed
  <2>4. S!PolledPurgeIsDone'
    BY <1>2, <2>3 DEF S!PolledPurgeIsDone, PurgeShape
  <2>5. S!AwaitedPurgeIsDone'
    BY <1>2, <2>3 DEF S!AwaitedPurgeIsDone, PurgeShape
  <2> QED
    BY <2>1, <2>2, <2>4, <2>5 DEF SnapshotInv
<1>3. SnapshotRounds \in Nat \ {0} /\ SnapshotFaults \in Nat
  BY SnapshotBounds DEF S!Bounds
<1>4. S!Fault \/ UNCHANGED faults => faults' \in 0 .. SnapshotFaults
  BY <1>1, SnapshotFaultCounts
<1>5. \A i : i \in S!Listed' <=> \E r \in Replicas : i \in held'[r]
  BY DEF S!Listed
<1>6. held' = held => S!Listed' = S!Listed
  BY DEF S!Listed
<1>7. status' = status => S!IsPurging' = S!IsPurging
  BY DEF S!IsPurging
<1>8. CASE CallStep
  <2>1. /\ UNCHANGED <<snapshot, head, held, purge, todo, status, hist>>
        /\ faults' \in 0 .. SnapshotFaults /\ GoodCall(test')
        /\ test'.pc = "purge" => test.pc = "purge"
        /\ test'.pc = "lookup" => (test'.listed <=> test'.id \in S!Listed)
    BY <1>1, <1>8, CallStepEffect
  <2>2. Types' /\ Taken' /\ Gone' /\ Missing'
    BY <1>1, <1>6, <2>1
  <2>3. PurgeShape'
    BY <1>1, <1>7, <2>1 DEF PurgeShape, PurgeBegan
  <2> QED
    BY <2>1, <2>2, <2>3
<1>9. CASE S!Report
  <2>1. /\ UNCHANGED <<snapshot, head, held, purge, todo, test, faults>>
        /\ status' = [r \in {q \in Replicas : purge[q] # "none"} |-> purge[r]]
        /\ hist' = [hist EXCEPT !.fresh = TRUE] /\ hist \in Histories
    BY <1>1, <1>9 DEF S!Report
  <2>2. hist' \in Histories /\ hist'.absent = hist.absent /\ hist'.fresh /\ hist'.told = hist.told
    BY <2>1 DEF Histories
  <2>3. Types'
    <3> DEFINE R == {q \in Replicas : purge[q] # "none"}
    <3>1. status' \in [R -> S!Phases \ {"none"}] /\ R \in SUBSET Replicas
      BY <1>1, <2>1
    <3> QED
      BY <1>1, <2>1, <2>2, <3>1
  <2>4. GoodCall(test)' /\ Taken' /\ Missing' /\ Gone'
    BY <1>1, <1>6, <2>1, <2>2
  <2>5. PurgeShape'
    <3>1. DOMAIN status' = {r \in Replicas : purge[r] # "none"} /\ \A r \in DOMAIN status' : status'[r] = purge[r]
      BY <2>1
    <3> QED
      BY <1>1, <2>1, <2>2, <3>1 DEF PurgeShape, PurgeBegan
  <2> QED
    BY <2>1, <2>3, <2>4, <2>5
<1>10. CASE \E i \in Ids : S!Take(i)
  <2>1. PICK i \in Ids : S!Take(i)
    BY <1>10
  <2>2. /\ UNCHANGED <<purge, todo, status, test, faults, hist>>
        /\ snapshot[i].state = "asked" /\ head' = i
        /\ snapshot' = [snapshot EXCEPT ![i].state = "taken"]
        /\ held' = [r \in Replicas |-> held[r] \cup {i}]
    BY <2>1 DEF S!Take
  <2>3. /\ snapshot' \in [Ids -> SnapshotRecords]
        /\ \A j \in Ids : /\ j # i => snapshot'[j] = snapshot[j]
                          /\ snapshot'[j].named = snapshot[j].named
                          /\ snapshot'[j].removed = snapshot[j].removed
        /\ snapshot'[i].state = "taken"
    BY <1>1, <2>2 DEF SnapshotRecords
  <2>4. ~snapshot[i].named /\ i \notin todo /\ i \notin hist.absent
    BY <1>1, <2>2
  <2>5. Types'
    BY <1>1, <2>2, <2>3
  <2>6. \A j : j \in S!Listed' => j \in S!Listed \/ j = i
    BY <1>5, <2>2, ListedMeansHeld
  <2>7. Taken'
    BY <1>1, <2>2, <2>3
  <2>8. Missing'
    <3>1. test.pc = "lookup" => test.id \in Ids
      BY <1>1 DEF GoodCall
    <3> QED
      BY <1>1, <2>2, <2>3, <2>4, <2>6, <3>1
  <2>9. Gone'
    BY <1>1, <2>2, <2>4, <2>6
  <2>10. PurgeShape'
    BY <1>1, <1>7, <2>2, <2>4 DEF PurgeShape, PurgeBegan
  <2> QED
    BY <1>1, <2>2, <2>5, <2>7, <2>8, <2>9, <2>10
<1>11. CASE \E r \in Replicas : S!PurgeEnds(r)
  <2>1. PICK r \in Replicas : S!PurgeEnds(r)
    BY <1>11
  <2>2. /\ UNCHANGED <<snapshot, head, todo, status, test, faults, hist>> /\ purge[r] = "inProgress"
        /\ \/ purge' = [purge EXCEPT ![r] = "complete"] /\ held' = [held EXCEPT ![r] = @ \ todo]
           \/ purge' = [purge EXCEPT ![r] = "error"] /\ held' = held
    BY <2>1 DEF S!PurgeEnds
  <2>3. /\ held' \in [Replicas -> SUBSET Ids] /\ purge' \in [Replicas -> S!Phases]
        /\ \A q \in Replicas : /\ held'[q] \subseteq held[q]
                               /\ q # r => held'[q] = held[q] /\ purge'[q] = purge[q]
        /\ \/ purge'[r] = "complete" /\ held'[r] \cap todo = {}
           \/ purge'[r] = "error"
    BY <1>1, <2>2 DEF S!Phases
  <2>4. S!Listed' \subseteq S!Listed
    BY <1>5, <2>3, ListedMeansHeld
  <2>5. Types' /\ Taken' /\ Missing' /\ Gone'
    BY <1>1, <2>2, <2>3, <2>4
  <2>6. PurgeShape'
    <3>1. PurgeBegan
      BY <1>1, <2>2 DEF PurgeShape
    <3>2. PurgeBegan'
      BY <2>3, <3>1 DEF PurgeBegan
    <3>3. \A q \in Replicas : purge'[q] = "complete" => held'[q] \cap todo' = {}
      BY <1>1, <2>2, <2>3 DEF PurgeShape
    <3>4. hist.fresh => /\ DOMAIN status' = {q \in Replicas : purge'[q] # "none"}
                        /\ \A q \in DOMAIN status' : status'[q] \in {"inProgress", purge'[q]}
      BY <1>1, <2>2, <2>3, <3>1, <3>2 DEF PurgeShape, PurgeBegan
    <3>5. hist.told # "polled" /\ hist.told # "ended"
      BY <1>1, <2>2 DEF PurgeShape
    <3> QED
      BY <1>1, <1>7, <2>2, <3>2, <3>3, <3>4, <3>5 DEF PurgeShape
  <2> QED
    BY <1>1, <2>2, <2>5, <2>6
<1>12. CASE \E i \in Ids : S!Create(i)
  <2>1. PICK i \in Ids : S!Create(i)
    BY <1>12
  <2>2. /\ UNCHANGED <<head, held, purge, todo, status, faults, hist>> /\ test.pc = "idle"
        /\ snapshot[i].state = "none"
        /\ snapshot' = [snapshot EXCEPT ![i].state = "asked"]
        /\ S!Call("create", i) \/ test' = test
    BY <2>1 DEF S!Create, S!Idle
  <2>3. GoodCall(test') /\ test'.pc \in {"create", "idle"}
    BY <1>1, <2>2, NewCallIsGood
  <2>4. /\ snapshot' \in [Ids -> SnapshotRecords]
        /\ \A j \in Ids : /\ j # i => snapshot'[j] = snapshot[j]
                          /\ snapshot'[j].named = snapshot[j].named
                          /\ snapshot'[j].removed = snapshot[j].removed
    BY <1>1, <2>2 DEF SnapshotRecords
  <2>5. Taken'
    BY <1>1, <2>2, <2>4
  <2>6. PurgeShape'
    BY <1>1, <1>7, <2>2, <2>3 DEF PurgeShape, PurgeBegan
  <2> QED
    BY <1>1, <1>6, <2>2, <2>3, <2>4, <2>5, <2>6
<1>13. CASE S!SetSnapshotId
  <2>1. /\ UNCHANGED <<head, held, purge, todo, status, hist>> /\ test.pc = "create"
        /\ test.id \in S!Listed
        /\ \/ snapshot' = [snapshot EXCEPT ![test.id].named = TRUE] /\ test' = S!NoCall /\ faults' = faults
           \/ S!Fault /\ test' \in {S!NoCall, S!Failed} /\ snapshot' = snapshot
    BY <1>13 DEF S!SetSnapshotId
  <2>2. GoodCall(test') /\ test'.pc \in {"idle", "failed"} /\ faults' \in 0 .. SnapshotFaults
    BY <1>4, <2>1, NoCallIsGood
  <2>3. test.id \in Ids /\ snapshot[test.id].state = "taken"
    BY <1>1, <2>1, ListedMeansHeld DEF GoodCall
  <2>4. /\ snapshot' \in [Ids -> SnapshotRecords]
        /\ \A j \in Ids : /\ j # test.id => snapshot'[j] = snapshot[j]
                          /\ snapshot'[j].state = snapshot[j].state
    <3>1. CASE snapshot' = snapshot
      BY <1>1, <3>1
    <3>2. CASE snapshot' = [snapshot EXCEPT ![test.id].named = TRUE]
      <4>1. PICK i \in Ids : i = test.id
        BY <2>3
      <4>2. snapshot' = [snapshot EXCEPT ![i] = [snapshot[i] EXCEPT !.named = TRUE]]
        BY <1>1, <3>2, <4>1
      <4>3. /\ [snapshot[i] EXCEPT !.named = TRUE] \in SnapshotRecords
            /\ [snapshot[i] EXCEPT !.named = TRUE].state = snapshot[i].state
        BY <1>1 DEF SnapshotRecords
      <4> QED
        BY <1>1, <4>1, <4>2, <4>3
    <3> QED
      BY <2>1, <3>1, <3>2
  <2>5. Taken'
    BY <1>1, <2>1, <2>3, <2>4
  <2>6. PurgeShape'
    BY <1>1, <1>7, <2>1, <2>2 DEF PurgeShape, PurgeBegan
  <2> QED
    BY <1>1, <1>6, <2>1, <2>2, <2>4, <2>5, <2>6
<1>14. CASE S!Delete
  <2>1. /\ UNCHANGED <<head, held, purge, todo, status, hist>> /\ test.pc = "lookup"
        /\ snapshot[test.id].named /\ (S!Fault \/ UNCHANGED faults)
        /\ \/ snapshot' = [snapshot EXCEPT ![test.id].removed = TRUE] /\ test' = S!NoCall
           \/ test' = S!Failed /\ snapshot' = snapshot
    BY <1>14 DEF S!Delete, S!Looked, S!Got
  <2>2. GoodCall(test') /\ test'.pc \in {"idle", "failed"} /\ faults' \in 0 .. SnapshotFaults
    BY <1>4, <2>1, NoCallIsGood
  <2>3. test.id \in Ids /\ snapshot[test.id].state = "taken"
    BY <1>1, <2>1 DEF GoodCall
  <2>4. /\ snapshot' \in [Ids -> SnapshotRecords]
        /\ \A j \in Ids : /\ j # test.id => snapshot'[j] = snapshot[j]
                          /\ snapshot'[j].state = snapshot[j].state
    <3>1. CASE snapshot' = snapshot
      BY <1>1, <3>1
    <3>2. CASE snapshot' = [snapshot EXCEPT ![test.id].removed = TRUE]
      <4>1. PICK i \in Ids : i = test.id
        BY <2>3
      <4>2. snapshot' = [snapshot EXCEPT ![i] = [snapshot[i] EXCEPT !.removed = TRUE]]
        BY <1>1, <3>2, <4>1
      <4>3. /\ [snapshot[i] EXCEPT !.removed = TRUE] \in SnapshotRecords
            /\ [snapshot[i] EXCEPT !.removed = TRUE].state = snapshot[i].state
        BY <1>1 DEF SnapshotRecords
      <4> QED
        BY <1>1, <4>1, <4>2, <4>3
    <3> QED
      BY <2>1, <3>1, <3>2
  <2>5. Taken'
    BY <1>1, <2>1, <2>3, <2>4
  <2>6. PurgeShape'
    BY <1>1, <1>7, <2>1, <2>2 DEF PurgeShape, PurgeBegan
  <2> QED
    BY <1>1, <1>6, <2>1, <2>2, <2>4, <2>5, <2>6
<1>15. CASE S!Revert
  <2>1. /\ UNCHANGED <<snapshot, held, purge, todo, status, hist>> /\ test.pc = "lookup"
        /\ (S!Fault \/ UNCHANGED faults)
        /\ test' \in {S!NoCall, S!Failed} /\ head' \in {head, test.id}
    BY <1>15 DEF S!Revert, S!Looked, S!Got
  <2>2. GoodCall(test') /\ test'.pc \in {"idle", "failed"} /\ faults' \in 0 .. SnapshotFaults
    BY <1>4, <2>1, NoCallIsGood
  <2>3. head' \in Ids \cup {None}
    BY <1>1, <2>1 DEF GoodCall
  <2>4. PurgeShape'
    BY <1>1, <1>7, <2>1, <2>2 DEF PurgeShape, PurgeBegan
  <2> QED
    BY <1>1, <1>6, <2>1, <2>2, <2>3, <2>4
<1>16. CASE S!Absent
  <2>1. /\ UNCHANGED <<snapshot, head, held, purge, todo, status>> /\ test.pc = "lookup"
        /\ test' = S!NoCall /\ S!ToldAbsent /\ S!Got(FALSE)
    BY <1>16 DEF S!Absent, S!Looked, S!Checked
  <2>2. GoodCall(test') /\ test'.pc = "idle"
    BY <2>1, NoCallIsGood
  <2>3. faults' \in 0 .. SnapshotFaults /\ test.id \in Ids /\ hist \in Histories
    BY <1>1, <1>4, <2>1 DEF S!Got, GoodCall
  <2>4. \/ hist' = hist
        \/ /\ hist' = [hist EXCEPT !.absent = @ \cup {test.id}]
           /\ snapshot[test.id].named /\ faults' = faults
    BY <2>1 DEF S!ToldAbsent
  <2>5. snapshot[test.id].named /\ faults' = faults => test.id \notin S!Listed
    <3>1. S!Fault => faults' # faults
      BY <1>1, SnapshotFaultCounts
    <3> QED
      BY <1>1, <2>1, <3>1 DEF S!Got
  <2>6. /\ hist' \in Histories /\ hist'.fresh = hist.fresh /\ hist'.told = hist.told
        /\ \A i \in hist'.absent : i \in hist.absent \/ (i = test.id /\ snapshot[i].named /\ i \notin S!Listed)
    BY <2>3, <2>4, <2>5 DEF Histories
  <2>7. Types' /\ Taken' /\ Missing' /\ Gone'
    BY <1>1, <1>6, <2>1, <2>2, <2>3, <2>6
  <2>8. PurgeShape'
    BY <1>1, <1>7, <2>1, <2>2, <2>6 DEF PurgeShape, PurgeBegan
  <2> QED
    BY <2>2, <2>7, <2>8
<1>17. CASE S!Purge
  <2>1. UNCHANGED <<snapshot, head, held, status, faults>>
    BY <1>17 DEF S!Purge
  <2>2. CASE /\ purge' = [r \in Replicas |-> "inProgress"]
             /\ todo' = {i \in Ids : snapshot[i].removed} \ {head}
             /\ hist' = [hist EXCEPT !.fresh = FALSE, !.told = "nothing"]
             /\ S!Call("purge", None) \/ (test' = test /\ test.pc = "idle")
    <3>1. GoodCall(test') /\ test'.pc \in {"purge", "idle"}
      <4>1. "purge" \in S!Waits
        BY DEF S!Waits
      <4> QED
        BY <1>1, <2>2, <4>1, NewCallIsGood
    <3>2. hist' \in Histories /\ hist'.absent = hist.absent /\ ~hist'.fresh /\ hist'.told = "nothing"
      BY <1>1, <2>2 DEF Histories
    <3>3. Types'
      BY <1>1, <2>1, <2>2, <3>2 DEF S!Phases
    <3>4. Taken' /\ Missing' /\ Gone'
      BY <1>1, <1>6, <2>1, <2>2, <3>1, <3>2
    <3>5. PurgeShape'
      BY <1>1, <2>1, <2>2, <3>2 DEF PurgeShape, PurgeBegan
    <3> QED
      BY <3>1, <3>3, <3>4, <3>5
  <2>3. CASE test' \in {S!NoCall, S!Failed} /\ UNCHANGED <<purge, todo, hist>>
    <3>1. GoodCall(test') /\ test'.pc \in {"idle", "failed"}
      BY <2>3, NoCallIsGood
    <3>2. PurgeShape'
      BY <1>1, <1>7, <2>1, <2>3, <3>1 DEF PurgeShape, PurgeBegan
    <3> QED
      BY <1>1, <1>6, <2>1, <2>3, <3>1, <3>2
  <2> QED
    BY <1>17, <2>2, <2>3 DEF S!Purge, S!Idle
<1>18. ASSUME UNCHANGED <<snapshot, head, held, purge, todo, status, faults>>, test' = S!NoCall,
              NEW told \in {"nothing", "started", "polled", "ended"}, hist' = [hist EXCEPT !.told = told],
              told = "polled" => \A r \in Replicas : purge[r] = "complete",
              told = "started" => PurgeBegan /\ (hist.fresh \/ S!IsPurging),
              told = "ended" => \A r \in Replicas : purge[r] \in {"complete", "error"}
       PROVE  /\ Types' /\ GoodCall(test)' /\ Taken' /\ Missing' /\ Gone' /\ PurgeShape'
  (* A wait for the purge that returns tells the test something.           *)
  <2>1. GoodCall(test') /\ test'.pc = "idle"
    BY <1>18, NoCallIsGood
  <2>2. hist' \in Histories /\ hist'.absent = hist.absent /\ hist'.fresh = hist.fresh /\ hist'.told = told
    BY <1>1, <1>18 DEF Histories
  <2>3. Types' /\ Taken' /\ Missing' /\ Gone'
    BY <1>1, <1>6, <1>18, <2>1, <2>2
  <2>4. PurgeShape'
    BY <1>1, <1>7, <1>18, <2>1, <2>2 DEF PurgeShape, PurgeBegan
  <2> QED
    BY <2>1, <2>3, <2>4
<1>19. hist.told \in {"nothing", "started", "polled", "ended"}
  BY <1>1 DEF Histories
<1>20. CASE S!PurgeReturns
  <2> DEFINE told == IF hist.fresh THEN "polled" ELSE hist.told
  <2>1. /\ UNCHANGED <<snapshot, head, held, purge, todo, status, faults>> /\ test' = S!NoCall
        /\ hist' = [hist EXCEPT !.told = told]
        /\ test.pc = "purge" /\ \A r \in DOMAIN status : status[r] = "complete"
    BY <1>20 DEF S!PurgeReturns, S!PollPurge, S!AllCompleted
  <2>2. told = "polled" => \A r \in Replicas : purge[r] = "complete"
    BY <1>1, <2>1 DEF PurgeShape, PurgeBegan
  <2>3. /\ told \in {"nothing", "started", "polled", "ended"}
        /\ told = "started" => PurgeBegan /\ (hist.fresh \/ S!IsPurging)
        /\ told = "ended" => \A r \in Replicas : purge[r] \in {"complete", "error"}
    BY <1>1, <1>19 DEF PurgeShape
  <2> HIDE DEF told
  <2> QED
    BY <1>18, <2>1, <2>2, <2>3
<1>21. CASE S!PurgeStarted
  <2>1. /\ UNCHANGED <<snapshot, head, held, purge, todo, status, faults>> /\ test' = S!NoCall
        /\ hist' = [hist EXCEPT !.told = "started"] /\ S!IsPurging
    BY <1>21 DEF S!PurgeStarted
  <2>2. PurgeBegan
    BY <1>1, <2>1 DEF PurgeShape, S!IsPurging
  <2> QED
    BY <1>18, <2>1, <2>2
<1>22. CASE S!PurgeCompleted
  <2> DEFINE told == IF hist.told = "started" THEN "ended" ELSE hist.told
  <2>1. /\ UNCHANGED <<snapshot, head, held, purge, todo, status, faults>> /\ test' = S!NoCall
        /\ hist' = [hist EXCEPT !.told = told] /\ ~S!IsPurging
    BY <1>22 DEF S!PurgeCompleted
  <2>2. told = "ended" => \A r \in Replicas : purge[r] \in {"complete", "error"}
    <3>1. CASE hist.told = "started"
      <4>1. PurgeBegan /\ hist.fresh
        BY <1>1, <2>1, <3>1 DEF PurgeShape
      <4>2. \A r \in Replicas : r \in DOMAIN status /\ status[r] = purge[r] /\ status[r] # "inProgress"
        BY <1>1, <2>1, <4>1 DEF PurgeShape, PurgeBegan, S!IsPurging
      <4>3. \A r \in Replicas : purge[r] \in S!Phases /\ purge[r] # "none"
        BY <1>1, <4>1 DEF PurgeBegan
      <4> QED
        BY <4>2, <4>3 DEF S!Phases
    <3>2. CASE hist.told # "started"
      BY <1>1, <3>2 DEF PurgeShape
    <3> QED
      BY <3>1, <3>2
  <2>3. /\ told \in {"nothing", "started", "polled", "ended"} /\ told # "started"
        /\ told = "polled" => \A r \in Replicas : purge[r] = "complete"
    BY <1>1, <1>19 DEF PurgeShape
  <2> HIDE DEF told
  <2> QED
    BY <1>18, <2>1, <2>2, <2>3
<1>23. CASE UNCHANGED S!vars
  <2>1. UNCHANGED <<snapshot, head, held, purge, todo, status, test, faults, hist>>
    BY <1>23 DEF S!vars
  <2>2. PurgeShape'
    BY <1>1, <1>7, <2>1 DEF PurgeShape, PurgeBegan
  <2> QED
    BY <1>1, <1>6, <2>1, <2>2
<1> QED
  BY <1>8, <1>9, <1>10, <1>11, <1>12, <1>13, <1>14, <1>15, <1>16, <1>17, <1>20, <1>21, <1>22, <1>23
     DEF S!Next, S!Longhorn, S!Begin, S!Step, CallStep

-----------------------------------------------------------------------------
(* The three together: a step is one of them at most.                      *)

Inv == SnapshotInv /\ BackupInv /\ KubeletInv

LEMMA Invariance == Spec => []Inv
<1>1. Init => Inv
  BY SnapshotInvInit, BackupInvInit, KubeletInvInit DEF Init, Inv
<1>2. Inv /\ [Next]_vars => Inv'
  <2> SUFFICES ASSUME Inv, [Next]_vars  PROVE Inv'
    OBVIOUS
  <2>1. [S!Next]_(S!vars) /\ [B!Next]_(B!vars) /\ [K!Next]_(K!vars)
    BY DEF Next, vars, snapshots, backups, kubelets, S!vars, B!vars, K!vars
  <2> QED
    BY <2>1, SnapshotInvStep, BackupInvStep, KubeletInvStep DEF Inv
<1> QED
  BY <1>1, <1>2, PTL DEF Spec

(* Every variable of the keywords has its type: get and the waits of       *)
(* snapshot/rest.py, background of backup/rest.py, the kubelet keywords.   *)
THEOREM TypeCorrect == Spec => []TypeOK
<1>1. Inv => TypeOK
  BY DEF Inv, SnapshotInv, BackupInv, KubeletInv, TypeOK
<1> QED
  BY <1>1, Invariance, PTL

(* snapshot/rest.py get_snapshot and its waits: what was found missing is  *)
(* in no replica, and does not turn up in one later.                       *)
THEOREM AbsentSnapshotIsGone == Spec => []AbsentMeansGone
<1>1. Inv => AbsentMeansGone
  BY DEF Inv, SnapshotInv, AbsentMeansGone
<1> QED
  BY <1>1, Invariance, PTL

(* snapshot/rest.py purge and the waits for it: a purge that they report   *)
(* as over has removed in every replica what it was to remove.             *)
THEOREM ReportedPurgeIsDone == Spec => []PurgeIsDone
<1>1. Inv => PurgeIsDone
  BY DEF Inv, SnapshotInv, PurgeIsDone
<1> QED
  BY <1>1, Invariance, PTL

(* backup/rest.py create and background: the checksum of a backup that was *)
(* waited for is that of its data, and one found by its id is complete.    *)
THEOREM BackupChecksumIsRight == Spec => []BackupIsRight
<1>1. Inv => BackupIsRight
  BY DEF Inv, BackupInv, BackupIsRight
<1> QED
  BY <1>1, Invariance, PTL

(* k8s_keywords.py restart_kubelet and restart_kubelet_on_nodes: however   *)
(* many threads nobody joins, none starts a kubelet that another outage    *)
(* has stopped, before a test failed or a node was listed twice.           *)
THEOREM OutagesLastAsAsked == Spec => []OutagesAreWhole
<1>1. Inv => OutagesAreWhole
  BY DEF Inv, KubeletInv, OutagesAreWhole
<1> QED
  BY <1>1, Invariance, PTL

(* The same keywords: a kubelet that is down is in the list of an outage   *)
(* that has still to start it, or that failed.                             *)
THEOREM DownKubeletIsPending == Spec => []DownMeansPending
<1>1. Inv => DownMeansPending
  BY DEF Inv, KubeletInv, DownMeansPending
<1> QED
  BY <1>1, Invariance, PTL

=============================================================================
