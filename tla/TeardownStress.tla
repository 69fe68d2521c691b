--------------------------- MODULE TeardownStress ---------------------------
(***************************************************************************)
(* src/engine/stress/teardown-test.py: each of its processes creates, uses *)
(* and removes one volume after the other (run_test).  All volumes of a    *)
(* process have the same name, so the device of one iteration stands where *)
(* that of the one before may still be, and all waits for a device end in  *)
(* silence after a minute.  The processes share docker: a failed docker    *)
(* run is looked into by a query that other processes' controllers answer  *)
(* too, because docker's name filter takes a part of a name.               *)
(*                                                                         *)
(* What a volume stores is not modelled, only whether its device works.    *)
(***************************************************************************)
EXTENDS Naturals, FiniteSets

CONSTANTS
    Threads,
    Matching,      \* the threads whose controllers' names contain that of a thread's
    Iterations,
    Addresses,     \* 80: iterations that many apart use the same addresses
    MAX_RETRY,     \* 5
    MaxFaults      \* bound: commands that fail

Bounds == /\ {Iterations, Addresses, MAX_RETRY} \subseteq Nat \ {0} /\ MaxFaults \in Nat
          /\ Matching \in [Threads -> SUBSET Threads]
          /\ \A t \in Threads : t \in Matching[t]

VARIABLES
    thread,    \* each process: pc, iteration, attempts of docker run
    container, \* status of each iteration's controller in docker ps -a
    leftover,  \* iterations whose containers are still there after them
    device,    \* the iteration whose controller made the process' device
    gaveUp,    \* history: a wait of the process for its device gave up
    cause,     \* history: why docker run or the process failed
    faultsSeen

vars == <<thread, container, leftover, device, gaveUp, cause, faultsSeen>>

NoDevice == 0
Iteration == 1 .. Iterations

TypeOK ==
    /\ thread \in [Threads -> [pc : {"replicas", "controller", "query", "ready", "write", "snapshot",
                                     "write2", "revert", "ready2", "check", "stop", "deleted",
                                     "cleanup", "done", "raised"},
                               iteration : Iteration, count : 0 .. MAX_RETRY]]
    /\ container \in [Threads -> [Iteration -> {"", "Created", "Up", "Exited"}]]
    /\ leftover \in [Threads -> SUBSET Iteration]
    /\ device \in [Threads -> {NoDevice} \cup Iteration]
    /\ gaveUp \in [Threads -> BOOLEAN]
    /\ cause \in [Threads -> {"none", "race", "command", "io"}]
    /\ faultsSeen \in 0 .. MaxFaults

Init == /\ thread = [t \in Threads |-> [pc |-> "replicas", iteration |-> 1, count |-> 0]]
        /\ container = [t \in Threads |-> [i \in Iteration |-> ""]]
        /\ leftover = [t \in Threads |-> {}]
        /\ device = [t \in Threads |-> NoDevice]
        /\ gaveUp = [t \in Threads |-> FALSE] /\ cause = [t \in Threads |-> "none"]
        /\ faultsSeen = 0

Fails == faultsSeen < MaxFaults /\ faultsSeen' = faultsSeen + 1

Goto(t, pc) == thread' = [thread EXCEPT ![t].pc = pc]

Raise(t, why) == Goto(t, "raised") /\ cause' = [cause EXCEPT ![t] = why]

Status(t) == container[t][thread[t].iteration]

SetStatus(t, status) ==
    container' = [container EXCEPT ![t][thread[t].iteration] = status]

-----------------------------------------------------------------------------
(* Two replicas; an address that is in use makes docker run fail. *)
AddressesFree(t) == \A i \in leftover[t] : i % Addresses # thread[t].iteration % Addresses

RunReplicas(t) ==
    /\ thread[t].pc = "replicas"
    /\ \/ AddressesFree(t) /\ Goto(t, "controller") /\ UNCHANGED <<cause, faultsSeen>>
       \/ ~AddressesFree(t) /\ Raise(t, "command") /\ UNCHANGED faultsSeen
       \/ Raise(t, "command") /\ Fails
    /\ UNCHANGED <<container, leftover, device, gaveUp>>

(***************************************************************************)
(* The controller.  Docker's race leaves no container or one that was only *)
(* created; another failure leaves one that has exited.                    *)
(***************************************************************************)
RunController(t) ==
    /\ thread[t].pc = "controller"
    /\ \/ /\ SetStatus(t, "Up") /\ Goto(t, "ready")
          /\ UNCHANGED <<cause, faultsSeen>>
       \/ /\ Fails /\ Goto(t, "query")
          /\ \/ /\ \E status \in {"", "Created"} : SetStatus(t, status)
                /\ cause' = [cause EXCEPT ![t] = "race"]
             \/ /\ SetStatus(t, "Exited")
                /\ cause' = [cause EXCEPT ![t] = "command"]
    /\ UNCHANGED <<leftover, device, gaveUp>>

(* docker ps -a -f NAME=<name>: a line for each container that matches. *)
Lines(t) == {u \in Matching[t] : container[u][thread[t].iteration] # ""}

(* Slip for IsDockerRace: only no line at all counts as the race. *)
IsDockerRaceIfNone(t) == Lines(t) = {}

IsDockerRace(t) == \/ Lines(t) = {}
                   \/ \E u \in Threads : /\ Lines(t) = {u}
                                         /\ container[u][thread[t].iteration] = "Created"

(* Slip for Query: one attempt too many. *)
QueryOnceMore(t) ==
    /\ thread[t].pc = "query" /\ IsDockerRace(t)
    /\ SetStatus(t, "")
    /\ thread' = [thread EXCEPT
          ![t].count = @ + 1,
          ![t].pc = IF thread[t].count < MAX_RETRY THEN "controller" ELSE "raised"]
    /\ UNCHANGED <<leftover, device, gaveUp, cause, faultsSeen>>

Query(t) ==
    /\ thread[t].pc = "query"
    /\ IF IsDockerRace(t)
       THEN /\ SetStatus(t, "")
            /\ thread' = [thread EXCEPT
                  ![t].count = @ + 1,
                  ![t].pc = IF thread[t].count + 1 < MAX_RETRY THEN "controller" ELSE "raised"]
       ELSE Goto(t, "raised") /\ UNCHANGED container
    /\ UNCHANGED <<leftover, device, gaveUp, cause, faultsSeen>>

-----------------------------------------------------------------------------
(* wait_for_dev_ready and wait_for_dev_deleted *)
Wait(t, seen, next) ==
    /\ Goto(t, next)
    /\ \/ seen /\ UNCHANGED gaveUp
       \/ ~seen /\ gaveUp' = [gaveUp EXCEPT ![t] = TRUE]
    /\ UNCHANGED <<container, leftover, device, cause, faultsSeen>>

AwaitReady(t) == \/ thread[t].pc = "ready" /\ Wait(t, device[t] # NoDevice, "write")
                 \/ thread[t].pc = "ready2" /\ Wait(t, device[t] # NoDevice, "check")

(* Slip for AwaitDeleted: the containers are removed at once. *)
AwaitNothing(t) == /\ thread[t].pc = "deleted" /\ Goto(t, "cleanup")
                   /\ UNCHANGED <<container, leftover, device, gaveUp, cause, faultsSeen>>

AwaitDeleted(t) == thread[t].pc = "deleted" /\ Wait(t, device[t] = NoDevice, "cleanup")

(* Reads and writes of the device; a device without its controller raises an OSError. *)
DeviceWorks(t) == /\ device[t] # NoDevice
                  /\ container[t][device[t]] = "Up"

UseDevice(t) ==
    /\ \/ thread[t].pc = "write" /\ (IF DeviceWorks(t) THEN Goto(t, "snapshot") ELSE Goto(t, "raised"))
       \/ thread[t].pc = "write2" /\ (IF DeviceWorks(t) THEN Goto(t, "revert") ELSE Goto(t, "raised"))
       \/ thread[t].pc = "check" /\ (IF DeviceWorks(t) THEN Goto(t, "stop") ELSE Goto(t, "raised"))
    /\ cause' = IF DeviceWorks(t) THEN cause ELSE [cause EXCEPT ![t] = "io"]
    /\ UNCHANGED <<container, leftover, device, gaveUp, faultsSeen>>

(* A revert takes the device away; it comes back. *)
UseController(t) ==
    /\ \/ thread[t].pc = "snapshot" /\ Goto(t, "write2") /\ UNCHANGED <<device, cause, faultsSeen>>
       \/ /\ thread[t].pc = "revert" /\ Goto(t, "ready2")
          /\ device' = [device EXCEPT ![t] = NoDevice]
          /\ UNCHANGED <<cause, faultsSeen>>
       \/ /\ thread[t].pc \in {"snapshot", "revert"} /\ Raise(t, "command") /\ Fails
          /\ UNCHANGED device
    /\ UNCHANGED <<container, leftover, gaveUp>>

(* The results of docker stop and docker rm are not looked at. *)
StopController(t) ==
    /\ thread[t].pc = "stop" /\ Goto(t, "deleted")
    /\ \/ SetStatus(t, "Exited") /\ UNCHANGED faultsSeen
       \/ Fails /\ UNCHANGED container
    /\ UNCHANGED <<leftover, device, gaveUp, cause>>

Cleanup(t) ==
    /\ thread[t].pc = "cleanup"
    /\ \/ SetStatus(t, "") /\ UNCHANGED <<leftover, faultsSeen>>
       \/ /\ Fails /\ UNCHANGED container
          /\ leftover' = [leftover EXCEPT ![t] = @ \cup {thread[t].iteration}]
    /\ thread' = [thread EXCEPT ![t] =
          IF @.iteration = Iterations THEN [@ EXCEPT !.pc = "done"]
          ELSE [pc |-> "replicas", iteration |-> @.iteration + 1, count |-> 0]]
    /\ UNCHANGED <<device, gaveUp, cause>>

-----------------------------------------------------------------------------
(* The device of a controller that runs appears where no other is left. *)
DeviceAppears(t) ==
    /\ device[t] = NoDevice
    /\ \E i \in Iteration : container[t][i] = "Up" /\ device' = [device EXCEPT ![t] = i]
    /\ UNCHANGED <<thread, container, leftover, gaveUp, cause, faultsSeen>>

DeviceGoes(t) ==
    /\ device[t] # NoDevice /\ container[t][device[t]] # "Up"
    /\ device' = [device EXCEPT ![t] = NoDevice]
    /\ UNCHANGED <<thread, container, leftover, gaveUp, cause, faultsSeen>>

run_test(t) == \/ RunReplicas(t) \/ RunController(t) \/ Query(t)
               \/ AwaitReady(t) \/ UseDevice(t) \/ UseController(t)
               \/ StopController(t) \/ AwaitDeleted(t) \/ Cleanup(t)

Next == \E t \in Threads : run_test(t) \/ DeviceAppears(t) \/ DeviceGoes(t)

Spec == Init /\ [][Next]_vars

(***************************************************************************)
(* A process reads and writes the device of its own iteration, and none    *)
(* that a controller before it has left behind, unless one of its waits    *)
(* gave up: nothing else keeps two volumes of the same name apart.         *)
(***************************************************************************)
DeviceIsOwn ==
    \A t \in Threads :
       /\ thread[t].pc \in {"write", "snapshot", "write2", "check"} /\ ~gaveUp[t]
             => device[t] = thread[t].iteration
       /\ thread[t].pc = "raised" /\ cause[t] = "io" => gaveUp[t]

(***************************************************************************)
(* Docker's race ends a process only after MAX_RETRY attempts, or if       *)
(* another process' controller has a name that contains its own and is     *)
(* there in the same iteration.                                            *)
(***************************************************************************)
DockerRaceIsRetried ==
    \A t \in Threads :
       thread[t].pc = "raised" /\ cause[t] = "race"
          => thread[t].count = MAX_RETRY \/ Matching[t] # {t}
=============================================================================
