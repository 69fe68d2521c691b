---------------------------- MODULE RancherSetup ----------------------------
(***************************************************************************)
(* src/engine/environment-setup: setupRancher.py creates two servers at    *)
(* one cloud provider and hosts at another, each host by a thread that     *)
(* registers it with the server over ssh; teardownRancher.py removes them. *)
(* A job runs the one and then the other, also when the first was aborted. *)
(* Jobs have names of their own for their machines, but all of them use    *)
(* one label for the ssh key of the project at the second provider, and a  *)
(* host accepts the key that is there when it is created.                  *)
(***************************************************************************)
EXTENDS Naturals, FiniteSets

CONSTANTS
    Jobs,
    Hosts,         \* packet_host_names
    Attempts,      \* retries + 1: 11 when registering, 6 when deleting
    MaxErrors      \* bound: requests that fail

Bounds == /\ Attempts \in Nat \ {0} /\ MaxErrors \in Nat
          /\ Jobs \cap {"nobody", "none", "queued"} = {}

VARIABLES
    key,       \* the job whose key is stored under key_label
    server,    \* the servers each job has at the first provider
    device,    \* the devices of each job: the job whose key they accept, or a state
    inFlight,  \* create_device requests that have been sent
    job,       \* the job's scripts: pc, attempts, what the teardown has still to delete
    worker,    \* the thread of each host
    fileWritten, \* the property file
    lost,      \* history: machines the teardown did not see, or gave up on
    errorsSeen

vars == <<key, server, device, inFlight, job, worker, fileWritten, lost, errorsSeen>>

Servers == {"nfs", "rancher"}
Nobody == "nobody"
NoDevice == "none"

TypeOK ==
    /\ key \in Jobs \cup {Nobody}
    /\ server \in [Jobs -> SUBSET Servers]
    /\ device \in [Jobs -> [Hosts -> {NoDevice, "queued"} \cup Jobs]]
    /\ inFlight \in [Jobs -> SUBSET Hosts]
    /\ job \in [Jobs -> [pc : {"nfs", "rancher", "token", "poll", "upload", "join",
                               "raised", "aborted", "written",
                               "devices", "delete", "servers", "deleteServers", "done", "failed"},
                         attempt : 0 .. Attempts - 1, todo : SUBSET Hosts, left : SUBSET Servers]]
    /\ worker \in [Jobs -> [Hosts -> [pc : {"none", "create", "sent", "wait", "register",
                                            "registered", "raised"},
                                      attempt : 0 .. Attempts - 1]]]
    /\ fileWritten \in [Jobs -> BOOLEAN]
    /\ lost \in [Jobs -> SUBSET (Hosts \cup Servers)]
    /\ errorsSeen \in 0 .. MaxErrors

Init == /\ key = Nobody
        /\ server = [j \in Jobs |-> {}]
        /\ device = [j \in Jobs |-> [h \in Hosts |-> NoDevice]]
        /\ inFlight = [j \in Jobs |-> {}]
        /\ job = [j \in Jobs |-> [pc |-> "nfs", attempt |-> 0, todo |-> {}, left |-> {}]]
        /\ worker = [j \in Jobs |-> [h \in Hosts |-> [pc |-> "none", attempt |-> 0]]]
        /\ fileWritten = [j \in Jobs |-> FALSE]
        /\ lost = [j \in Jobs |-> {}] /\ errorsSeen = 0

Fails == errorsSeen < MaxErrors /\ errorsSeen' = errorsSeen + 1

Goto(j, pc) == job' = [job EXCEPT ![j].pc = pc, ![j].attempt = 0]

(* Slip for Retry: one attempt too many. *)
RetryOnceMore(record, after) == IF record.attempt < Attempts
                                THEN [record EXCEPT !.attempt = @ + 1]
                                ELSE [record EXCEPT !.pc = after, !.attempt = 0]

(***************************************************************************)
(* A loop that tries Attempts times: another attempt, or what comes after  *)
(* the last.                                                               *)
(***************************************************************************)
Retry(record, after) == IF record.attempt + 1 < Attempts
                        THEN [record EXCEPT !.attempt = @ + 1]
                        ELSE [record EXCEPT !.pc = after, !.attempt = 0]

-----------------------------------------------------------------------------
(* setupRancher.py: main *)

SetupOnly == UNCHANGED <<device, inFlight, worker, lost>>

(***************************************************************************)
(* gce_create_server: the instance is asked for and waited for; an error   *)
(* of the operation is raised, and may leave an instance.                  *)
(***************************************************************************)
gce_wait_for_operation(j, next) == \/ Goto(j, next) /\ UNCHANGED errorsSeen
                                   \/ Goto(j, "raised") /\ Fails

gce_create_server(j, name, next) ==
    /\ job[j].pc = name
    /\ gce_wait_for_operation(j, next)
    /\ LET created == [server EXCEPT ![j] = @ \cup {name}] IN
       server' = created \/ (errorsSeen' # errorsSeen /\ server' = server)
    /\ SetupOnly /\ UNCHANGED <<key, fileWritten>>

(* cattle_get_host_registration_command: the post, which is retried ... *)
PostToken(j) ==
    /\ job[j].pc = "token"
    /\ \/ Goto(j, "poll") /\ UNCHANGED errorsSeen
       \/ Fails /\ job' = [job EXCEPT ![j] = Retry(@, "raised")]
    /\ SetupOnly /\ UNCHANGED <<key, server, fileWritten>>

(* ... and the polls until the token is active, which are not. *)
PollToken(j) ==
    /\ job[j].pc = "poll"
    /\ \/ Goto(j, "upload") /\ UNCHANGED errorsSeen
       \/ Fails /\ Goto(j, "raised")
    /\ SetupOnly /\ UNCHANGED <<key, server, fileWritten>>

(* The key under the label is replaced, whoever stored it.  The threads are started. *)
packet_upload_key(j) ==
    /\ job[j].pc = "upload"
    /\ \/ /\ key' = j /\ Goto(j, "join")
          /\ worker' = [worker EXCEPT ![j] = [h \in Hosts |-> [pc |-> "create", attempt |-> 0]]]
          /\ UNCHANGED errorsSeen
       \/ Fails /\ Goto(j, "raised") /\ UNCHANGED <<key, worker>>
    /\ UNCHANGED <<server, device, inFlight, fileWritten, lost>>

(* Slip for WritePropertyFile: the threads are not joined. *)
WriteWithoutJoin(j) ==
    /\ job[j].pc = "join"
    /\ fileWritten' = [fileWritten EXCEPT ![j] = TRUE]
    /\ Goto(j, "written")
    /\ SetupOnly /\ UNCHANGED <<key, server, errorsSeen>>

(* join returns when a thread has ended, also with an exception. *)
WritePropertyFile(j) ==
    /\ job[j].pc = "join"
    /\ \A h \in Hosts : worker[j][h].pc \in {"registered", "raised"}
    /\ fileWritten' = [fileWritten EXCEPT ![j] = TRUE]
    /\ Goto(j, "written")
    /\ SetupOnly /\ UNCHANGED <<key, server, errorsSeen>>

(***************************************************************************)
(* The job is aborted: its threads end with the script, and requests that  *)
(* were sent are served all the same.                                      *)
(***************************************************************************)
Abort(j) ==
    /\ job[j].pc \in {"nfs", "rancher", "token", "poll", "upload", "join"}
    /\ Fails /\ Goto(j, "aborted")
    /\ worker' = [worker EXCEPT ![j] = [h \in Hosts |-> [pc |-> "none", attempt |-> 0]]]
    /\ UNCHANGED <<key, server, device, inFlight, fileWritten, lost>>

-----------------------------------------------------------------------------
(* packet_create_register_host: the thread of a host *)

WorkerOnly == UNCHANGED <<key, server, job, fileWritten, lost>>

CreateDevice(j, h) ==
    /\ worker[j][h].pc = "create"
    /\ \/ /\ worker' = [worker EXCEPT ![j][h].pc = "sent"]
          /\ inFlight' = [inFlight EXCEPT ![j] = @ \cup {h}]
          /\ UNCHANGED errorsSeen
       \/ Fails /\ worker' = [worker EXCEPT ![j][h].pc = "raised"] /\ UNCHANGED inFlight
    /\ WorkerOnly /\ UNCHANGED device

(* The provider. *)
ServeCreate(j, h) ==
    /\ h \in inFlight[j]
    /\ inFlight' = [inFlight EXCEPT ![j] = @ \ {h}]
    /\ device' = [device EXCEPT ![j][h] = "queued"]
    /\ worker' = [worker EXCEPT ![j][h].pc = IF @ = "sent" THEN "wait" ELSE @]
    /\ WorkerOnly /\ UNCHANGED errorsSeen

DeviceActive(j, h) ==
    /\ device[j][h] = "queued" /\ key # Nobody
    /\ device' = [device EXCEPT ![j][h] = key]
    /\ WorkerOnly /\ UNCHANGED <<worker, inFlight, errorsSeen>>

(* packet_wait_for_creation has no timeout; an error ends the thread. *)
AwaitActive(j, h) ==
    /\ worker[j][h].pc = "wait"
    /\ \/ /\ device[j][h] \notin {NoDevice, "queued"}
          /\ worker' = [worker EXCEPT ![j][h].pc = "register"]
          /\ UNCHANGED errorsSeen
       \/ Fails /\ worker' = [worker EXCEPT ![j][h].pc = "raised"]
    /\ WorkerOnly /\ UNCHANGED <<device, inFlight>>

(* ssh fails if the host has another key, or for a reason of its own. *)
packet_register_to_cattle(j, h) ==
    /\ worker[j][h].pc = "register"
    /\ \/ /\ device[j][h] = j
          /\ worker' = [worker EXCEPT ![j][h].pc = "registered"]
          /\ UNCHANGED errorsSeen
       \/ /\ worker' = [worker EXCEPT ![j][h] = Retry(@, "raised")]
          /\ IF device[j][h] = j THEN Fails ELSE UNCHANGED errorsSeen
    /\ WorkerOnly /\ UNCHANGED <<device, inFlight>>

-----------------------------------------------------------------------------
(* teardownRancher.py *)

TeardownOnly == UNCHANGED <<key, inFlight, worker, fileWritten>>

(* The job goes on to the teardown, however the setup ended. *)
StartTeardown(j) ==
    /\ job[j].pc \in {"written", "raised", "aborted"}
    /\ \A h \in Hosts : worker[j][h].pc \in {"none", "registered", "raised"}
    /\ Goto(j, "devices")
    /\ TeardownOnly /\ UNCHANGED <<server, device, lost, errorsSeen>>

(* Slip for ListDevices: only devices that are active. *)
ListActiveDevices(j) ==
    /\ job[j].pc = "devices"
    /\ job' = [job EXCEPT ![j].pc = "delete", ![j].todo = {h \in Hosts : device[j][h] \in Jobs}]
    /\ lost' = [lost EXCEPT ![j] = @ \cup inFlight[j]]
    /\ TeardownOnly /\ UNCHANGED <<server, device, errorsSeen>>

ListDevices(j) ==
    /\ job[j].pc = "devices"
    /\ \/ /\ job' = [job EXCEPT ![j].pc = "delete",
                                ![j].todo = {h \in Hosts : device[j][h] # NoDevice}]
          /\ lost' = [lost EXCEPT ![j] = @ \cup inFlight[j]]
          /\ UNCHANGED errorsSeen
       \/ Fails /\ Goto(j, "failed") /\ UNCHANGED lost
    /\ TeardownOnly /\ UNCHANGED <<server, device>>

(***************************************************************************)
(* packet_remove_devices: one device of the list after the other, until it *)
(* is deleted or has been tried for often enough, which nobody is told.    *)
(***************************************************************************)
OneOf(S) == CHOOSE x \in S : TRUE

DeletionFails(j, name, after) ==
    /\ Fails
    /\ IF job[j].attempt + 1 < Attempts
       THEN job' = [job EXCEPT ![j].attempt = @ + 1] /\ UNCHANGED lost
       ELSE job' = [job EXCEPT ![j] = after] /\ lost' = [lost EXCEPT ![j] = @ \cup {name}]

DeleteDevice(j) ==
    /\ job[j].pc = "delete"
    /\ \/ /\ job[j].todo # {}
          /\ LET h == OneOf(job[j].todo)
                 after == [job[j] EXCEPT !.todo = @ \ {h}, !.attempt = 0] IN
             \/ /\ device' = [device EXCEPT ![j][h] = NoDevice]
                /\ job' = [job EXCEPT ![j] = after]
                /\ UNCHANGED <<lost, errorsSeen>>
             \/ DeletionFails(j, h, after) /\ UNCHANGED device
       \/ /\ job[j].todo = {} /\ Goto(j, "servers")
          /\ UNCHANGED <<device, lost, errorsSeen>>
    /\ TeardownOnly /\ UNCHANGED server

(* gce_delete_servers: a list without instances has no 'items', a KeyError. *)
ListServers(j) ==
    /\ job[j].pc = "servers"
    /\ \/ /\ IF \A i \in Jobs : server[i] = {}
             THEN Goto(j, "done")
             ELSE job' = [job EXCEPT ![j].pc = "deleteServers", ![j].left = server[j]]
          /\ UNCHANGED errorsSeen
       \/ Fails /\ Goto(j, "failed")
    /\ TeardownOnly /\ UNCHANGED <<server, device, lost>>

DeleteServer(j) ==
    /\ job[j].pc = "deleteServers"
    /\ \/ /\ job[j].left # {}
          /\ LET s == OneOf(job[j].left)
                 after == [job[j] EXCEPT !.left = @ \ {s}, !.attempt = 0] IN
             \/ /\ server' = [server EXCEPT ![j] = @ \ {s}]
                /\ job' = [job EXCEPT ![j] = after]
                /\ UNCHANGED <<lost, errorsSeen>>
             \/ DeletionFails(j, s, after) /\ UNCHANGED server
       \/ job[j].left = {} /\ Goto(j, "done") /\ UNCHANGED <<server, lost, errorsSeen>>
    /\ TeardownOnly /\ UNCHANGED device

-----------------------------------------------------------------------------
Setup(j) == \/ gce_create_server(j, "nfs", "rancher") \/ gce_create_server(j, "rancher", "token")
            \/ PostToken(j) \/ PollToken(j) \/ packet_upload_key(j) \/ WritePropertyFile(j)

Worker(j, h) == CreateDevice(j, h) \/ AwaitActive(j, h) \/ packet_register_to_cattle(j, h)

Teardown(j) == \/ StartTeardown(j) \/ ListDevices(j) \/ DeleteDevice(j)
               \/ ListServers(j) \/ DeleteServer(j)

Next == \E j \in Jobs :
           \/ Setup(j) \/ Abort(j) \/ Teardown(j)
           \/ \E h \in Hosts : Worker(j, h) \/ ServeCreate(j, h) \/ DeviceActive(j, h)

Spec == Init /\ [][Next]_vars

(***************************************************************************)
(* If nothing failed and no other job has stored its key, the property     *)
(* file says what the comment before the join says: all hosts are there    *)
(* and registered.  The file does not depend on it, because an exception   *)
(* of a thread is lost; another job's key is enough to lose the hosts.     *)
(***************************************************************************)
FileMeansRegistered ==
    \A j \in Jobs :
       job[j].pc = "written" =>
          \/ \A h \in Hosts : worker[j][h].pc = "registered"
          \/ errorsSeen > 0
          \/ \E h \in Hosts : device[j][h] \in Jobs \ {j}

(***************************************************************************)
(* A teardown leaves no machine of its job, except those whose deletion    *)
(* failed as often as it is tried and devices that were asked for when     *)
(* the job was aborted and came into being after they were listed.  (It    *)
(* may fail before it has deleted all: one error in a list is enough.)     *)
(***************************************************************************)
TeardownLeavesNothing ==
    \A j \in Jobs : job[j].pc = "done" =>
       /\ {h \in Hosts : device[j][h] # NoDevice} \subseteq lost[j]
       /\ server[j] \subseteq lost[j]
=============================================================================
