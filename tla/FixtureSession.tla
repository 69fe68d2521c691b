--------------------------- MODULE FixtureSession ---------------------------
(***************************************************************************)
(* src/engine/validation-test/storagetest/core/common_fixtures.py: the     *)
(* fixtures a test session sets up once, at the first test that asks for   *)
(* them, and the finalizers they register when they are complete.  pytest  *)
(* runs one fixture at a time, keeps what it returned or raised for the    *)
(* rest of the session, and runs the registered finalizers in the reverse  *)
(* order at its end.  The sessions share the hosts of a Rancher server and *)
(* use the same host ports and stack names: what one leaves behind is in   *)
(* the way of the next.                                                    *)
(*                                                                         *)
(* What is created, a container, a stack or a certificate, is an item of a *)
(* kind.  kube_hosts is modelled as it is without K8S_DEPLOY.              *)
(***************************************************************************)
EXTENDS Naturals, Sequences, FiniteSets

CONSTANTS
    Fixtures,
    MaxUsed,       \* bound: fixtures that the tests of the sessions use
    Hosts,         \* hosts there may be, by number
    OwnHosts,      \* those that are there at first
    ha_host_count, \* 4
    Sessions,      \* bound: sessions after each other
    MaxFaults      \* bound: requests and items that fail

Bounds == /\ Fixtures \subseteq {"host_ssh_containers", "socat_containers", "rancher_compose_container",
                                 "rancher_cli_container", "kube_hosts", "certs",
                                 "glusterfs_glusterconvoy", "ha_hosts"}
          /\ Hosts \subseteq Nat /\ OwnHosts \subseteq Hosts /\ OwnHosts # {}
          /\ {ha_host_count, MaxUsed, Sessions} \subseteq Nat \ {0} /\ MaxFaults \in Nat

VARIABLES
    host,      \* state of each host
    item,      \* what the sessions have created: kind, place, session, state
    session,   \* the session that runs
    status,    \* how the setup of each fixture ended in it
    registered, \* the fixtures whose finalizers are registered, the last one first
    run,       \* the fixture that is set up or finalized, and its next step
    failed,    \* history: fixtures that failed, with the session
    faulty,    \* history: those in which something other than a used port or name failed
    faultsSeen

vars == <<host, item, session, status, registered, run, failed, faulty, faultsSeen>>

Kinds == {"ssh", "socat", "host", "compose", "cli", "kubectl", "cert", "glusterfs", "convoy"}
Item == [kind : Kinds, place : Hosts, session : 1 .. Sessions,
         state : {"starting", "running", "error", "removing"}]

TypeOK ==
    /\ host \in [Hosts -> {"none", "own", "starting", "active", "error"}]
    /\ item \subseteq Item
    /\ session \in 1 .. Sessions
    /\ status \in [Fixtures -> {"unused", "unset", "done", "raised"}]
    /\ registered \in Seq(Fixtures)
    /\ run \in [pc : {"tests", "setup", "finalize", "await", "over"},
                f : Fixtures \cup {"none"}, step : 1 .. 6]
    /\ failed \subseteq Fixtures \X (1 .. Sessions) /\ faulty \subseteq failed
    /\ faultsSeen \in 0 .. MaxFaults

Idle == [pc |-> "tests", f |-> "none", step |-> 1]

Init == /\ host = [h \in Hosts |-> IF h \in OwnHosts THEN "own" ELSE "none"]
        /\ item = {} /\ session = 1
        /\ status \in [Fixtures -> {"unused", "unset"}]
        /\ Cardinality({f \in Fixtures : status[f] = "unset"}) \in 1 .. MaxUsed
        /\ registered = <<>> /\ run = Idle
        /\ failed = {} /\ faulty = {} /\ faultsSeen = 0

-----------------------------------------------------------------------------
(* The fixtures: what each does, step by step, before it registers its finalizer. *)
Create(kind) == [do |-> "create", kind |-> kind]
Await(kind) == [do |-> "await", kind |-> kind]
Check == [do |-> "check", kind |-> "none"]

host_ssh_containers == <<Create("ssh"), Await("ssh")>>
socat_containers == <<Create("socat"), Await("socat"), Create("host"), Await("host")>>
rancher_compose_container == <<Create("compose"), Await("compose"), Check>>
rancher_cli_container == <<Create("cli"), Await("cli"), Check>>
create_kubectl_client_container == <<Create("kubectl"), Await("kubectl")>>
kube_hosts == create_kubectl_client_container \o <<Check>>
certs == <<Create("cert"), Await("cert")>>
glusterfs_glusterconvoy == <<Create("glusterfs"), Await("glusterfs"),
                             Create("convoy"), Await("convoy"), Check>>
ha_hosts == <<[do |-> "addHosts", kind |-> "none"], [do |-> "awaitHosts", kind |-> "none"]>>

Steps(f) == CASE f = "host_ssh_containers" -> host_ssh_containers
              [] f = "socat_containers" -> socat_containers
              [] f = "rancher_compose_container" -> rancher_compose_container
              [] f = "rancher_cli_container" -> rancher_cli_container
              [] f = "kube_hosts" -> kube_hosts
              [] f = "certs" -> certs
              [] f = "glusterfs_glusterconvoy" -> glusterfs_glusterconvoy
              [] f = "ha_hosts" -> ha_hosts

KindsOf(f) == {Steps(f)[i].kind : i \in DOMAIN Steps(f)} \ {"none"}

(* Slip for ToRemove: only the first list of what the fixture has created. *)
ToRemoveFirst(f) == {i \in item : i.kind = Steps(f)[1].kind /\ i.session = session}

(* What a finalizer deletes; fin of host_ssh_containers does not wait for it. *)
ToRemove(f) == {i \in item : i.kind \in KindsOf(f) /\ i.session = session}
FinalizerWaits(f) == f # "host_ssh_containers"

(* Items of these kinds use a host port or a name that only one of them can have. *)
UsesName(kind) == kind \in {"glusterfs", "convoy"}
UsesPort(kind) == kind \in {"ssh", "socat", "compose", "cli", "kubectl"}

ActiveHosts == {h \in Hosts : host[h] \in {"own", "active"}}
FirstOf(S) == CHOOSE h \in S : \A g \in S : h <= g

(* host_ssh_containers lists the hosts of any state. *)
Places(kind) == CASE kind = "ssh" -> {h \in Hosts : host[h] # "none"}
                  [] kind \in {"socat", "host"} -> ActiveHosts
                  [] OTHER -> {FirstOf(ActiveHosts)}

-----------------------------------------------------------------------------
Fails == faultsSeen < MaxFaults /\ faultsSeen' = faultsSeen + 1

(* The fixture, or its finalizer, raises an exception. *)
Raised(byFault) ==
    /\ failed' = failed \cup {<<run.f, session>>}
    /\ IF byFault THEN Fails /\ faulty' = faulty \cup {<<run.f, session>>}
                  ELSE UNCHANGED <<faulty, faultsSeen>>

SetupRaises(byFault) ==
    /\ Raised(byFault)
    /\ status' = [status EXCEPT ![run.f] = "raised"] /\ run' = Idle
    /\ UNCHANGED <<session, registered>>

NoFailure == UNCHANGED <<failed, faulty, faultsSeen>>

Advance == /\ run' = [run EXCEPT !.step = @ + 1]
           /\ UNCHANGED <<session, status, registered>> /\ NoFailure

Step(do) == /\ run.pc = "setup" /\ run.step <= Len(Steps(run.f))
            /\ Steps(run.f)[run.step].do = do
Kind == Steps(run.f)[run.step].kind
Mine == {i \in item : i.kind = Kind /\ i.session = session}

(* A test asks for a fixture that no test before it has asked for. *)
RequestFixture(f) ==
    /\ run.pc = "tests" /\ status[f] = "unset"
    /\ run' = [pc |-> "setup", f |-> f, step |-> 1]
    /\ UNCHANGED <<host, item, session, status, registered>> /\ NoFailure

(***************************************************************************)
(* Items are created, one after the other: if a request fails, those       *)
(* before it are there.                                                    *)
(***************************************************************************)
NewItems == {[kind |-> Kind, place |-> h, session |-> session, state |-> "starting"] :
                h \in Places(Kind)}

NameIsUsed == UsesName(Kind) /\ \E i \in item : i.kind = Kind

CreateItems ==
    /\ Step("create")
    /\ \/ ~NameIsUsed /\ item' = item \cup NewItems /\ Advance
       \/ NameIsUsed /\ SetupRaises(FALSE) /\ UNCHANGED item
       \/ /\ SetupRaises(TRUE)
          /\ \E created \in SUBSET NewItems : created # NewItems /\ item' = item \cup created
    /\ UNCHANGED host

(* wait_success and wait_for_condition: an error, or too long a wait, is raised. *)
AwaitItems ==
    /\ Step("await")
    /\ \/ (\A i \in Mine : i.state = "running") /\ Advance
       \/ (\E i \in Mine : i.state = "error") /\ SetupRaises(FALSE)
       \/ (\E i \in Mine : i.state = "starting") /\ SetupRaises(TRUE)
    /\ UNCHANGED <<host, item>>

(* Something that is checked over ssh, or by a request. *)
CheckSetup ==
    /\ Step("check")
    /\ Advance \/ SetupRaises(TRUE)
    /\ UNCHANGED <<host, item>>

(***************************************************************************)
(* ha_hosts: hosts of the cloud provider are counted only if there are     *)
(* enough hosts of any kind.  add_digital_ocean_hosts creates the rest,    *)
(* unless it has no access key or a request fails: the hosts created       *)
(* before are there then.  It waits for them, here for those that a        *)
(* session before has left starting too.  Nothing removes them.            *)
(***************************************************************************)
Missing == ha_host_count -
              (IF Cardinality(ActiveHosts) >= ha_host_count
               THEN Cardinality({h \in Hosts : host[h] = "active"}) ELSE 0)

AddHosts ==
    /\ Step("addHosts")
    /\ \/ Missing <= 0 /\ UNCHANGED host /\ Advance
       \/ \E new \in SUBSET {h \in Hosts : host[h] = "none"} :
             /\ Cardinality(new) <= Missing
             /\ host' = [h \in Hosts |-> IF h \in new THEN "starting" ELSE host[h]]
             /\ IF Cardinality(new) = Missing THEN Advance ELSE SetupRaises(TRUE)
    /\ UNCHANGED item

AwaitHosts ==
    /\ Step("awaitHosts")
    /\ \/ (\A h \in Hosts : host[h] # "starting") /\ Advance /\ UNCHANGED host
       \/ \E h \in Hosts : /\ host[h] = "starting" /\ SetupRaises(TRUE)
                           /\ host' = [host EXCEPT ![h] = "error"]
    /\ UNCHANGED item

(* request.addfinalizer *)
CompleteFixture ==
    /\ run.pc = "setup" /\ run.step > Len(Steps(run.f))
    /\ registered' = IF KindsOf(run.f) = {} THEN registered ELSE <<run.f>> \o registered
    /\ status' = [status EXCEPT ![run.f] = "done"] /\ run' = Idle
    /\ UNCHANGED <<host, item, session>> /\ NoFailure

-----------------------------------------------------------------------------
(* The end of a session *)
FinalizeNext(rest) ==
    /\ registered' = rest
    /\ run' = IF rest = <<>> THEN [pc |-> "over", f |-> "none", step |-> 1]
              ELSE [pc |-> "finalize", f |-> Head(rest), step |-> 1]

EndTests == /\ run.pc = "tests"
            /\ FinalizeNext(registered)
            /\ UNCHANGED <<host, item, session, status>> /\ NoFailure

(* The session is killed: no finalizer runs. *)
KillSession ==
    /\ run.pc # "over" /\ Fails
    /\ run' = [pc |-> "over", f |-> "none", step |-> 1] /\ registered' = <<>>
    /\ LET used == {f \in Fixtures : status[f] # "unused"} IN
       /\ failed' = failed \cup (used \X {session})
       /\ faulty' = faulty \cup (used \X {session})
    /\ UNCHANGED <<host, item, session, status>>

Removing(S) == (item \ S) \cup {[i EXCEPT !.state = "removing"] : i \in S}

(* delete_all: after a request that fails nothing more is deleted. *)
DeleteItems ==
    /\ run.pc = "finalize"
    /\ \/ /\ item' = Removing(ToRemove(run.f)) /\ NoFailure
          /\ IF FinalizerWaits(run.f)
             THEN run' = [run EXCEPT !.pc = "await"] /\ UNCHANGED registered
             ELSE FinalizeNext(Tail(registered))
       \/ /\ Raised(TRUE) /\ FinalizeNext(Tail(registered))
          /\ \E deleted \in SUBSET ToRemove(run.f) : item' = Removing(deleted)
    /\ UNCHANGED <<host, session, status>>

AwaitDeleted ==
    /\ run.pc = "await"
    /\ FinalizeNext(Tail(registered))
    /\ \/ ToRemove(run.f) = {} /\ NoFailure
       \/ ToRemove(run.f) # {} /\ Raised(TRUE)
    /\ UNCHANGED <<host, item, session, status>>

StartSession ==
    /\ run.pc = "over" /\ session < Sessions
    /\ session' = session + 1 /\ run' = Idle
    /\ status' = [f \in Fixtures |-> IF status[f] = "unused" THEN "unused" ELSE "unset"]
    /\ UNCHANGED <<host, item, registered>> /\ NoFailure

-----------------------------------------------------------------------------
(* The Rancher server: a port is given to one item at a time. *)
PortIsUsed(i) == UsesPort(i.kind) /\ \E j \in item :
                    /\ j.kind = i.kind /\ j.place = i.place
                    /\ j.state \in {"running", "removing"}

Server ==
    /\ \/ \E i \in item :
             \/ /\ i.state = "starting" /\ UNCHANGED host
                /\ item' = (item \ {i}) \cup
                      {[i EXCEPT !.state = IF PortIsUsed(i) \/ host[i.place] = "error"
                                           THEN "error" ELSE "running"]}
             \/ i.state = "removing" /\ item' = item \ {i} /\ UNCHANGED host
       \/ \E h \in Hosts : /\ host[h] = "starting" /\ UNCHANGED item
                           /\ host' = [host EXCEPT ![h] = "active"]
    /\ UNCHANGED <<session, status, registered, run>> /\ NoFailure

Setup == CreateItems \/ AwaitItems \/ CheckSetup \/ AddHosts \/ AwaitHosts \/ CompleteFixture

Next == \/ \E f \in Fixtures : RequestFixture(f)
        \/ Setup \/ EndTests \/ KillSession \/ DeleteItems \/ AwaitDeleted
        \/ StartSession \/ Server

Spec == Init /\ [][Next]_vars

(***************************************************************************)
(* What a session leaves behind is of a fixture that raised an exception   *)
(* in it, before or in its finalizer, or of a session that was killed.     *)
(***************************************************************************)
LeftoversAreOfFailures ==
    run.pc = "over" =>
       \A i \in item : i.state # "removing" =>
          \E f \in Fixtures : i.kind \in KindsOf(f) /\ <<f, i.session>> \in failed

(***************************************************************************)
(* A fixture in which nothing goes wrong fails only if it has failed in an *)
(* earlier session, whose leftovers are in its way; if the finalizer of    *)
(* the session before did not wait for what it has deleted; or, for the    *)
(* one that takes any host, because of a host that ha_hosts left broken.   *)
(***************************************************************************)
FailsAfterFailures ==
    \A f \in Fixtures : <<f, session>> \in failed \ faulty =>
       \/ \E s \in 1 .. session - 1 : <<f, s>> \in faulty
       \/ ~FinalizerWaits(f) /\ (session > 1 \/ \E h \in Hosts : host[h] = "error")
=============================================================================
