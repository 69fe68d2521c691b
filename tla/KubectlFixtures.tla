--------------------------- MODULE KubectlFixtures ---------------------------
(***************************************************************************)
(* src/engine/validation-test/storagetest/core/common_fixtures.py: the     *)
(* helpers that drive a Kubernetes cluster with kubectl in a container,    *)
(* over ssh (execute_kubectl_cmds and what calls it).  A helper changes    *)
(* something with one command and polls with others, and all it sees of    *)
(* them is what they print: a command that fails prints nothing, like one  *)
(* that finds nothing.                                                     *)
(*                                                                         *)
(* A name is a number, in the order in which kubectl lists the names.      *)
(***************************************************************************)
EXTENDS Naturals, FiniteSets

CONSTANTS
    Names,         \* namespaces
    Containing,    \* the names that contain each name
    Protected,     \* "default" and "kube-system"
    Pods,          \* pods a service's replication controller may have
    Scale,         \* of a service
    Addresses,     \* that the load balancers of an ingress may get
    ing_scale,
    Rounds,        \* 60, 6 for a pod: polls before a helper gives up
    MaxFaults      \* bound: commands that fail

Bounds == /\ Names \subseteq Nat /\ Protected \subseteq Names
          /\ Containing \in [Names -> SUBSET Names]
          /\ \A n \in Names : n \in Containing[n]
          /\ IsFiniteSet(Addresses)
          /\ {Scale, ing_scale, Rounds} \subseteq Nat \ {0} /\ MaxFaults \in Nat

VARIABLES
    namespace, \* phase of each namespace
    pod,       \* state of each pod of the service
    wanted,    \* whether the replication controller exists
    ingress,   \* whether the ingress exists, or is being deleted
    address,   \* the addresses in its status
    test,      \* the helper that was called: pc, argument, polls, result
    blind,     \* history: a command of the call failed
    slow,      \* history: a namespace was still there at the last poll for it
    faultsSeen

cluster == <<namespace, pod, wanted, ingress, address>>
vars == <<cluster, test, blind, slow, faultsSeen>>

TypeOK ==
    /\ namespace \in [Names -> {"none", "Active", "Terminating"}]
    /\ pod \in [Pods -> {"none", "Pending", "Running", "Deleting"}]
    /\ wanted \in BOOLEAN /\ ingress \in {"none", "there", "deleting"} /\ address \subseteq Addresses
    /\ test \in [op : {"none", "create_ns", "teardown_ns", "cleanup_k8s", "create_k8_service",
                       "waitfor_delete", "create_ingress", "delete_ingress"},
                 pc : {"returned", "raised", "create", "verify", "list", "delete", "gone", "service",
                       "pods", "names", "ips"},
                 n : Names \cup Pods \cup {0}, polls : 0 .. Rounds - 1,
                 left : SUBSET Names, names : SUBSET Pods, ips : 0 .. ing_scale + Cardinality(Addresses)]
    /\ blind \in BOOLEAN /\ slow \in BOOLEAN
    /\ faultsSeen \in 0 .. MaxFaults

Call(op, pc, n) == [op |-> op, pc |-> pc, n |-> n, polls |-> 0,
                    left |-> {}, names |-> {}, ips |-> 0]

(* An earlier session may have left namespaces. *)
Init == /\ namespace \in [Names -> {"none", "Active"}]
        /\ \A n \in Protected : namespace[n] = "Active"
        /\ pod = [p \in Pods |-> "none"] /\ wanted = FALSE
        /\ ingress = "none" /\ address = {}
        /\ test = Call("none", "returned", 0)
        /\ blind = FALSE /\ slow = FALSE /\ faultsSeen = 0

Goto(pc) == test' = [test EXCEPT !.pc = pc, !.polls = 0]

At(op, pc) == test.op = op /\ test.pc = pc

Listed(n) == namespace[n] # "none"
PodsListed == {p \in Pods : pod[p] # "none"}

-----------------------------------------------------------------------------
(***************************************************************************)
(* execute_kubectl_cmds.  A command that is refused or fails prints its    *)
(* reason as an error, which nobody reads: the response is empty.          *)
(***************************************************************************)
Succeeds == UNCHANGED <<blind, slow, faultsSeen>>

Fails == /\ faultsSeen < MaxFaults /\ faultsSeen' = faultsSeen + 1
         /\ blind' = TRUE /\ UNCHANGED <<cluster, slow>>

(* The response does not have what is expected: an AssertionError.  Empty json: a ValueError. *)
Refused(allowed) == /\ Goto("raised")
                    /\ \/ ~allowed /\ UNCHANGED cluster /\ Succeeds
                       \/ Fails

(* Slip for Again: one poll too many. *)
AgainOnceMore == \/ test.polls < Rounds /\ test' = [test EXCEPT !.polls = @ + 1]
                 \/ test.polls = Rounds /\ Goto("raised")

(* A poll that did not see what it waits for. *)
Again == \/ test.polls + 1 < Rounds /\ test' = [test EXCEPT !.polls = @ + 1]
         \/ test.polls + 1 = Rounds /\ Goto("raised")

(* Waits until something is no longer in the response. *)
AwaitGone(listed) ==
    \/ listed /\ Again /\ Succeeds /\ UNCHANGED cluster
    \/ ~listed /\ Goto("returned") /\ Succeeds /\ UNCHANGED cluster
    \/ Goto("returned") /\ Fails

-----------------------------------------------------------------------------
(* create_ns *)
CreateNamespace ==
    /\ At("create_ns", "create")
    /\ LET allowed == namespace[test.n] = "none" IN
       \/ /\ allowed /\ Goto("verify") /\ Succeeds
          /\ namespace' = [namespace EXCEPT ![test.n] = "Active"]
          /\ UNCHANGED <<pod, wanted, ingress, address>>
       \/ Refused(allowed)

VerifyNamespace ==
    /\ At("create_ns", "verify")
    /\ LET allowed == namespace[test.n] = "Active" IN
       \/ allowed /\ Goto("returned") /\ Succeeds /\ UNCHANGED cluster
       \/ Refused(allowed)

(***************************************************************************)
(* teardown_ns, called by a test or by cleanup_k8s for one namespace after *)
(* the other.  It polls the list of all namespaces for the name.           *)
(***************************************************************************)
DeleteNamespace ==
    /\ test.op \in {"teardown_ns", "cleanup_k8s"} /\ test.pc = "delete"
    /\ LET allowed == namespace[test.n] = "Active" /\ test.n \notin Protected IN
       \/ /\ allowed /\ Goto("gone") /\ Succeeds
          /\ namespace' = [namespace EXCEPT ![test.n] = "Terminating"]
          /\ UNCHANGED <<pod, wanted, ingress, address>>
       \/ Refused(allowed)

(* Slip for InResponse: a namespace that is terminating counts as gone. *)
ActiveInResponse(n) == \E m \in Containing[n] : namespace[m] = "Active"

InResponse(n) == \E m \in Containing[n] : Listed(m)

First(S) == CHOOSE n \in S : \A m \in S : n <= m

(* The next of the namespaces that cleanup_k8s has listed, in their order. *)
NextNamespace(left) ==
    IF left = {} THEN Goto("returned")
    ELSE test' = [test EXCEPT !.pc = "delete", !.polls = 0,
                              !.n = First(left), !.left = left \ {First(left)}]

PollNamespaces ==
    /\ test.op \in {"teardown_ns", "cleanup_k8s"} /\ test.pc = "gone"
    /\ \/ /\ InResponse(test.n) /\ Again /\ UNCHANGED <<cluster, blind, faultsSeen>>
          /\ slow' = (slow \/ (test.polls + 1 = Rounds /\ Listed(test.n)))
       \/ ~InResponse(test.n) /\ NextNamespace(test.left) /\ Succeeds /\ UNCHANGED cluster
       \/ NextNamespace(test.left) /\ Fails

(* get_all_ns and the loop of cleanup_k8s *)
ToCleanUp == {n \in Names : Listed(n)} \ Protected

ListNamespaces ==
    /\ At("cleanup_k8s", "list")
    /\ \/ NextNamespace(ToCleanUp) /\ Succeeds /\ UNCHANGED cluster
       \/ Goto("raised") /\ Fails

-----------------------------------------------------------------------------
(* create_k8_service: the controller and the service, then waitfor_pods ... *)
CreateService ==
    /\ At("create_k8_service", "service")
    /\ \/ /\ ~wanted /\ Goto("pods") /\ Succeeds
          /\ wanted' = TRUE /\ UNCHANGED <<namespace, pod, ingress, address>>
       \/ Refused(~wanted)

(* A pod that is being deleted is still listed, and its phase is Running. *)
PhaseRunning(p) == pod[p] \in {"Running", "Deleting"}

AllRunning == /\ Cardinality(PodsListed) >= Scale
              /\ \A p \in PodsListed : PhaseRunning(p)

waitfor_pods ==
    /\ At("create_k8_service", "pods")
    /\ \/ AllRunning /\ Goto("names") /\ Succeeds /\ UNCHANGED cluster
       \/ ~AllRunning /\ Again /\ Succeeds /\ UNCHANGED cluster
       \/ Goto("raised") /\ Fails

(* ... and get_pod_names_for_selector, in create_service_ingress. *)
get_pod_names_for_selector ==
    /\ At("create_k8_service", "names")
    /\ LET allowed == Cardinality(PodsListed) = Scale IN
       \/ /\ allowed /\ test' = [test EXCEPT !.pc = "returned", !.names = PodsListed]
          /\ Succeeds /\ UNCHANGED cluster
       \/ Refused(allowed)

(* A test deletes a pod and waits for it: the response is then empty. *)
DeletePod ==
    /\ At("waitfor_delete", "delete")
    /\ \/ /\ pod[test.n] # "none" /\ Goto("gone") /\ Succeeds
          /\ pod' = [pod EXCEPT ![test.n] = "Deleting"]
          /\ UNCHANGED <<namespace, wanted, ingress, address>>
       \/ Refused(pod[test.n] # "none")

waitfor_delete ==
    /\ At("waitfor_delete", "gone")
    /\ AwaitGone(pod[test.n] # "none")

-----------------------------------------------------------------------------
(* create_ingress *)
CreateIngress ==
    /\ At("create_ingress", "create")
    /\ \/ /\ ingress = "none" /\ Goto("ips") /\ Succeeds
          /\ ingress' = "there" /\ UNCHANGED <<namespace, pod, wanted, address>>
       \/ Refused(ingress = "none")

(***************************************************************************)
(* wait_for_ingress_to_become_active: each round appends all the addresses *)
(* of the status, those of the rounds before again.                        *)
(***************************************************************************)
wait_for_ingress_to_become_active ==
    /\ At("create_ingress", "ips")
    /\ LET ips == test.ips + Cardinality(address) IN
       \/ /\ ips >= ing_scale /\ test' = [test EXCEPT !.pc = "returned", !.ips = ips]
          /\ Succeeds /\ UNCHANGED cluster
       \/ /\ ips < ing_scale /\ Succeeds /\ UNCHANGED cluster
          /\ IF test.polls + 1 < Rounds
             THEN test' = [test EXCEPT !.polls = @ + 1, !.ips = ips]
             ELSE Goto("raised")
       \/ Goto("raised") /\ Fails

delete_ingress ==
    /\ At("delete_ingress", "delete")
    /\ \/ /\ ingress = "there" /\ Goto("gone") /\ Succeeds
          /\ ingress' = "deleting" /\ UNCHANGED <<namespace, pod, wanted, address>>
       \/ Refused(ingress = "there")

PollIngress == At("delete_ingress", "gone") /\ AwaitGone(ingress # "none")

-----------------------------------------------------------------------------
(* The tests call one helper after the other, also after one has raised. *)
NextCall ==
    /\ test.pc \in {"returned", "raised"}
    /\ \/ \E n \in Names \ Protected : \/ test' = Call("create_ns", "create", n)
                                       \/ test' = Call("teardown_ns", "delete", n)
       \/ test' = Call("cleanup_k8s", "list", 0)
       \/ test' = Call("create_k8_service", "service", 0)
       \/ \E p \in Pods : test' = Call("waitfor_delete", "delete", p)
       \/ test' = Call("create_ingress", "create", 0)
       \/ test' = Call("delete_ingress", "delete", 0)
    /\ blind' = FALSE /\ UNCHANGED <<cluster, slow, faultsSeen>>

(* The cluster does what was asked of it; a pod may fail and is replaced by one of another name. *)
Cluster ==
    /\ \/ \E n \in Names : /\ namespace[n] = "Terminating"
                           /\ namespace' = [namespace EXCEPT ![n] = "none"]
                           /\ UNCHANGED <<pod, wanted, ingress, address>>
       \/ \E p \in Pods :
             /\ \/ pod[p] = "none" /\ wanted /\ p # test.n /\ pod' = [pod EXCEPT ![p] = "Pending"]
                   /\ Cardinality({q \in PodsListed : pod[q] # "Deleting"}) < Scale
                \/ pod[p] = "Pending" /\ pod' = [pod EXCEPT ![p] = "Running"]
                \/ pod[p] = "Running" /\ pod' = [pod EXCEPT ![p] = "Deleting"]
                \/ pod[p] = "Deleting" /\ pod' = [pod EXCEPT ![p] = "none"]
             /\ UNCHANGED <<namespace, wanted, ingress, address>>
       \/ \E a \in Addresses \ address :
             /\ ingress = "there" /\ address' = address \cup {a}
             /\ UNCHANGED <<namespace, pod, wanted, ingress>>
       \/ /\ ingress = "deleting" /\ ingress' = "none" /\ address' = {}
          /\ UNCHANGED <<namespace, pod, wanted>>
    /\ UNCHANGED <<test, blind, slow, faultsSeen>>

Helper == \/ CreateNamespace \/ VerifyNamespace \/ DeleteNamespace \/ PollNamespaces
          \/ ListNamespaces \/ CreateService \/ waitfor_pods \/ get_pod_names_for_selector
          \/ DeletePod \/ waitfor_delete \/ CreateIngress
          \/ wait_for_ingress_to_become_active \/ delete_ingress \/ PollIngress

Next == NextCall \/ Helper \/ Cluster

Spec == Init /\ [][Next]_vars

(***************************************************************************)
(* A helper that waits for something to be deleted returns only when it is *)
(* gone, and cleanup_k8s when no namespace of a test is left, if none of   *)
(* its commands failed: a poll that fails looks like one that found        *)
(* nothing.                                                                *)
(***************************************************************************)
DeletedMeansGone ==
    test.pc = "returned" /\ ~blind =>
       /\ test.op = "teardown_ns" => namespace[test.n] = "none"
       /\ test.op = "cleanup_k8s" => ToCleanUp = {}
       /\ test.op = "waitfor_delete" => pod[test.n] # "Deleting"
       /\ test.op = "delete_ingress" => ingress = "none"

(***************************************************************************)
(* cleanup_k8s, which runs before the first test, ends without an error,   *)
(* whatever namespaces an earlier session has left, unless a command       *)
(* failed, a deletion took longer than a helper waits, or the name of the  *)
(* namespace is a part of another's, for which teardown_ns then waits.     *)
(***************************************************************************)
CleanupEndsWell ==
    test.pc = "raised" /\ test.op = "cleanup_k8s" =>
       \/ faultsSeen > 0 \/ slow
       \/ \E m \in Containing[test.n] \ {test.n} : Listed(m)
=============================================================================
