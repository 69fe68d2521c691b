---------------------------- MODULE StackRecipes ----------------------------
(***************************************************************************)
(* src/engine/validation-test/storagetest/core/common_fixtures.py: the     *)
(* helpers that build a stack with services, load balancers and containers *)
(* for a test (create_env...).  Each is a sequence of requests; what is    *)
(* created is waited for and its state is asserted before the next.  Two   *)
(* of them activate the services as well, and overwrite the port rules     *)
(* they were called with: indexes of services become ids.                  *)
(*                                                                         *)
(* Images, ports and labels are not modelled.                              *)
(***************************************************************************)
EXTENDS Naturals, Sequences

CONSTANTS
    Count,         \* services behind a load balancer
    MaxCalls,      \* bound: helpers called
    MaxFaults      \* bound: requests and objects that fail

Bounds == {Count, MaxCalls} \subseteq Nat \ {0} /\ MaxFaults \in Nat

VARIABLES
    made,      \* what the call has created: kind, stack, state
    call,      \* the call: helper, step, crosslinking, whether it uses the shared rules
    rules,     \* what the serviceIds of the shared rules are
    calls,
    late,      \* history: the stack was done before one of its services had begun
    reused,    \* history: the call got rules that a call before had changed
    fewHosts,  \* history: the call wanted two active hosts and found fewer
    faultsSeen

vars == <<made, call, rules, calls, late, reused, fewHosts, faultsSeen>>

-----------------------------------------------------------------------------
(* The helpers.  "own" makes a stack only if the services are linked across stacks. *)
create_env == <<"stack", "await">>
create_svc == <<"service", "await">>
create_env_and_svc == create_env \o create_svc
create_lb == <<"lb", "await">>
create_env_with_svc_and_lb == create_env \o create_svc \o create_lb
create_env_with_2_svc == create_env \o create_svc \o create_svc
create_env_with_2_svc_hostnetwork == create_env \o create_svc \o create_svc
create_consumed_svc == <<"own", "await">> \o create_svc
create_env_with_2_svc_dns == create_env \o create_svc \o create_consumed_svc
                                \o create_consumed_svc \o <<"dns", "await">>
create_env_with_2_svc_dns_hostnetwork == create_env \o create_svc \o <<"hosts">>
                                            \o create_consumed_svc \o create_consumed_svc
                                            \o <<"dns", "await">>
create_con_list == <<"container", "container", "await">>
create_env_with_ext_svc == create_env \o create_svc \o create_con_list \o <<"external", "await">>
create_env_with_ext_svc_hostname == create_env \o create_svc \o <<"external", "await">>
create_env_with_ext_svc_and_lb == create_env_with_ext_svc \o create_lb
create_stack_with_service == <<"stack", "await", "started", "awaitServices">>

activate_services == <<"activate", "awaitStack", "awaitServices", "awaitLb">>
Services == [i \in 1 .. 4 * Count |-> create_consumed_svc[((i - 1) % 4) + 1]]
create_env_with_multiple_svc_and_lb ==
    create_env \o Services \o <<"rules">> \o create_lb \o activate_services
create_env_with_multiple_svc_and_ssl_lb == create_env_with_multiple_svc_and_lb

Helpers == {"svc", "svc_and_lb", "2_svc", "2_svc_hostnetwork", "2_svc_dns", "2_svc_dns_hostnetwork",
            "ext_svc", "ext_svc_hostname", "ext_svc_and_lb", "stack_with_service",
            "multiple_svc_and_lb", "multiple_svc_and_ssl_lb"}

Steps(helper) ==
    CASE helper = "svc" -> create_env_and_svc
      [] helper = "svc_and_lb" -> create_env_with_svc_and_lb
      [] helper = "2_svc" -> create_env_with_2_svc
      [] helper = "2_svc_hostnetwork" -> create_env_with_2_svc_hostnetwork
      [] helper = "2_svc_dns" -> create_env_with_2_svc_dns
      [] helper = "2_svc_dns_hostnetwork" -> create_env_with_2_svc_dns_hostnetwork
      [] helper = "ext_svc" -> create_env_with_ext_svc
      [] helper = "ext_svc_hostname" -> create_env_with_ext_svc_hostname
      [] helper = "ext_svc_and_lb" -> create_env_with_ext_svc_and_lb
      [] helper = "stack_with_service" -> create_stack_with_service
      [] helper = "multiple_svc_and_lb" -> create_env_with_multiple_svc_and_lb
      [] helper = "multiple_svc_and_ssl_lb" -> create_env_with_multiple_svc_and_ssl_lb

CanCrosslink == {"2_svc_dns", "2_svc_dns_hostnetwork", "multiple_svc_and_lb"}
HasRules == {"multiple_svc_and_lb", "multiple_svc_and_ssl_lb"}

-----------------------------------------------------------------------------
Kinds == {"stack", "service", "container", "external", "lb", "dns"}
States == {"creating", "inactive", "activating", "active", "running", "error"}

TypeOK ==
    /\ made \in Seq([kind : Kinds, main : BOOLEAN, state : States])
    /\ call \in [helper : Helpers \cup {"none"}, pc : {"called", "returned", "raised"},
                 step : Nat \ {0}, crosslinking : BOOLEAN, shared : BOOLEAN]
    /\ rules \in {"index", "id"} /\ calls \in 0 .. MaxCalls
    /\ {late, reused, fewHosts} \subseteq BOOLEAN /\ faultsSeen \in 0 .. MaxFaults

Init == /\ made = <<>> /\ rules = "index" /\ calls = 0
        /\ call = [helper |-> "none", pc |-> "returned", step |-> 1,
                   crosslinking |-> FALSE, shared |-> FALSE]
        /\ late = FALSE /\ reused = FALSE /\ fewHosts = FALSE /\ faultsSeen = 0

Fails == faultsSeen < MaxFaults /\ faultsSeen' = faultsSeen + 1
NoFailure == UNCHANGED faultsSeen

Step == Steps(call.helper)[call.step]
At(steps) == call.pc = "called" /\ Step \in steps

Advance == call' = IF call.step = Len(Steps(call.helper)) THEN [call EXCEPT !.pc = "returned"]
                   ELSE [call EXCEPT !.step = @ + 1]
Raise == call' = [call EXCEPT !.pc = "raised"]

(* A test calls a helper, with port rules of its own or with those it has used before. *)
CallHelper ==
    /\ call.pc \in {"returned", "raised"} /\ calls < MaxCalls /\ calls' = calls + 1
    /\ \E helper \in Helpers, crosslinking \in BOOLEAN, shared \in BOOLEAN :
          /\ crosslinking => helper \in CanCrosslink
          /\ shared => helper \in HasRules
          /\ call' = [helper |-> helper, pc |-> "called", step |-> 1,
                      crosslinking |-> crosslinking, shared |-> shared]
          /\ reused' = (shared /\ rules = "id")
    /\ made' = <<>> /\ late' = FALSE /\ fewHosts' = FALSE
    /\ UNCHANGED <<rules, faultsSeen>>

(* A request that creates something; a service goes into the stack made last. *)
LastStack == CHOOSE i \in DOMAIN made : /\ made[i].kind = "stack"
                                        /\ \A j \in i + 1 .. Len(made) : made[j].kind # "stack"
InMain(kind) == CASE kind = "stack" -> made = <<>>
                  [] kind = "service" -> made[LastStack].main
                  [] OTHER -> TRUE

Create ==
    /\ At(Kinds \cup {"own"})
    /\ LET kind == IF Step = "own" THEN "stack" ELSE Step IN
       \/ /\ ~(Step = "own" /\ ~call.crosslinking)
          /\ made' = Append(made, [kind |-> kind, main |-> InMain(kind), state |-> "creating"])
          /\ Advance /\ NoFailure
       \/ Step = "own" /\ ~call.crosslinking /\ Advance /\ UNCHANGED made /\ NoFailure
       \/ Raise /\ Fails /\ UNCHANGED made
    /\ UNCHANGED <<rules, calls, late, reused, fewHosts>>

(* The state that is asserted after wait_success; that of a DNS service is not. *)
Settled(kind) == CASE kind = "stack" -> "active"
                   [] kind = "container" -> "running"
                   [] OTHER -> "inactive"
Transitioning == {i \in DOMAIN made : made[i].state \in {"creating", "activating"}}
Asserted == {i \in DOMAIN made \ Transitioning :
                made[i].kind = "dns" \/ made[i].state = Settled(made[i].kind)}

(* Slip for Wait: the state is asserted at once. *)
WaitNot(S, fine) ==
    /\ IF S \subseteq fine THEN Advance ELSE Raise
    /\ UNCHANGED <<made, rules, calls, late, reused, fewHosts, faultsSeen>>

(* wait_success of one object of S after the other; each must then be in fine. *)
Wait(S, fine) ==
    /\ \/ S \subseteq fine /\ Advance /\ NoFailure
       \/ \E i \in S \ (fine \cup Transitioning) : /\ \A j \in S \ fine : j >= i
                                                 /\ Raise /\ NoFailure
       \/ S \cap Transitioning # {} /\ Raise /\ Fails
    /\ UNCHANGED <<made, rules, calls, late, reused, fewHosts>>

AwaitCreated == At({"await"}) /\ Wait(DOMAIN made, Asserted)

(* Two services are to be on different hosts: there must be two active ones. *)
ListHosts == /\ At({"hosts"})
             /\ \/ Advance /\ NoFailure /\ UNCHANGED fewHosts
                \/ Raise /\ NoFailure /\ fewHosts' = TRUE
                \/ Raise /\ Fails /\ UNCHANGED fewHosts
             /\ UNCHANGED <<made, rules, calls, late, reused>>

Override == /\ At({"rules"})
            /\ \/ ~call.shared /\ Advance /\ UNCHANGED rules
               \/ call.shared /\ rules = "index" /\ rules' = "id" /\ Advance
               \/ call.shared /\ rules = "id" /\ Raise /\ UNCHANGED rules
            /\ UNCHANGED <<made, calls, late, reused, fewHosts, faultsSeen>>

-----------------------------------------------------------------------------
OfMain(kinds) == {i \in DOMAIN made : made[i].main /\ made[i].kind \in kinds}
MainStack == OfMain({"stack"})

Activate ==
    /\ At({"activate"})
    /\ \/ /\ made' = [i \in DOMAIN made |-> IF i \in MainStack
                                            THEN [made[i] EXCEPT !.state = "activating"]
                                            ELSE made[i]]
          /\ Advance /\ NoFailure
       \/ Raise /\ Fails /\ UNCHANGED made
    /\ UNCHANGED <<rules, calls, late, reused, fewHosts>>

Active == {i \in DOMAIN made : made[i].state = "active"}

(* The state of the stack is not asserted; the services of other stacks are not waited for. *)
AwaitStack == At({"awaitStack"}) /\ Wait(MainStack, DOMAIN made \ Transitioning)

AwaitServices ==
    /\ At({"awaitServices"})
    /\ LET S == IF call.crosslinking THEN {} ELSE OfMain({"service"}) IN Wait(S, Active)

AwaitLb == At({"awaitLb"}) /\ Wait(OfMain({"lb"}), Active)

(* The services of a stack that is started as it is created (startOnCreate). *)
ListServices ==
    /\ At({"started"})
    /\ \E state \in {"activating", "active"} :
          made' = Append(made, [kind |-> "service", main |-> TRUE, state |-> state])
    /\ Advance /\ UNCHANGED <<rules, calls, late, reused, fewHosts, faultsSeen>>

-----------------------------------------------------------------------------
(* The Rancher server *)
Becomes(i, state) == made' = [made EXCEPT ![i].state = state]

Server ==
    /\ \E i \in DOMAIN made :
          \/ /\ made[i].state = "creating" /\ NoFailure /\ UNCHANGED late
             /\ Becomes(i, Settled(made[i].kind))
          \/ /\ i \in OfMain({"service", "lb"}) /\ made[i].state = "inactive"
             /\ call.step > 1 /\ "activate" \in {Steps(call.helper)[s] : s \in 1 .. call.step - 1}
             /\ Becomes(i, "activating") /\ NoFailure /\ UNCHANGED late
          \/ /\ made[i].state = "activating" /\ Becomes(i, "active") /\ NoFailure
             /\ late' = (late \/ (made[i].kind = "stack" /\
                                     \E s \in OfMain({"service", "lb"}) : made[s].state = "inactive"))
          \/ /\ made[i].state \in {"creating", "activating"} /\ Becomes(i, "error") /\ Fails
             /\ UNCHANGED late
    /\ UNCHANGED <<call, rules, calls, reused, fewHosts>>

Next == \/ CallHelper \/ Create \/ AwaitCreated \/ ListHosts \/ Override
        \/ Activate \/ ListServices \/ AwaitStack \/ AwaitServices \/ AwaitLb \/ Server

Spec == Init /\ [][Next]_vars

(***************************************************************************)
(* A helper raises an exception only if something failed, if the server    *)
(* was done with a stack before it had begun with one of its services, if  *)
(* it was given port rules that an earlier call has changed, as when a     *)
(* test is repeated, or if it wants two hosts and one at most is active.   *)
(***************************************************************************)
RaisesAreExplained == call.pc = "raised" => faultsSeen > 0 \/ late \/ reused \/ fewHosts

(***************************************************************************)
(* When a helper that activates returns, its services and its load         *)
(* balancer are active; those of other stacks are not its own to wait for. *)
(***************************************************************************)
ActivatedMeansActive ==
    call.pc = "returned" /\ call.helper \in HasRules =>
       OfMain({"lb"} \cup IF call.crosslinking THEN {} ELSE {"service"}) \subseteq Active
=============================================================================
