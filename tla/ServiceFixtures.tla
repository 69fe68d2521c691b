--------------------------- MODULE ServiceFixtures ---------------------------
(***************************************************************************)
(* src/engine/validation-test/storagetest/core/common_fixtures.py: the     *)
(* helpers that activate, scale, stop and check a service and the load     *)
(* balancer before it.  The Rancher server keeps a service at its scale in *)
(* the background: a helper that has stopped a container waits until the   *)
(* service is "active", which it may still be because the server has not   *)
(* noticed yet, and reads the containers one after the other.  The load    *)
(* balancer follows the containers some time later.                        *)
(***************************************************************************)
EXTENDS Naturals, Sequences, FiniteSets

CONSTANTS
    Containers,    \* that the server may create for the service
    Unmanaged,     \* containers that belong to the service by its selector
    Scale,
    Extra          \* 10, 5 for ssl: requests that repeat the order of the first ones

Bounds == /\ {Scale, Extra} \subseteq Nat \ {0} /\ IsFiniteSet(Containers \cup Unmanaged)
          /\ Cardinality(Containers) >= Scale /\ Containers \cap Unmanaged = {}

VARIABLES
    service,   \* state of the service
    con,       \* state of each container
    backends,  \* the order in which the load balancer takes the containers
    turn,      \* its next one
    helper,    \* the helper that was called
    reloaded   \* history: the load balancer was configured anew during or after the call

vars == <<service, con, backends, turn, helper, reloaded>>

All == Containers \cup Unmanaged

TypeOK ==
    /\ service \in {"inactive", "activating", "active", "updating", "deactivating"}
    /\ con \in [All -> {"none", "starting", "running", "stopping", "stopped", "removing"}]
    /\ backends \in Seq(All) /\ turn \in Nat \ {0}
    /\ helper \in [op : {"none", "activate", "scale", "stop", "delete", "restart",
                         "deactivate", "balancer"},
                   pc : {"called", "acted", "active", "maps", "read", "inspect", "running",
                         "access", "first", "again", "returned", "raised"},
                   todo : SUBSET All, seen : SUBSET All, order : Seq(All), sent : 0 .. Extra]
    /\ reloaded \in BOOLEAN

Call(op, todo) == [op |-> op, pc |-> "called", todo |-> todo, seen |-> {},
                   order |-> <<>>, sent |-> 0]

Init == /\ service = "inactive"
        /\ \E there \in SUBSET Unmanaged :
              con = [c \in All |-> IF c \in there THEN "running" ELSE "none"]
        /\ backends = <<>> /\ turn = 1
        /\ helper = [Call("none", {}) EXCEPT !.pc = "returned"]
        /\ reloaded = FALSE

At(ops, pc) == helper.op \in ops /\ helper.pc = pc
Goto(pc) == helper' = [helper EXCEPT !.pc = pc]
ServerOnly == UNCHANGED <<service, con, backends, turn, reloaded>>

(* A wait: for something that holds, or until it takes too long. *)
Wait(holds, next) == /\ (holds /\ Goto(next)) \/ (~holds /\ Goto("raised"))
                     /\ ServerOnly

-----------------------------------------------------------------------------
(* The lists of the containers: serviceExposeMaps, with and without those not managed. *)
Mapped(S) == {c \in S : con[c] \notin {"none", "removing"}}
Running(S) == {c \in S : con[c] = "running"}

CONTAINER_STATES == {"running", "stopped", "stopping"}

CallHelper ==
    /\ helper.pc \in {"returned", "raised"}
    /\ \/ service = "inactive" /\ helper' = Call("activate", {})
       \/ service \in {"active", "updating"} /\
             \/ \E op \in {"scale", "deactivate", "balancer"} : helper' = Call(op, {})
             \/ \E c \in Containers, op \in {"stop", "delete", "restart"} :
                   con[c] = "running" /\ helper' = Call(op, {c})
    /\ reloaded' = FALSE /\ UNCHANGED <<service, con, backends, turn>>

(* activate_svc *)
activate_svc ==
    \/ /\ At({"activate"}, "called") /\ service' = "activating" /\ Goto("acted")
       /\ UNCHANGED <<con, backends, turn, reloaded>>
    \/ At({"activate"}, "acted") /\ Wait(service = "active", "returned")

(***************************************************************************)
(* wait_for_scale_to_adjust: the first list is of the managed containers,  *)
(* all further ones are of all.  Each that is listed must then run.        *)
(***************************************************************************)
Adjusted(S) == /\ Cardinality(Mapped(S)) = Scale
               /\ helper' = [helper EXCEPT !.pc = "running", !.todo = Mapped(S)]

WaitScale ==
    \/ At({"scale"}, "called") /\ Wait(service = "active", "maps")
    \/ /\ At({"scale"}, "maps") /\ ServerOnly
       /\ \/ Adjusted(Containers)
          \/ Cardinality(Mapped(Containers)) # Scale /\ Goto("acted")
    \/ /\ At({"scale"}, "acted") /\ ServerOnly
       /\ Adjusted(All) \/ (Cardinality(Mapped(All)) # Scale /\ Goto("raised"))

WaitRunning ==
    /\ At({"scale"}, "running") /\ ServerOnly
    /\ \/ \E c \in helper.todo :
             \/ con[c] = "running" /\ helper' = [helper EXCEPT !.todo = @ \ {c}]
             \/ con[c] # "running" /\ Goto("raised")
       \/ helper.todo = {} /\ Goto("returned")

-----------------------------------------------------------------------------
(* stop_service_instances, delete_service_instances and restart_service_instances *)
Ops == {"stop", "delete", "restart"}

ActOnInstance ==
    /\ At(Ops, "called")
    /\ \E c \in helper.todo :
          con' = [con EXCEPT ![c] = IF helper.op = "delete" THEN "removing" ELSE "stopping"]
    /\ Goto("acted") /\ UNCHANGED <<service, backends, turn, reloaded>>

AwaitInstance ==
    /\ At(Ops, "acted")
    /\ LET c == CHOOSE c \in helper.todo : TRUE
           done == CASE helper.op = "stop" -> con[c] \notin {"running", "stopping"}
                     [] helper.op = "delete" -> con[c] # "removing"
                     [] helper.op = "restart" -> con[c] = "running"
       IN \/ done /\ helper' = [helper EXCEPT !.pc = "active", !.todo = {}]
          \/ ~done /\ Goto("raised")
    /\ ServerOnly

(***************************************************************************)
(* check_container_in_service, once the service is active: the containers  *)
(* are listed, read (get_service_container_list), counted, and asked for   *)
(* at their docker.                                                        *)
(***************************************************************************)
ListContainers ==
    \/ At(Ops, "active") /\ Wait(service = "active", "maps")
    \/ /\ At(Ops, "maps") /\ ServerOnly
       /\ helper' = [helper EXCEPT !.pc = "read", !.todo = Mapped(Containers)]

ReadContainer ==
    /\ At(Ops, "read") /\ ServerOnly
    /\ \/ \E c \in helper.todo :
             \/ /\ con[c] \in CONTAINER_STATES
                /\ helper' = [helper EXCEPT !.todo = @ \ {c},
                                            !.seen = @ \cup {c}]
             \/ con[c] \notin CONTAINER_STATES /\ Goto("raised")
       \/ helper.todo = {} /\
             IF Cardinality(helper.seen) = Scale
             THEN helper' = [helper EXCEPT !.pc = "inspect", !.todo = helper.seen]
             ELSE Goto("raised")

(* Slip for InspectContainer: the containers are not asked for. *)
InspectNothing == At(Ops, "inspect") /\ Goto("returned") /\ ServerOnly

InspectContainer ==
    /\ At(Ops, "inspect") /\ ServerOnly
    /\ \/ \E c \in helper.todo :
             \/ con[c] = "running" /\ helper' = [helper EXCEPT !.todo = @ \ {c}]
             \/ con[c] # "running" /\ Goto("raised")
       \/ helper.todo = {} /\ Goto("returned")

(* A test deactivates the service: wait_until_instances_get_stopped. *)
Deactivate ==
    /\ At({"deactivate"}, "called") /\ service' = "deactivating" /\ Goto("acted")
    /\ UNCHANGED <<con, backends, turn, reloaded>>

wait_until_instances_get_stopped ==
    /\ At({"deactivate"}, "acted")
    /\ Wait(Cardinality({c \in Mapped(All) : con[c] = "stopped"}) = Scale, "returned")

-----------------------------------------------------------------------------
(***************************************************************************)
(* validate_lb_service: the names of the containers that run are listed    *)
(* and counted.  One unmanaged container is allowed for the service.       *)
(***************************************************************************)
ListNames ==
    /\ At({"balancer"}, "called") /\ ServerOnly
    /\ LET names == Running(All) IN
       IF Cardinality(names) = Scale + Cardinality(Running(Unmanaged)) /\
          Cardinality(Running(Unmanaged)) <= 1
       THEN helper' = [helper EXCEPT !.pc = "access", !.todo = names]
       ELSE Goto("raised")

(***************************************************************************)
(* validate_lb_service_con_names waits until something answers, before it  *)
(* checks what does.  A balancer without containers may answer too.        *)
(***************************************************************************)
check_for_no_access == {backends = <<>>, FALSE}

wait_until_lb_is_active ==
    /\ At({"balancer"}, "access")
    /\ \E no_access \in check_for_no_access : Wait(~no_access, "first")

(***************************************************************************)
(* check_round_robin_access: as many requests as there are containers must *)
(* be answered by all of them, and the next ones in the same order.        *)
(***************************************************************************)
Served == IF backends = <<>> THEN {} ELSE {backends[turn]}
NextTurn == turn' = IF turn < Len(backends) THEN turn + 1 ELSE 1
Ask == NextTurn /\ UNCHANGED <<service, con, backends, reloaded>>

Expected == helper.order[(helper.sent % Len(helper.order)) + 1]

(* Slip for FirstRequests: a name that answered is not taken out. *)
FirstRequestsOfAny ==
    /\ At({"balancer"}, "first")
    /\ IF Len(helper.order) = Cardinality(helper.todo) THEN Goto("again") /\ ServerOnly
       ELSE /\ Ask
            /\ IF Served # {} /\ Served \subseteq helper.todo
               THEN helper' = [helper EXCEPT !.order = Append(@, backends[turn])]
               ELSE Goto("raised")

FirstRequests ==
    /\ At({"balancer"}, "first")
    /\ \/ helper.todo = {} /\ Goto("again") /\ ServerOnly
       \/ /\ helper.todo # {} /\ Served # {} /\ Served \subseteq helper.todo /\ Ask
          /\ helper' = [helper EXCEPT !.todo = @ \ Served, !.order = Append(@, backends[turn])]
       \/ /\ helper.todo # {} /\ ~(Served # {} /\ Served \subseteq helper.todo)
          /\ Goto("raised") /\ Ask

RepeatedRequests ==
    /\ At({"balancer"}, "again")
    /\ \/ helper.sent = Extra /\ Goto("returned") /\ ServerOnly
       \/ /\ helper.sent < Extra /\ Ask
          /\ IF Served = {Expected} THEN helper' = [helper EXCEPT !.sent = @ + 1]
             ELSE Goto("raised")

-----------------------------------------------------------------------------
(* The Rancher server *)
Keeps == service \in {"activating", "updating"}
Lacking == Cardinality(Mapped(Containers)) < Scale
AllRun == ~Lacking /\ \A c \in Mapped(Containers) : con[c] = "running"

ServiceStep ==
    /\ \/ service = "active" /\ ~AllRun /\ service' = "updating"
       \/ Keeps /\ AllRun /\ service' = "active"
       \/ /\ service = "deactivating" /\ \A c \in Mapped(Containers) : con[c] = "stopped"
          /\ service' = "inactive"
    /\ UNCHANGED <<con, backends, turn, helper, reloaded>>

ContainerStep ==
    /\ \E c \in Containers :
          \/ con[c] = "none" /\ Keeps /\ Lacking /\ con' = [con EXCEPT ![c] = "starting"]
          \/ con[c] = "starting" /\ con' = [con EXCEPT ![c] = "running"]
          \/ con[c] = "stopped" /\ Keeps /\ con' = [con EXCEPT ![c] = "starting"]
          \/ con[c] = "stopping" /\ con' = [con EXCEPT ![c] =
                IF At({"restart"}, "acted") /\ c \in helper.todo THEN "starting" ELSE "stopped"]
          \/ con[c] = "removing" /\ con' = [con EXCEPT ![c] = "none"]
          \/ con[c] = "running" /\ service = "deactivating" /\ con' = [con EXCEPT ![c] = "stopping"]
    /\ UNCHANGED <<service, backends, turn, helper, reloaded>>

(* The load balancer gets the containers that run. *)
Reload ==
    /\ {backends[i] : i \in DOMAIN backends} # Running(All)
    /\ \E order \in [1 .. Cardinality(Running(All)) -> Running(All)] :
          /\ {order[i] : i \in DOMAIN order} = Running(All)
          /\ backends' = order
    /\ turn' = 1 /\ reloaded' = TRUE
    /\ UNCHANGED <<service, con, helper>>

Helper == \/ activate_svc \/ WaitScale \/ WaitRunning
          \/ ActOnInstance \/ AwaitInstance \/ ListContainers \/ ReadContainer \/ InspectContainer
          \/ Deactivate \/ wait_until_instances_get_stopped
          \/ ListNames \/ wait_until_lb_is_active \/ FirstRequests \/ RepeatedRequests

Next == CallHelper \/ Helper \/ ServiceStep \/ ContainerStep \/ Reload

Spec == Init /\ [][Next]_vars

(***************************************************************************)
(* When a helper that stops, removes or restarts containers returns, the   *)
(* service runs at its scale again: the containers were seen when they had *)
(* been replaced, and not when the service was still said to be active.    *)
(* So it does when it was scaled, unless containers that are not managed   *)
(* were counted for those that are missing.                                *)
(***************************************************************************)
ScaleIsReached ==
    helper.pc = "returned" /\ service # "deactivating" =>
       /\ helper.op \in Ops => Cardinality(Running(Containers)) = Scale
       /\ helper.op = "scale" /\ Running(Unmanaged) = {} =>
             Cardinality(Running(Containers)) = Scale

(***************************************************************************)
(* A load balancer that passes the check takes every container that was    *)
(* listed, and no other, and as many as the service's scale asks for,      *)
(* unless it was configured anew in the meantime.                          *)
(***************************************************************************)
BalancerServesAll ==
    LET served == {backends[i] : i \in DOMAIN backends} IN
    At({"balancer"}, "returned") /\ ~reloaded =>
       /\ {helper.order[i] : i \in DOMAIN helper.order} = served
       /\ Cardinality(served) >= Scale
=============================================================================
