------------------------------ MODULE TicketSet ------------------------------
(***************************************************************************)
(* What the callers of attach, detach and enable_volume_frontend rely on:  *)
(* a set of tickets that a call changes in one step.  A call changes its   *)
(* own ticket, or every frontend, and leaves what others have added or     *)
(* removed meanwhile.  It takes effect once if it returns, and not at all  *)
(* if it fails; only for each reply that is lost may it have taken effect  *)
(* once more than its caller knows.                                        *)
(***************************************************************************)
EXTENDS Naturals

CONSTANTS Nodes, Foreign

VARIABLES tickets,   \* the tickets on the volume
          call,      \* the latest call
          phase,     \* whether it is pending, and how it ended
          unheard    \* how often it took effect and the caller was not told

vars == <<tickets, call, phase, unheard>>

Ticket(id, n, frontend) == [id |-> id, nodeID |-> n, frontend |-> frontend]

Of(n) == {x \in tickets : x.id = n}
At(n) == {x \in tickets : x.nodeID = n}

Request == [op : {"attach", "detach", "enable"}, node : Nodes, disable : BOOLEAN]

(* The effect: a detach removes the harness' ticket or, if it has none, a  *)
(* ticket of somebody else on the node.                                    *)
Change ==
    \/ /\ call.op = "attach"
       /\ tickets' = (tickets \ Of(call.node)) \cup {Ticket(call.node, call.node, ~call.disable)}
    \/ /\ call.op = "detach"
       /\ \E x \in IF Of(call.node) # {} THEN Of(call.node) ELSE At(call.node) :
             tickets' = tickets \ {x}
    \/ /\ call.op = "enable"
       /\ tickets' = {[x EXCEPT !.frontend = TRUE] : x \in tickets}

Init == /\ tickets = {} /\ call \in Request
        /\ phase = "idle" /\ unheard = 0

Begin == /\ phase # "pending" /\ phase' = "pending"
         /\ call' \in Request /\ unheard' = 0
         /\ UNCHANGED tickets

TakeEffect == /\ phase = "pending" /\ phase' = "returned"
              /\ Change
              /\ UNCHANGED <<call, unheard>>

(* The end of a call that knows of no effect: an enable does not tell.     *)
Silence == IF call.op = "enable" THEN "returned" ELSE "failed"

TakeEffectUnheard == /\ phase = "pending" /\ phase' \in {"pending", Silence}
                     /\ Change
                     /\ unheard' = unheard + 1
                     /\ UNCHANGED call

End == /\ phase = "pending" /\ phase' = Silence
       /\ UNCHANGED <<tickets, call, unheard>>

(* The others add and remove tickets of their own.                         *)
ForeignChange == /\ \E f \in Foreign :
                       \/ /\ Of(f) = {}
                          /\ \E n \in Nodes : tickets' = tickets \cup {Ticket(f, n, TRUE)}
                       \/ \E x \in Of(f) : tickets' = tickets \ {x}
                 /\ UNCHANGED <<call, phase, unheard>>

Next == Begin \/ TakeEffect \/ TakeEffectUnheard \/ End \/ ForeignChange

Spec == Init /\ [][Next]_vars
=============================================================================
