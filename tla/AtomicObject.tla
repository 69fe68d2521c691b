---------------------------- MODULE AtomicObject ----------------------------
(***************************************************************************)
(* What the callers of set_annotation and update_volume_spec rely on: a    *)
(* custom resource whose keys are set one at a time.  A call takes effect  *)
(* at most once, at an instant between its start and its end, changes the  *)
(* key it was given and no other, and ends in one of three ways: returned  *)
(* with its effect, raised with or without it, or given up without it.     *)
(***************************************************************************)
CONSTANTS Clients, Keys, ControllerKeys, Values

VARIABLES data,   \* the stored object: the value of each key
          call,   \* the argument of each client's latest call
          phase   \* how far that call has come

vars == <<data, call, phase>>

Ended == {"idle", "returned", "gaveUp", "raised"}

Request == [key : Keys, value : Values]

Init == /\ data \in [Keys -> Values]
        /\ call \in [Clients -> Request]
        /\ phase = [c \in Clients |-> "idle"]

Begin(c) == /\ phase[c] \in Ended
            /\ \E r \in Request : call' = [call EXCEPT ![c] = r]
            /\ phase' = [phase EXCEPT ![c] = "pending"]
            /\ UNCHANGED data

TakeEffect(c) == /\ phase[c] = "pending"
                 /\ data' = [data EXCEPT ![call[c].key] = call[c].value]
                 /\ phase' = [phase EXCEPT ![c] = "applied"]
                 /\ UNCHANGED call

End(c) == /\ \/ /\ phase[c] = "applied"
                /\ \E e \in {"returned", "raised"} : phase' = [phase EXCEPT ![c] = e]
             \/ /\ phase[c] = "pending"
                /\ \E e \in {"gaveUp", "raised"} : phase' = [phase EXCEPT ![c] = e]
          /\ UNCHANGED <<data, call>>

Reconcile == /\ \E k \in ControllerKeys, v \in Values : data' = [data EXCEPT ![k] = v]
             /\ UNCHANGED <<call, phase>>

Next == \/ \E c \in Clients : Begin(c) \/ TakeEffect(c) \/ End(c)
        \/ Reconcile

Spec == Init /\ [][Next]_vars
=============================================================================
