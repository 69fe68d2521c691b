---------------------------- MODULE ObjectUpdate ----------------------------
(***************************************************************************)
(* The optimistic update loop the harness uses for every annotation and    *)
(* every volume spec field it sets: read the custom resource with its      *)
(* resourceVersion, change one key of the copy, replace the whole object,  *)
(* start over on a 409, and stop without a word when the attempts run out. *)
(*                                                                         *)
(*   CRD.set_annotation, CRD.update_volume_spec   (e2e/libs/volume/crd.py) *)
(*   set_annotation, get_cr                (e2e/libs/utility/utility.py)   *)
(*                                                                         *)
(* Several callers run at once (the robot thread and the background        *)
(* threads the keywords start) and Longhorn's controllers write the same   *)
(* object.  The API server is modelled from what the loop expects of it.   *)
(***************************************************************************)
EXTENDS Naturals

CONSTANTS
    Clients,          \* the threads that call set_annotation / update_volume_spec
    Keys,             \* annotation and spec keys of the object
    ControllerKeys,   \* the keys Longhorn's controllers also write
    Values,
    RetryCount,       \* self.retry_count
    MaxCalls,         \* bound: calls per client
    MaxVersion        \* bound: controllers stop writing at this version

ASSUME KeysAssumption == ControllerKeys \subseteq Keys
ASSUME RequestAssumption == Keys # {} /\ Values # {}
ASSUME RetryAssumption == RetryCount \in Nat \ {0}
ASSUME BoundAssumption == MaxCalls \in Nat /\ MaxVersion \in Nat

VARIABLES
    data,      \* the stored object
    version,   \* its resourceVersion
    pc,        \* where each client is in its loop
    call,      \* the annotation_key and annotation_value of its latest call
    body,      \* the modified copy it read, with the copy's resourceVersion
    attempt,   \* i, the attempts that have failed so far
    calls,     \* calls made, for the bound
    start      \* history: the version when the latest call began

vars == <<data, version, pc, call, body, attempt, calls, start>>

Ended == {"idle", "returned", "gaveUp", "raised"}

(* "ok", "conflict", "error" and "lost" are the replies on their way: the  *)
(* replace was stored, refused with a 409, refused otherwise, or stored    *)
(* with the reply lost.                                                    *)
Replies == {"ok", "conflict", "error", "lost"}

PCs == Ended \cup {"get", "replace"} \cup Replies

Request == [key : Keys, value : Values]

Copy == [version : Nat, data : [Keys -> Values]]

TypeOK == /\ data \in [Keys -> Values]
          /\ version \in Nat
          /\ pc \in [Clients -> PCs]
          /\ call \in [Clients -> Request]
          /\ body \in [Clients -> Copy]
          /\ attempt \in [Clients -> 0 .. RetryCount]
          /\ calls \in [Clients -> Nat]
          /\ start \in [Clients -> Nat]

Init == /\ data \in [Keys -> Values]
        /\ version = 0
        /\ pc = [c \in Clients |-> "idle"]
        /\ call = [c \in Clients |-> CHOOSE r \in Request : TRUE]
        /\ body = [c \in Clients |-> [version |-> 0, data |-> data]]
        /\ attempt = [c \in Clients |-> 0]
        /\ calls = [c \in Clients |-> 0]
        /\ start = [c \in Clients |-> 0]

-----------------------------------------------------------------------------
(* The loop.                                                               *)

Goto(c, where) == pc' = [pc EXCEPT ![c] = where]

Call(c) == /\ pc[c] \in Ended
           /\ calls[c] < MaxCalls
           /\ \E r \in Request : call' = [call EXCEPT ![c] = r]
           /\ Goto(c, "get")
           /\ attempt' = [attempt EXCEPT ![c] = 0]
           /\ calls' = [calls EXCEPT ![c] = @ + 1]
           /\ start' = [start EXCEPT ![c] = version]
           /\ UNCHANGED <<data, version, body>>

(* Slip for Get: take the new version but keep the object read before.     *)
GetReusingCopy(c) == /\ pc[c] = "get"
                     /\ body' = [body EXCEPT ![c].version = version,
                                             ![c].data[call[c].key] = call[c].value]
                     /\ Goto(c, "replace")
                     /\ UNCHANGED <<data, version, call, attempt, calls, start>>

(* Read the object and set the key in the copy.                            *)
Get(c) == /\ pc[c] = "get"
          /\ body' = [body EXCEPT ![c] =
                        [version |-> version,
                         data    |-> [data EXCEPT ![call[c].key] = call[c].value]]]
          /\ Goto(c, "replace")
          /\ UNCHANGED <<data, version, call, attempt, calls, start>>

(* The read fails: at once in CRD.get, after get_cr's own retries in       *)
(* utility.py.  Neither error is a 409, so the loop raises.                *)
GetRaises(c) == /\ pc[c] = "get"
                /\ Goto(c, "raised")
                /\ UNCHANGED <<data, version, call, body, attempt, calls, start>>

Return(c) == /\ pc[c] = "ok"
             /\ Goto(c, "returned")
             /\ UNCHANGED <<data, version, call, body, attempt, calls, start>>

(* Slips for Conflict: send the refused body again; allow one more attempt. *)
ConflictResends(c) ==
    /\ pc[c] = "conflict"
    /\ attempt' = [attempt EXCEPT ![c] = @ + 1]
    /\ Goto(c, IF attempt[c] + 1 < RetryCount THEN "replace" ELSE "gaveUp")
    /\ UNCHANGED <<data, version, call, body, calls, start>>

ConflictOneMore(c) ==
    /\ pc[c] = "conflict"
    /\ attempt' = [attempt EXCEPT ![c] = @ + 1]
    /\ Goto(c, IF attempt[c] < RetryCount THEN "get" ELSE "gaveUp")
    /\ UNCHANGED <<data, version, call, body, calls, start>>

(* 409: sleep and start over from the read, or fall out of the loop.       *)
Conflict(c) == /\ pc[c] = "conflict"
               /\ attempt' = [attempt EXCEPT ![c] = @ + 1]
               /\ Goto(c, IF attempt[c] + 1 < RetryCount THEN "get" ELSE "gaveUp")
               /\ UNCHANGED <<data, version, call, body, calls, start>>

(* Slip for Raise: an error without a status is not handled.               *)
RaiseApiErrorsOnly(c) ==
    /\ pc[c] = "error"
    /\ Goto(c, "raised")
    /\ UNCHANGED <<data, version, call, body, attempt, calls, start>>

(* Any other error is raised; one without a status (a broken connection)   *)
(* raises from the handler itself.                                         *)
Raise(c) == /\ pc[c] \in {"error", "lost"}
            /\ Goto(c, "raised")
            /\ UNCHANGED <<data, version, call, body, attempt, calls, start>>

-----------------------------------------------------------------------------
(* The API server and Longhorn's controllers.                              *)

Fresh(c) == body[c].version = version

(* A replace that changes nothing leaves the resourceVersion alone.        *)
Store(d) == /\ data' = d
            /\ version' = IF d = data THEN version ELSE version + 1

ServeReplace(c) == /\ pc[c] = "replace"
                   /\ Fresh(c)
                   /\ Store(body[c].data)
                   /\ \E reply \in {"ok", "lost"} : Goto(c, reply)
                   /\ UNCHANGED <<call, body, attempt, calls, start>>

ServeConflict(c) == /\ pc[c] = "replace"
                    /\ ~Fresh(c)
                    /\ Goto(c, "conflict")
                    /\ UNCHANGED <<data, version, call, body, attempt, calls, start>>

ServeError(c) == /\ pc[c] = "replace"
                 /\ Goto(c, "error")
                 /\ UNCHANGED <<data, version, call, body, attempt, calls, start>>

Reconcile == /\ version < MaxVersion
             /\ \E k \in ControllerKeys, v \in Values : Store([data EXCEPT ![k] = v])
             /\ UNCHANGED <<pc, call, body, attempt, calls, start>>

-----------------------------------------------------------------------------
Step(c) == Get(c) \/ GetRaises(c) \/ Return(c) \/ Conflict(c) \/ Raise(c)

Serve(c) == ServeReplace(c) \/ ServeConflict(c) \/ ServeError(c)

Next == \/ \E c \in Clients : Call(c) \/ Step(c) \/ Serve(c)
        \/ Reconcile

Spec == Init /\ [][Next]_vars

(* A thread in the loop keeps running and the API server answers.          *)
FairSpec == Spec /\ \A c \in Clients : WF_vars(Step(c) \/ Serve(c))

-----------------------------------------------------------------------------
(* Properties.                                                             *)

(* No stale overwrite: a body whose version is still the stored one is the *)
(* stored object with the caller's key set, so replacing the whole object  *)
(* cannot undo what the controllers or another thread wrote in between.    *)
FreshBodyInv ==
    \A c \in Clients : pc[c] = "replace" /\ Fresh(c) =>
        body[c].data = [data EXCEPT ![call[c].key] = call[c].value]

(* An update is dropped silently only when the object really changed under *)
(* every attempt: each 409 is paid for by a write of somebody else, so a   *)
(* call that gave up saw at least RetryCount writes since it began.        *)
GaveUpInv ==
    \A c \in Clients : pc[c] = "gaveUp" => version >= start[c] + RetryCount

(* Every call of set_annotation or update_volume_spec comes to an end.     *)
CallsEnd == \A c \in Clients : pc[c] \notin Ended ~> pc[c] \in Ended

(* The loop implements an atomic update of one key.  A caller that did not *)
(* raise cannot tell "returned" from "gaveUp": the loop ends both ways     *)
(* without an error.                                                       *)
AtomicPhase(c) == CASE pc[c] \in {"get", "replace", "conflict", "error"} -> "pending"
                    [] pc[c] \in {"ok", "lost"} -> "applied"
                    [] OTHER -> pc[c]

Atomic == INSTANCE AtomicObject WITH phase <- [c \in Clients |-> AtomicPhase(c)]

ImplementsAtomicObject == Atomic!Spec

-----------------------------------------------------------------------------
(* What an inductive proof needs besides: a call in the loop has attempts  *)
(* left, the version a client read is not ahead of the stored one, and it  *)
(* is at least as far from the start as the number of failed attempts.     *)
AttemptInv ==
    \A c \in Clients :
        pc[c] \in {"get", "replace", "conflict"} => attempt[c] < RetryCount

VersionInv ==
    \A c \in Clients :
        /\ start[c] <= version
        /\ pc[c] = "get" => version >= start[c] + attempt[c]
        /\ pc[c] = "replace" => /\ body[c].version <= version
                                /\ body[c].version >= start[c] + attempt[c]
        /\ pc[c] = "conflict" => version >= start[c] + attempt[c] + 1

IInv == TypeOK /\ AttemptInv /\ VersionInv /\ FreshBodyInv /\ GaveUpInv
=============================================================================
