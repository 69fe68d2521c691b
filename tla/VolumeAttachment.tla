-------------------------- MODULE VolumeAttachment --------------------------
(***************************************************************************)
(* The attachment tickets of one volume, and the calls by which the        *)
(* harness adds, removes and edits them: CRD.attach, CRD.detach and        *)
(* CRD.enable_volume_frontend (e2e/libs/volume/crd.py).  Each is a loop:   *)
(* read the VolumeAttachment, change the copy, send it back with its       *)
(* resourceVersion, and start over after any exception, be it a conflict,  *)
(* a refusal or a reply that never came.                                   *)
(*                                                                         *)
(* A harness ticket carries the node's name as its id; CSI and Longhorn's  *)
(* controllers add tickets with ids of their own to the same object.       *)
(***************************************************************************)
EXTENDS Naturals, FiniteSets

CONSTANTS
    Nodes,
    Foreign,      \* ticket ids of the CSI attacher and of Longhorn's controllers
    RetryCount,   \* self.retry_count
    MaxCalls,     \* bound: calls of the harness
    MaxVersion,   \* bound: the others stop writing at this version
    MaxLost       \* bound: replies that are lost

Bounds == /\ Nodes \cap Foreign = {} /\ Nodes # {}
          /\ RetryCount \in Nat \ {0}
          /\ {MaxCalls, MaxVersion, MaxLost} \subseteq Nat

VARIABLES
    tickets,   \* spec.attachmentTickets
    version,   \* the resourceVersion of the VolumeAttachment
    h,         \* the harness thread: where it is in which call, and its copy
    calls,     \* calls made, for the bound
    removed,   \* history: tickets the current call has deleted
    lost       \* history: replies the current call has lost

vars == <<tickets, version, h, calls, removed, lost>>

Ticket == [id : Nodes \cup Foreign, nodeID : Nodes, frontend : BOOLEAN]

Own(n) == {t \in tickets : t.id = n}
On(n) == {t \in tickets : t.nodeID = n}

Ended == {"idle", "returned", "failed"}

TypeOK == /\ tickets \in SUBSET Ticket
          /\ \A s, t \in tickets : s.id = t.id => s = t
          /\ version \in Nat
          /\ h \in [pc : Ended \cup {"get", "send"},
                    op : {"attach", "detach", "enable"},
                    node : Nodes, disable : BOOLEAN, attempts : 1 .. RetryCount,
                    body : SUBSET Ticket, version : Nat]
          /\ removed \in Nat /\ lost \in 0 .. MaxLost

Init == /\ tickets = {}
        /\ version = 0
        /\ h = [pc |-> "idle", op |-> "attach", node |-> CHOOSE n \in Nodes : TRUE,
                disable |-> FALSE, attempts |-> 1, body |-> {}, version |-> 0]
        /\ calls = 0 /\ removed = 0 /\ lost = 0

-----------------------------------------------------------------------------
(* The harness.  attempts counts down; with retry=False attach makes one.  *)

Start(op, n, disable, attempts) ==
    /\ h.pc \in Ended /\ calls < MaxCalls
    /\ h' = [h EXCEPT !.pc = "get", !.op = op, !.node = n,
                      !.disable = disable, !.attempts = attempts]
    /\ calls' = calls + 1 /\ removed' = 0 /\ lost' = 0
    /\ UNCHANGED <<tickets, version>>

Attach(n) == \E disable \in BOOLEAN, attempts \in {1, RetryCount} :
                Start("attach", n, disable, attempts)
Detach(n) == Start("detach", n, FALSE, RetryCount)
EnableFrontend == Start("enable", h.node, FALSE, RetryCount)

(* Send the modified copy.                                                 *)
Prepare(body) == h' = [h EXCEPT !.pc = "send", !.body = body, !.version = version]

(* Slip for GetForAttach: the ticket is added next to an older one.        *)
GetForAttachAppends ==
    /\ h.pc = "get" /\ h.op = "attach"
    /\ Prepare(tickets \cup {[id |-> h.node, nodeID |-> h.node, frontend |-> ~h.disable]})
    /\ UNCHANGED <<tickets, version, calls, removed, lost>>

GetForAttach ==
    /\ h.pc = "get" /\ h.op = "attach"
    /\ Prepare((tickets \ Own(h.node))
               \cup {[id |-> h.node, nodeID |-> h.node, frontend |-> ~h.disable]})
    /\ UNCHANGED <<tickets, version, calls, removed, lost>>

(* Slip for GetForDetach: every ticket of the node is deleted.             *)
GetForDetachByNode ==
    /\ h.pc = "get" /\ h.op = "detach"
    /\ Prepare(tickets \ (Own(h.node) \cup On(h.node)))
    /\ UNCHANGED <<tickets, version, calls, removed, lost>>

(* The harness' ticket if it is there, else one ticket with that nodeID.   *)
GetForDetach ==
    /\ h.pc = "get" /\ h.op = "detach"
    /\ \E t \in (IF Own(h.node) # {} THEN Own(h.node) ELSE On(h.node)) :
          Prepare(tickets \ {t})
    /\ UNCHANGED <<tickets, version, calls, removed, lost>>

GetForEnable ==
    /\ h.pc = "get" /\ h.op = "enable"
    /\ Prepare({[t EXCEPT !.frontend = TRUE] : t \in tickets})
    /\ UNCHANGED <<tickets, version, calls, removed, lost>>

(* Slip for Retry: there is no last attempt.                               *)
RetryUnbounded == h' = [h EXCEPT !.pc = "get"]

(* After an exception: sleep and start over.  The end of the attempts      *)
(* fails an attach and a detach; an enable goes on to wait for the result. *)
Retry == h' = IF h.attempts > 1
              THEN [h EXCEPT !.pc = "get", !.attempts = @ - 1]
              ELSE [h EXCEPT !.pc = IF h.op = "enable" THEN "returned" ELSE "failed"]

GetFails == /\ h.pc = "get"
            /\ Retry
            /\ UNCHANGED <<tickets, version, calls, removed, lost>>

NoTicketToDelete == /\ h.pc = "get" /\ h.op = "detach"
                    /\ On(h.node) = {}
                    /\ Retry
                    /\ UNCHANGED <<tickets, version, calls, removed, lost>>

-----------------------------------------------------------------------------
(* The API server.                                                         *)

Fresh == h.version = version

Ids(set) == {t.id : t \in set}

Store(body) == /\ tickets' = body
               /\ version' = IF body = tickets THEN version ELSE version + 1
               /\ removed' = removed + Cardinality(Ids(tickets) \ Ids(body))

(* Slip for Stored: the detach goes on as if it had not found its ticket.  *)
StoredButRetried == /\ h.pc = "send" /\ Fresh
                    /\ Store(h.body)
                    /\ IF h.op = "detach" THEN Retry ELSE h' = [h EXCEPT !.pc = "returned"]
                    /\ UNCHANGED <<calls, lost>>

(* Slip for Stored: the copy is sent without its resourceVersion.          *)
StoredStale == /\ h.pc = "send"
               /\ Store(h.body)
               /\ h' = [h EXCEPT !.pc = "returned"]
               /\ UNCHANGED <<calls, lost>>

Stored == /\ h.pc = "send" /\ Fresh
          /\ Store(h.body)
          /\ h' = [h EXCEPT !.pc = "returned"]
          /\ UNCHANGED <<calls, lost>>

StoredReplyLost == /\ h.pc = "send" /\ Fresh /\ lost < MaxLost
                   /\ Store(h.body)
                   /\ lost' = lost + 1
                   /\ Retry
                   /\ UNCHANGED calls

(* Slip for Refused: the last exception is not an error.                   *)
RefusedInSilence ==
    /\ h.pc = "send"
    /\ h' = IF h.attempts > 1 THEN [h EXCEPT !.pc = "get", !.attempts = @ - 1]
                              ELSE [h EXCEPT !.pc = "returned"]
    /\ UNCHANGED <<tickets, version, calls, removed, lost>>

(* A conflict, which is certain for a stale copy, or any other refusal.    *)
Refused == /\ h.pc = "send"
           /\ Retry
           /\ UNCHANGED <<tickets, version, calls, removed, lost>>

-----------------------------------------------------------------------------
(* The others on the same object (external).                               *)

Others(body) == /\ version < MaxVersion
                /\ tickets' = body /\ version' = version + 1
                /\ UNCHANGED <<h, calls, removed, lost>>

ForeignAttach(f, n) == /\ \A t \in tickets : t.id # f
                       /\ Others(tickets \cup {[id |-> f, nodeID |-> n, frontend |-> TRUE]})
ForeignDetach(f) == \E t \in tickets : t.id = f /\ Others(tickets \ {t})
StatusUpdate == Others(tickets)

-----------------------------------------------------------------------------
Step == \/ GetForAttach \/ GetForDetach \/ GetForEnable \/ GetFails
        \/ NoTicketToDelete \/ Stored \/ StoredReplyLost \/ Refused

HarnessCall == EnableFrontend \/ \E n \in Nodes : Attach(n) \/ Detach(n)

World == \/ StatusUpdate
         \/ \E f \in Foreign : ForeignDetach(f) \/ \E n \in Nodes : ForeignAttach(f, n)

Next == HarnessCall \/ Step \/ World

(* The harness thread keeps running and the API server answers.            *)
Spec == Init /\ [][Next]_vars /\ WF_vars(Step)

-----------------------------------------------------------------------------
(* Properties.                                                             *)

(* One detach deletes one ticket.  A reply that is lost costs one more:    *)
(* the next attempt no longer finds the ticket it deleted and falls back   *)
(* to somebody else's ticket on the node.                                  *)
DetachDeletesOne == removed <= 1 + lost

(* The outcome of a detach is the truth unless a reply was lost: it        *)
(* returns after deleting a ticket, and fails without having deleted one.  *)
DetachOutcome ==
    h.op = "detach" => /\ h.pc = "returned" => removed >= 1
                       /\ h.pc = "failed" => removed = 0 \/ lost > 0

(* Whatever interleaves, the harness takes a foreign ticket away only in a *)
(* detach from the ticket's node that finds no ticket of its own there; no *)
(* attach, no frontend change and no stale copy ever drops one.            *)
ForeignKept ==
    \A t \in tickets :
       t.id \in Foreign /\ (\A s \in tickets' : s.id # t.id) =>
          \/ World
          \/ h.op = "detach" /\ h.node = t.nodeID /\ Own(h.node) = {}

ForeignTicketsSafe == [][ForeignKept]_vars

(***************************************************************************)
(* Read, change and write are as good as one step: attach, detach and      *)
(* enable_volume_frontend implement the set of tickets that their callers  *)
(* rely on, whatever others write in between.                              *)
(***************************************************************************)
AtomicPhase == IF h.pc \in Ended THEN h.pc ELSE "pending"

Atomic == INSTANCE TicketSet
          WITH call <- [op |-> h.op, node |-> h.node, disable |-> h.disable],
               phase <- AtomicPhase, unheard <- lost

ImplementsTicketSet == Atomic!Spec

=============================================================================
