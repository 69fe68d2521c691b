--------------------------- MODULE Volumes_proofs ---------------------------
(***************************************************************************)
(* Proofs about the life of a volume, for any nodes, tickets and volumes,  *)
(* any numbers of attempts and rounds, and any number of calls, conflicts, *)
(* lost replies, crashes and faults.                                       *)
(***************************************************************************)
EXTENDS MC_Volumes, Integers, FiniteSetTheorems, TLAPS

-----------------------------------------------------------------------------
(* The attachment tickets.                                                 *)

UniqueIds(set) == \A x, y \in set : x.id = y.id => x = y

OwnTicket == [id |-> h.node, nodeID |-> h.node, frontend |-> ~h.disable]

(* The tickets that a detach may choose from.                              *)
Deletable == IF A!Own(h.node) # {} THEN A!Own(h.node) ELSE A!On(h.node)

(* How the copy differs from the object while nobody has written it.       *)
Edited ==
    \/ h.op = "attach" /\ h.body = (tickets \ A!Own(h.node)) \cup {OwnTicket}
    \/ h.op = "detach" /\ \E x \in Deletable : h.body = tickets \ {x}
    \/ h.op = "enable" /\ h.body = {[x EXCEPT !.frontend = TRUE] : x \in tickets}

CopyInv == /\ h.version <= version
           /\ h.pc = "send" => UniqueIds(h.body)
           /\ h.pc = "send" /\ h.version = version => Edited

(* A call that is still under way has deleted nothing but what the server  *)
(* deleted without telling it.                                             *)
DeletedInv == /\ h.pc \in {"get", "send"} => removed <= lost
              /\ A!DetachDeletesOne
              /\ A!DetachOutcome

AttachmentInv == A!TypeOK /\ CopyInv /\ DeletedInv

(* The record of the harness thread, as the type invariant has it.         *)
HarnessSet ==
    [pc : {"idle", "returned", "failed", "get", "send"}, op : {"attach", "detach", "enable"},
     node : Nodes, disable : BOOLEAN, attempts : 1 .. AttachmentRetries,
     body : SUBSET A!Ticket, version : Nat]

LEMMA HarnessTyped == A!TypeOK <=> /\ tickets \in SUBSET A!Ticket /\ UniqueIds(tickets)
                                   /\ version \in Nat /\ h \in HarnessSet
                                   /\ removed \in Nat /\ lost \in 0 .. MaxLost
<1>1. A!Ended \cup {"get", "send"} = {"idle", "returned", "failed", "get", "send"}
  BY DEF A!Ended
<1> QED
  BY <1>1 DEF A!TypeOK, HarnessSet, UniqueIds

LEMMA AttachmentInit == A!Init => AttachmentInv
<1> SUFFICES ASSUME A!Init PROVE AttachmentInv
  OBVIOUS
<1>1. /\ h \in HarnessSet /\ h.pc = "idle" /\ h.op = "attach" /\ h.version = 0
      /\ tickets = {} /\ version = 0 /\ removed = 0 /\ lost = 0
  <2>1. (CHOOSE n \in Nodes : TRUE) \in Nodes
    BY AttachmentBounds DEF A!Bounds
  <2>2. 1 \in 1 .. AttachmentRetries /\ {} \in SUBSET A!Ticket
    BY AttachmentBounds DEF A!Bounds
  <2> QED
    BY <2>1, <2>2 DEF A!Init, HarnessSet
<1>2. A!TypeOK
  BY <1>1, AttachmentBounds, HarnessTyped DEF A!Bounds, UniqueIds
<1> QED
  BY <1>1, <1>2 DEF AttachmentInv, CopyInv, DeletedInv, A!DetachDeletesOne, A!DetachOutcome

(* An attempt that fails begins another, or ends the call.                 *)
LEMMA RetryEffect ==
  ASSUME h \in HarnessSet, A!Retry
  PROVE  /\ h' \in HarnessSet /\ h'.op = h.op /\ h'.version = h.version
         /\ h'.pc \in {"get", "returned", "failed"}
         /\ h'.pc = "returned" => h.op = "enable"
<1>1. CASE h.attempts > 1
  <2>1. h' = [h EXCEPT !.pc = "get", !.attempts = h.attempts - 1]
    BY <1>1 DEF A!Retry
  <2>2. h.attempts - 1 \in 1 .. AttachmentRetries
    BY <1>1, AttachmentBounds DEF HarnessSet, A!Bounds
  <2> QED
    BY <2>1, <2>2 DEF HarnessSet
<1>2. CASE ~(h.attempts > 1)
  BY <1>2 DEF A!Retry, HarnessSet
<1> QED
  BY <1>1, <1>2

(* A copy that is stored takes away the ticket that a detach chose, and    *)
(* the id of no other.                                                     *)
LEMMA EditEffect ==
  ASSUME A!TypeOK, Edited
  PROVE  /\ h.op # "detach" => A!Ids(tickets) \ A!Ids(h.body) = {}
         /\ h.op = "detach" => \E x \in Deletable :
              A!Ids(tickets) \ A!Ids(h.body) = {x.id}
<1>1. /\ tickets \in SUBSET A!Ticket /\ UniqueIds(tickets) /\ h \in HarnessSet
  BY HarnessTyped
<1>2. CASE h.op = "attach" /\ h.body = (tickets \ A!Own(h.node)) \cup {OwnTicket}
  <2>1. ASSUME NEW x \in tickets PROVE \E y \in h.body : y.id = x.id
    <3>1. OwnTicket.id = h.node
      BY DEF OwnTicket
    <3> QED
      BY <1>2, <2>1, <3>1 DEF A!Own
  <2> QED
    BY <1>2, <2>1 DEF A!Ids
<1>3. CASE h.op = "enable" /\ h.body = {[x EXCEPT !.frontend = TRUE] : x \in tickets}
  <2>1. ASSUME NEW x \in tickets PROVE \E y \in h.body : y.id = x.id
    <3>1. [x EXCEPT !.frontend = TRUE].id = x.id
      BY <1>1 DEF A!Ticket
    <3> QED
      BY <1>3, <2>1, <3>1
  <2> QED
    BY <1>3, <2>1 DEF A!Ids
<1>4. CASE h.op = "detach" /\ \E x \in Deletable : h.body = tickets \ {x}
  <2>1. PICK x \in Deletable : h.body = tickets \ {x}
    BY <1>4
  <2>2. x \in tickets
    BY DEF Deletable, A!Own, A!On
  <2>3. A!Ids(tickets) \ A!Ids(h.body) = {x.id}
    BY <1>1, <2>1, <2>2 DEF UniqueIds, A!Ids
  <2> QED
    BY <1>4, <2>3
<1> QED
  BY <1>2, <1>3, <1>4 DEF Edited

LEMMA NotSending ==
  ASSUME h'.pc # "send", h'.version <= version'
  PROVE  CopyInv'
BY Zenon DEF CopyInv

LEMMA StartStep ==
  ASSUME AttachmentInv, A!HarnessCall
  PROVE  AttachmentInv'
<1>1. /\ h \in HarnessSet /\ tickets \in SUBSET A!Ticket /\ UniqueIds(tickets) /\ version \in Nat
  BY HarnessTyped DEF AttachmentInv
<1>2. PICK op \in {"attach", "detach", "enable"}, n \in Nodes, disable \in BOOLEAN,
           attempts \in {1, AttachmentRetries} : A!Start(op, n, disable, attempts)
  <2>1. h.node \in Nodes
    BY <1>1 DEF HarnessSet
  <2> QED
    BY <2>1 DEF A!HarnessCall, A!EnableFrontend, A!Attach, A!Detach
<1>3. /\ h' \in HarnessSet /\ h'.pc = "get" /\ h'.version = h.version
      /\ removed' = 0 /\ lost' = 0 /\ UNCHANGED <<tickets, version>>
  <2>1. attempts \in 1 .. AttachmentRetries
    BY AttachmentBounds DEF A!Bounds
  <2> QED
    BY <1>1, <1>2, <2>1 DEF A!Start, HarnessSet
<1>4. A!TypeOK'
  <2>1. 0 \in Nat /\ 0 \in 0 .. MaxLost
    BY AttachmentBounds DEF A!Bounds
  <2> QED
    BY <1>1, <1>3, <2>1, HarnessTyped DEF A!TypeOK, UniqueIds, HarnessSet, A!Ended
<1> QED
  BY <1>3, <1>4, NotSending DEF AttachmentInv, CopyInv, DeletedInv, A!DetachDeletesOne, A!DetachOutcome

(* The copy that a read makes.                                             *)
LEMMA PrepareStep ==
  ASSUME AttachmentInv, h.pc = "get", UNCHANGED <<tickets, version, removed, lost>>,
         NEW body \in SUBSET A!Ticket, UniqueIds(body), A!Prepare(body),
         \/ h.op = "attach" /\ body = (tickets \ A!Own(h.node)) \cup {OwnTicket}
         \/ h.op = "detach" /\ \E x \in Deletable : body = tickets \ {x}
         \/ h.op = "enable" /\ body = {[x EXCEPT !.frontend = TRUE] : x \in tickets}
  PROVE  AttachmentInv'
<1>1. /\ h \in HarnessSet /\ tickets \in SUBSET A!Ticket /\ UniqueIds(tickets) /\ version \in Nat
      /\ removed \in Nat /\ lost \in 0 .. MaxLost /\ removed <= lost
  BY HarnessTyped DEF AttachmentInv, DeletedInv
<1>2. /\ h' \in HarnessSet /\ h'.pc = "send" /\ h'.body = body /\ h'.version = version
      /\ h'.op = h.op /\ h'.node = h.node /\ h'.disable = h.disable
  BY <1>1 DEF A!Prepare, HarnessSet
<1>3. A!TypeOK'
  BY <1>1, <1>2 DEF A!TypeOK, UniqueIds, HarnessSet, A!Ended
<1>4. Edited'
  <2>1. A!Own(h.node)' = A!Own(h.node) /\ A!On(h.node)' = A!On(h.node)
    BY <1>2 DEF A!Own, A!On
  <2>2. Deletable' = Deletable /\ OwnTicket' = OwnTicket
    BY <1>2, <2>1 DEF Deletable, OwnTicket, A!Own, A!On
  <2>3. CASE h.op = "attach" /\ body = (tickets \ A!Own(h.node)) \cup {OwnTicket}
    BY <1>2, <2>2, <2>3 DEF Edited, A!Own
  <2>4. CASE h.op = "detach" /\ \E x \in Deletable : body = tickets \ {x}
    <3>1. PICK x \in Deletable : body = tickets \ {x}
      BY <2>4
    <3> QED
      BY <1>2, <2>2, <2>4, <3>1 DEF Edited
  <2>5. CASE h.op = "enable" /\ body = {[x EXCEPT !.frontend = TRUE] : x \in tickets}
    BY <1>2, <2>5 DEF Edited
  <2> QED
    BY <2>3, <2>4, <2>5
<1>5. CopyInv'
  BY <1>1, <1>2, <1>4 DEF CopyInv, UniqueIds
<1>6. DeletedInv'
  BY <1>1, <1>2 DEF DeletedInv, AttachmentInv, A!DetachDeletesOne, A!DetachOutcome
<1> QED
  BY <1>3, <1>5, <1>6 DEF AttachmentInv

LEMMA GetStep ==
  ASSUME AttachmentInv, A!GetForAttach \/ A!GetForDetach \/ A!GetForEnable
  PROVE  AttachmentInv'
<1>1. /\ h \in HarnessSet /\ tickets \in SUBSET A!Ticket /\ UniqueIds(tickets)
  BY HarnessTyped DEF AttachmentInv
<1>2. h.pc = "get" /\ UNCHANGED <<tickets, version, removed, lost>>
  BY DEF A!GetForAttach, A!GetForDetach, A!GetForEnable
<1>3. CASE A!GetForAttach
  <2> DEFINE body == (tickets \ A!Own(h.node)) \cup {OwnTicket}
  <2>1. A!Prepare(body) /\ h.op = "attach"
    BY <1>3 DEF A!GetForAttach, OwnTicket
  <2>2. OwnTicket \in A!Ticket /\ OwnTicket.id = h.node
    BY <1>1 DEF OwnTicket, A!Ticket, HarnessSet
  <2>3. body \in SUBSET A!Ticket /\ UniqueIds(body)
    BY <1>1, <2>2 DEF UniqueIds, A!Own
  <2> QED
    BY <1>2, <2>1, <2>3, PrepareStep
<1>4. CASE A!GetForDetach
  <2>1. PICK x \in Deletable : A!Prepare(tickets \ {x})
    BY <1>4 DEF A!GetForDetach, Deletable
  <2> DEFINE body == tickets \ {x}
  <2>2. h.op = "detach" /\ body \in SUBSET A!Ticket /\ UniqueIds(body)
    BY <1>1, <1>4 DEF UniqueIds, A!GetForDetach
  <2> QED
    BY <1>2, <2>1, <2>2, PrepareStep
<1>5. CASE A!GetForEnable
  <2> DEFINE body == {[x EXCEPT !.frontend = TRUE] : x \in tickets}
  <2>1. A!Prepare(body) /\ h.op = "enable"
    BY <1>5 DEF A!GetForEnable
  <2>2. ASSUME NEW x \in tickets
        PROVE  [x EXCEPT !.frontend = TRUE] \in A!Ticket /\ [x EXCEPT !.frontend = TRUE].id = x.id
    BY <1>1 DEF A!Ticket
  <2>3. body \in SUBSET A!Ticket /\ UniqueIds(body)
    <3>1. ASSUME NEW x \in body, NEW y \in body, x.id = y.id PROVE x = y
      <4>1. PICK x1 \in tickets : x = [x1 EXCEPT !.frontend = TRUE]
        OBVIOUS
      <4>2. PICK y1 \in tickets : y = [y1 EXCEPT !.frontend = TRUE]
        OBVIOUS
      <4>3. x1 = y1
        BY <1>1, <2>2, <3>1, <4>1, <4>2 DEF UniqueIds
      <4> QED
        BY <4>1, <4>2, <4>3
    <3>2. body \subseteq A!Ticket
      BY <2>2
    <3> QED
      BY <3>1, <3>2 DEF UniqueIds
  <2> QED
    BY <1>2, <2>1, <2>3, PrepareStep
<1> QED
  BY <1>3, <1>4, <1>5

(* An attempt that ends without a reply of the server that it can use.     *)
LEMMA FailedAttemptStep ==
  ASSUME AttachmentInv, A!GetFails \/ A!NoTicketToDelete \/ A!Refused
  PROVE  AttachmentInv'
<1>1. /\ h \in HarnessSet /\ removed \in Nat /\ lost \in 0 .. MaxLost /\ removed <= lost
  BY HarnessTyped DEF AttachmentInv, DeletedInv, A!GetFails, A!NoTicketToDelete, A!Refused
<1>2. /\ h' \in HarnessSet /\ h'.op = h.op /\ h'.version = h.version
      /\ h'.pc \in {"get", "returned", "failed"}
      /\ h'.pc = "returned" => h.op = "enable"
  BY <1>1, RetryEffect DEF A!GetFails, A!NoTicketToDelete, A!Refused
<1>3. UNCHANGED <<tickets, version, removed, lost>>
  BY DEF A!GetFails, A!NoTicketToDelete, A!Refused
<1>4. A!TypeOK'
  BY <1>2, <1>3 DEF AttachmentInv, A!TypeOK, HarnessSet, A!Ended
<1>5. CopyInv'
  <2>1. h'.pc # "send"
    BY <1>2
  <2>2. h'.version <= version'
    BY <1>2, <1>3 DEF AttachmentInv, CopyInv
  <2> QED
    BY <2>1, <2>2, NotSending
<1>6. DeletedInv'
  BY <1>1, <1>2, <1>3 DEF AttachmentInv, DeletedInv, A!DetachDeletesOne, A!DetachOutcome
<1> QED
  BY <1>4, <1>5, <1>6 DEF AttachmentInv

(* The instance has the operator of FiniteSets under a name of its own.    *)
LEMMA SameCardinality ==
  ASSUME NEW set
  PROVE  A!Cardinality(set) = Cardinality(set)
BY DEF A!Cardinality, Cardinality

(* A store: the copy is fresh, so it is the edited object.                 *)
LEMMA StoreEffect ==
  ASSUME AttachmentInv, h.pc = "send", A!Fresh, A!Store(h.body)
  PROVE  /\ tickets' \in SUBSET A!Ticket /\ UniqueIds(tickets)' /\ version' \in Nat
         /\ h.version <= version'
         /\ removed' \in Nat /\ removed' <= removed + 1
         /\ h.op = "detach" => removed' = removed + 1
<1>1. /\ h \in HarnessSet /\ version \in Nat /\ removed \in Nat
      /\ h.version = version /\ Edited /\ UniqueIds(h.body)
  BY HarnessTyped DEF AttachmentInv, CopyInv, A!Fresh
<1>2. tickets' = h.body /\ version' \in {version, version + 1}
  BY DEF A!Store
<1>3. /\ tickets' \in SUBSET A!Ticket /\ UniqueIds(tickets)' /\ version' \in Nat
      /\ h.version <= version'
  BY <1>1, <1>2 DEF HarnessSet, UniqueIds
<1> DEFINE gone == A!Ids(tickets) \ A!Ids(h.body)
<1>4. removed' = removed + Cardinality(gone)
  BY SameCardinality DEF A!Store
<1>5. h.op # "detach" => Cardinality(gone) = 0
  BY <1>1, EditEffect, FS_EmptySet DEF AttachmentInv
<1>6. h.op = "detach" => Cardinality(gone) = 1
  <2> SUFFICES ASSUME h.op = "detach" PROVE Cardinality(gone) = 1
    OBVIOUS
  <2>1. PICK x \in Deletable : gone = {x.id}
    BY <1>1, EditEffect DEF AttachmentInv
  <2> QED
    BY <2>1, FS_Singleton
<1> HIDE DEF gone
<1> QED
  BY <1>1, <1>3, <1>4, <1>5, <1>6

LEMMA StoredStep ==
  ASSUME AttachmentInv, A!Stored \/ A!StoredReplyLost
  PROVE  AttachmentInv'
<1>1. /\ h \in HarnessSet /\ version \in Nat /\ removed \in Nat /\ lost \in 0 .. MaxLost
      /\ h.pc = "send" /\ A!Fresh /\ A!Store(h.body) /\ removed <= lost
  BY HarnessTyped DEF AttachmentInv, DeletedInv, A!Stored, A!StoredReplyLost
<1>2. /\ tickets' \in SUBSET A!Ticket /\ UniqueIds(tickets)' /\ version' \in Nat
      /\ h.version <= version'
      /\ removed' \in Nat /\ removed' <= removed + 1
      /\ h.op = "detach" => removed' = removed + 1
  BY <1>1, StoreEffect
<1>3. /\ h' \in HarnessSet /\ h'.op = h.op /\ h'.version = h.version
      /\ \/ h'.pc = "returned" /\ lost' = lost
         \/ /\ h'.pc \in {"get", "returned", "failed"}
            /\ h'.pc = "returned" => h.op = "enable"
            /\ lost' = lost + 1 /\ lost' \in 0 .. MaxLost
  <2>1. CASE A!Stored
    BY <1>1, <2>1 DEF A!Stored, HarnessSet
  <2>2. CASE A!StoredReplyLost
    <3>1. lost' = lost + 1 /\ lost' \in 0 .. MaxLost
      BY <1>1, <2>2, AttachmentBounds DEF A!StoredReplyLost, A!Bounds
    <3> QED
      BY <1>1, <2>2, <3>1, RetryEffect DEF A!StoredReplyLost
  <2> QED
    BY <2>1, <2>2
<1>4. A!TypeOK'
  <2>1. lost' \in 0 .. MaxLost
    BY <1>1, <1>3
  <2> QED
    BY <1>2, <1>3, <2>1 DEF A!TypeOK, UniqueIds, HarnessSet, A!Ended
<1>5. CopyInv'
  <2>1. h'.pc # "send"
    BY <1>3
  <2>2. h'.version <= version'
    BY <1>2, <1>3
  <2> QED
    BY <2>1, <2>2, NotSending
<1>6. DeletedInv'
  BY <1>1, <1>2, <1>3 DEF DeletedInv, A!DetachDeletesOne, A!DetachOutcome
<1> QED
  BY <1>4, <1>5, <1>6 DEF AttachmentInv

LEMMA WorldStep ==
  ASSUME AttachmentInv, A!World
  PROVE  AttachmentInv'
<1>1. /\ h \in HarnessSet /\ tickets \in SUBSET A!Ticket /\ UniqueIds(tickets) /\ version \in Nat
  BY HarnessTyped DEF AttachmentInv
<1>2. PICK body \in SUBSET A!Ticket : UniqueIds(body) /\ A!Others(body)
  <2>1. CASE A!StatusUpdate
    BY <1>1, <2>1 DEF A!StatusUpdate
  <2>2. ASSUME NEW f \in Foreign, A!ForeignDetach(f)
        PROVE  \E body \in SUBSET A!Ticket : UniqueIds(body) /\ A!Others(body)
    <3>1. PICK x \in tickets : A!Others(tickets \ {x})
      BY <2>2 DEF A!ForeignDetach
    <3>2. UniqueIds(tickets \ {x}) /\ tickets \ {x} \in SUBSET A!Ticket
      BY <1>1 DEF UniqueIds
    <3> QED
      BY <3>1, <3>2
  <2>3. ASSUME NEW f \in Foreign, NEW n \in Nodes, A!ForeignAttach(f, n)
        PROVE  \E body \in SUBSET A!Ticket : UniqueIds(body) /\ A!Others(body)
    <3> DEFINE new == [id |-> f, nodeID |-> n, frontend |-> TRUE]
    <3>1. new \in A!Ticket /\ new.id = f
      BY DEF A!Ticket
    <3>2. A!Others(tickets \cup {new}) /\ \A x \in tickets : x.id # f
      BY <2>3 DEF A!ForeignAttach
    <3> HIDE DEF new
    <3>3. UniqueIds(tickets \cup {new}) /\ tickets \cup {new} \in SUBSET A!Ticket
      BY <1>1, <3>1, <3>2 DEF UniqueIds
    <3> QED
      BY <3>2, <3>3
  <2> QED
    BY <2>1, <2>2, <2>3 DEF A!World
<1>3. /\ tickets' = body /\ version' = version + 1 /\ UNCHANGED <<h, removed, lost>>
  BY <1>2 DEF A!Others
<1>4. A!TypeOK'
  BY <1>1, <1>2, <1>3 DEF AttachmentInv, A!TypeOK, UniqueIds
<1>5. CopyInv'
  <2>1. h.version <= version /\ h.version \in Nat
    BY <1>1 DEF AttachmentInv, CopyInv, HarnessSet
  <2>2. h.version < version'
    BY <1>1, <1>3, <2>1
  <2> QED
    <3>1. h' = h /\ h.version <= version' /\ h.version # version'
      BY <1>1, <1>3, <2>1, <2>2
    <3>2. h.pc = "send" => UniqueIds(h.body)
      BY DEF AttachmentInv, CopyInv
    <3> QED
      BY <3>1, <3>2, Zenon DEF CopyInv, UniqueIds
<1>6. DeletedInv'
  BY <1>3 DEF AttachmentInv, DeletedInv, A!DetachDeletesOne, A!DetachOutcome
<1> QED
  BY <1>4, <1>5, <1>6 DEF AttachmentInv

LEMMA AttachmentStep ==
  ASSUME AttachmentInv, A!Next
  PROVE  AttachmentInv'
BY StartStep, GetStep, FailedAttemptStep, StoredStep, WorldStep DEF A!Next, A!Step

(* Only a store takes a ticket away, and its copy is the edited object.    *)
LEMMA ForeignKeptStep ==
  ASSUME AttachmentInv, A!Next
  PROVE  A!ForeignKept
<1> SUFFICES ASSUME NEW x \in tickets, x.id \in Foreign, \A s \in tickets' : s.id # x.id, ~A!World
             PROVE  h.op = "detach" /\ h.node = x.nodeID /\ A!Own(h.node) = {}
  BY DEF A!ForeignKept
<1>1. tickets' # tickets
  OBVIOUS
<1>2. h.pc = "send" /\ A!Fresh /\ A!Store(h.body)
  BY <1>1 DEF A!Next, A!Step, A!HarnessCall, A!EnableFrontend, A!Attach, A!Detach, A!Start,
     A!GetForAttach, A!GetForDetach, A!GetForEnable, A!GetFails, A!NoTicketToDelete, A!Refused,
     A!Stored, A!StoredReplyLost
<1>3. /\ h \in HarnessSet /\ tickets' = h.body /\ Edited /\ A!TypeOK
      /\ x.id \in A!Ids(tickets) \ A!Ids(h.body)
  BY <1>2, HarnessTyped DEF AttachmentInv, CopyInv, A!Fresh, A!Store, A!Ids
<1>4. h.op = "detach"
  BY <1>3, EditEffect
<1>5. PICK y \in Deletable : x.id = y.id
  BY <1>3, <1>4, EditEffect
<1>6. y = x
  BY <1>3, <1>5, HarnessTyped DEF Deletable, A!Own, A!On, UniqueIds
<1>7. h.node # x.id
  BY <1>3, AttachmentBounds DEF A!Bounds, HarnessSet
<1>8. A!Own(h.node) = {}
  BY <1>5, <1>6, <1>7 DEF Deletable, A!Own
<1>9. h.node = x.nodeID
  BY <1>5, <1>6, <1>8 DEF Deletable, A!On
<1> QED
  BY <1>4, <1>8, <1>9

-----------------------------------------------------------------------------
(* The migration.                                                          *)

(* Only the test changes the tickets.                                      *)
TicketInv ==
    /\ t.old # t.new
    /\ t.pc = "attachOld" => mTickets = {}
    /\ t.pc \in {"waitAttachedOld", "attachNew"} => mTickets = {t.old}
    /\ t.pc \in {"waitAttachedNew", "waitReady", "detach"} => mTickets = {t.old, t.new}
    /\ t.pc \in {"waitOutcome", "done"} => mTickets = {M!Destination}

HasEngine(n) == \E e \in engines : e.node = n
OnlyEngine(n) == \A e \in engines : e.node = n

Engined == /\ mVol.nodeID # None => HasEngine(mVol.nodeID)
           /\ mVol.migrationNodeID # None => HasEngine(mVol.migrationNodeID)

(* The volume's node IDs are those of engines.  Once there is one ticket,  *)
(* an engine elsewhere is not made again: what the test read of the        *)
(* engines stays true while it reads the volume.                           *)
EngineInv ==
    /\ Engined
    /\ t.read => M!Waiting \/ t.pc = "failed"
    /\ t.pc = "waitOutcome" /\ t.read /\ t.seen = {[node |-> M!Destination, endpoint |-> TRUE]}
         => OnlyEngine(M!Destination)
    /\ t.pc = "done" => /\ OnlyEngine(M!Destination)
                        /\ mVol.nodeID = M!Destination /\ mVol.currentNodeID = M!Destination
                        /\ mVol.migrationNodeID = None /\ mVol.currentMigrationNodeID = None

MigrationInv == M!TypeOK /\ TicketInv /\ EngineInv

TestSet ==
    [pc : {"attachOld", "waitAttachedOld", "attachNew", "waitAttachedNew",
           "waitReady", "detach", "waitOutcome", "done", "failed"},
     old : Nodes, new : Nodes, confirm : BOOLEAN, round : 0 .. MigrationRounds - 1,
     read : BOOLEAN, seen : SUBSET M!Engine]

VolumeIDs == [nodeID : Nodes \cup {None}, currentNodeID : Nodes \cup {None},
              migrationNodeID : Nodes \cup {None}, currentMigrationNodeID : Nodes \cup {None}]

LEMMA MigrationTyped == M!TypeOK <=> /\ mTickets \subseteq Nodes /\ mVol \in VolumeIDs
                                     /\ engines \in SUBSET M!Engine /\ t \in TestSet
BY DEF M!TypeOK, VolumeIDs, TestSet, M!NodeID

LEMMA MigrationInit == M!Init => MigrationInv
<1> SUFFICES ASSUME M!Init PROVE MigrationInv
  OBVIOUS
<1>1. PICK old, new \in Nodes, confirm \in BOOLEAN :
        /\ old # new
        /\ t = [pc |-> "attachOld", old |-> old, new |-> new, confirm |-> confirm,
                round |-> 0, read |-> FALSE, seen |-> {}]
  BY DEF M!Init
<1>2. /\ t \in TestSet /\ t.pc = "attachOld" /\ t.old # t.new /\ t.read = FALSE
  <2>1. 0 \in 0 .. MigrationRounds - 1 /\ {} \in SUBSET M!Engine
    BY MigrationBounds DEF M!Bounds
  <2> QED
    BY <1>1, <2>1 DEF TestSet
<1>3. /\ mVol \in VolumeIDs /\ mVol.nodeID = None /\ mVol.migrationNodeID = None
      /\ mTickets = {} /\ engines = {}
  BY DEF M!Init, VolumeIDs
<1>4. M!TypeOK
  BY <1>2, <1>3, MigrationTyped
<1> QED
  BY <1>2, <1>3, <1>4 DEF MigrationInv, TicketInv, EngineInv, Engined, Engined

(* The target follows from what no step of the test changes.               *)
LEMMA TargetStays ==
  ASSUME t'.old = t.old, t'.new = t.new, t'.confirm = t.confirm
  PROVE  M!Destination' = M!Destination
BY DEF M!Destination

(* A read of the engines, and a wait that goes on or fails.                *)
LEMMA RoundStep ==
  ASSUME MigrationInv, M!ReadEngines \/ M!TryAgain
  PROVE  MigrationInv'
<1>1. /\ t \in TestSet /\ M!Waiting /\ engines \in SUBSET M!Engine
      /\ UNCHANGED <<mTickets, mVol, engines>>
  BY MigrationTyped DEF MigrationInv, M!ReadEngines, M!TryAgain
<1>2. /\ t' \in TestSet /\ t'.old = t.old /\ t'.new = t.new /\ t'.confirm = t.confirm
      /\ \/ t'.pc = t.pc /\ t'.read = TRUE /\ t'.seen = engines
         \/ t'.pc = t.pc /\ t'.read = FALSE
         \/ t'.pc = "failed"
  <2>1. CASE M!ReadEngines
    BY <1>1, <2>1 DEF M!ReadEngines, TestSet
  <2>2. CASE M!TryAgain /\ t.round + 1 < MigrationRounds
    <3>1. t.round + 1 \in 0 .. MigrationRounds - 1 /\ {} \in SUBSET M!Engine
      BY <1>1, <2>2, MigrationBounds DEF TestSet, M!Bounds
    <3>2. t' = [t EXCEPT !.round = t.round + 1, !.read = FALSE, !.seen = {}]
      BY <2>2 DEF M!TryAgain
    <3> QED
      BY <1>1, <3>1, <3>2 DEF TestSet
  <2>3. CASE M!TryAgain /\ ~(t.round + 1 < MigrationRounds)
    BY <1>1, <2>3 DEF M!TryAgain, TestSet
  <2> QED
    BY <1>1, <2>1, <2>2, <2>3
<1>3. M!TypeOK'
  BY <1>1, <1>2, MigrationTyped DEF MigrationInv, M!TypeOK, TestSet
<1>4. M!Destination' = M!Destination
  BY <1>2, TargetStays
<1>5. TicketInv'
  BY <1>1, <1>2, <1>4 DEF MigrationInv, TicketInv
<1>6. t.pc # "done"
  BY <1>1 DEF M!Waiting, M!Waits
<1>7. t'.read => M!Waiting' \/ t'.pc = "failed"
  BY <1>1, <1>2 DEF M!Waiting, M!Waits
<1>8. engines = {[node |-> M!Destination, endpoint |-> TRUE]} => OnlyEngine(M!Destination)
  BY DEF OnlyEngine
<1>9. EngineInv'
  BY <1>1, <1>2, <1>4, <1>6, <1>7, <1>8 DEF MigrationInv, EngineInv, Engined, OnlyEngine, HasEngine
<1> QED
  BY <1>3, <1>5, <1>9 DEF MigrationInv

(* A step of the test to where it has not yet read.                        *)
LEMMA UnreadEngines ==
  ASSUME MigrationInv, UNCHANGED <<mVol, engines>>, ~t'.read, t'.pc # "done"
  PROVE  EngineInv'
BY DEF MigrationInv, EngineInv, Engined, HasEngine

(* The wait ends: for the outcome, with what Settled read.                 *)
LEMMA ReadVolumeStep ==
  ASSUME MigrationInv, M!ReadVolume
  PROVE  MigrationInv'
<1>1. /\ t \in TestSet /\ M!Waiting /\ M!Satisfied /\ t.read
      /\ t' = [t EXCEPT !.pc = M!Waits[t.pc], !.round = 0, !.read = FALSE, !.seen = {}]
      /\ UNCHANGED <<mTickets, mVol, engines>>
  BY MigrationTyped DEF MigrationInv, M!ReadVolume
<1>2. /\ t.pc = "waitAttachedOld" => M!Waits[t.pc] = "attachNew"
      /\ t.pc = "waitAttachedNew" => M!Waits[t.pc] = "waitReady"
      /\ t.pc = "waitReady" => M!Waits[t.pc] = "detach"
      /\ t.pc = "waitOutcome" => M!Waits[t.pc] = "done"
      /\ t.pc \in {"waitAttachedOld", "waitAttachedNew", "waitReady", "waitOutcome"}
  BY <1>1 DEF M!Waiting, M!Waits
<1>3. /\ t' \in TestSet /\ t'.pc = M!Waits[t.pc] /\ t'.read = FALSE
      /\ t'.old = t.old /\ t'.new = t.new /\ t'.confirm = t.confirm
  <2>1. 0 \in 0 .. MigrationRounds - 1 /\ {} \in SUBSET M!Engine
    BY MigrationBounds DEF M!Bounds
  <2>2. M!Waits[t.pc] \in {"attachNew", "waitReady", "detach", "done"}
    BY <1>2
  <2> DEFINE next == M!Waits[t.pc]
  <2> HIDE DEF next
  <2> QED
    BY <1>1, <2>1, <2>2 DEF TestSet, next
<1>4. M!TypeOK'
  BY <1>1, <1>3, MigrationTyped DEF MigrationInv, M!TypeOK, TestSet
<1>5. M!Destination' = M!Destination
  BY <1>3, TargetStays
<1>6. TicketInv'
  BY <1>1, <1>2, <1>3, <1>5 DEF MigrationInv, TicketInv
<1>7. CASE t.pc # "waitOutcome"
  <2>1. t'.pc # "done"
    BY <1>2, <1>3, <1>7
  <2> QED
    BY <1>1, <1>3, <1>4, <1>6, <2>1, UnreadEngines DEF MigrationInv
<1>8. CASE t.pc = "waitOutcome"
  <2>1. M!Settled(M!Destination)
    BY <1>1, <1>8 DEF M!Satisfied
  <2>2. OnlyEngine(M!Destination)
    BY <1>1, <1>8, <2>1 DEF M!Settled, MigrationInv, EngineInv
  <2>3. EngineInv'
    BY <1>1, <1>2, <1>3, <1>5, <1>8, <2>1, <2>2
       DEF M!Settled, MigrationInv, EngineInv, Engined, OnlyEngine, HasEngine
  <2> QED
    BY <1>4, <1>6, <2>3 DEF MigrationInv
<1> QED
  BY <1>7, <1>8

LEMMA TicketStep ==
  ASSUME MigrationInv, M!AttachOld \/ M!AttachNew \/ M!Detach
  PROVE  MigrationInv'
<1>1. /\ t \in TestSet /\ mTickets \subseteq Nodes /\ t.old # t.new
      /\ UNCHANGED <<mVol, engines>>
  BY MigrationTyped DEF MigrationInv, TicketInv, M!AttachOld, M!AttachNew, M!Detach
<1>2. ~t.read
  BY DEF MigrationInv, EngineInv, M!Waiting, M!Waits, M!AttachOld, M!AttachNew, M!Detach
<1>3. /\ t' \in TestSet /\ t'.read = t.read
      /\ t'.old = t.old /\ t'.new = t.new /\ t'.confirm = t.confirm
      /\ t'.pc \in {"waitAttachedOld", "waitAttachedNew", "waitOutcome"}
  BY <1>1 DEF M!AttachOld, M!AttachNew, M!Detach, TestSet
<1>4. M!Destination' = M!Destination
  BY <1>3, TargetStays
<1>5. /\ t'.pc = "waitAttachedOld" => mTickets' = {t.old}
      /\ t'.pc = "waitAttachedNew" => mTickets' = {t.old, t.new}
      /\ t'.pc = "waitOutcome" => mTickets' = {M!Destination}
  BY <1>1 DEF MigrationInv, TicketInv, M!AttachOld, M!AttachNew, M!Detach, TestSet, M!Destination
<1>6. M!TypeOK'
  <2>1. mTickets' \subseteq Nodes
    BY <1>1 DEF M!AttachOld, M!AttachNew, M!Detach, TestSet
  <2> QED
    BY <1>1, <1>3, <2>1 DEF MigrationInv, M!TypeOK, TestSet
<1>7. TicketInv'
  BY <1>1, <1>3, <1>4, <1>5 DEF TicketInv
<1>8. EngineInv'
  BY <1>1, <1>2, <1>3, UnreadEngines
<1> QED
  BY <1>6, <1>7, <1>8 DEF MigrationInv

(* A step of Longhorn that replaces no engine of the volume's nodes.       *)
LEMMA ManagerEffect ==
  ASSUME MigrationInv, UNCHANGED <<mTickets, t>>,
         mVol' \in VolumeIDs, engines' \in SUBSET M!Engine,
         Engined',
         t.pc \in {"waitOutcome", "done"} /\ OnlyEngine(M!Destination) => OnlyEngine(M!Destination)',
         t.pc = "done" => UNCHANGED mVol
  PROVE  MigrationInv'
<1>1. M!TypeOK'
  BY MigrationTyped DEF MigrationInv, M!TypeOK, VolumeIDs, M!NodeID
<1>2. M!Destination' = M!Destination
  BY TargetStays
<1>3. TicketInv'
  BY <1>2 DEF MigrationInv, TicketInv
<1>4. EngineInv'
  BY <1>2 DEF MigrationInv, EngineInv, M!Waiting, M!Waits
<1> QED
  BY <1>1, <1>3, <1>4 DEF MigrationInv

LEMMA MigrationFacts ==
  ASSUME MigrationInv
  PROVE  /\ mVol \in VolumeIDs /\ engines \in SUBSET M!Engine /\ t \in TestSet
         /\ mTickets \subseteq Nodes /\ None \notin Nodes
         /\ t.pc \in {"waitOutcome", "done"} => mTickets = {M!Destination}
         /\ t.pc = "done" => /\ mVol.nodeID = M!Destination /\ mVol.currentNodeID = M!Destination
                             /\ mVol.migrationNodeID = None /\ mVol.currentMigrationNodeID = None
                             /\ M!Destination \in Nodes
         /\ mVol.nodeID # None => HasEngine(mVol.nodeID)
         /\ mVol.migrationNodeID # None => HasEngine(mVol.migrationNodeID)
BY MigrationTyped, MigrationBounds
   DEF MigrationInv, TicketInv, EngineInv, Engined, M!Bounds, M!Destination, TestSet

(* Steps that change the volume only, and leave no node ID without engine. *)
LEMMA ReportStep ==
  ASSUME MigrationInv, M!ReportCurrent \/ M!ReportMigration \/ M!EndMigration
  PROVE  MigrationInv'
<1>1. /\ UNCHANGED <<mTickets, t, engines>>
      /\ mVol' \in VolumeIDs
      /\ mVol'.nodeID = mVol.nodeID /\ mVol'.migrationNodeID = mVol.migrationNodeID
      /\ t.pc = "done" => UNCHANGED mVol
  BY MigrationFacts DEF M!ReportCurrent, M!ReportMigration, M!EndMigration, M!Manager, VolumeIDs
<1>2. Engined'
  BY <1>1, MigrationFacts DEF Engined, HasEngine
<1>3. OnlyEngine(M!Destination) => OnlyEngine(M!Destination)'
  BY <1>1, TargetStays DEF OnlyEngine
<1> QED
  BY <1>1, <1>2, <1>3, MigrationFacts, ManagerEffect

LEMMA ConfirmStep ==
  ASSUME MigrationInv, M!Confirm \/ M!RollBack
  PROVE  MigrationInv'
<1>1. /\ UNCHANGED <<mTickets, t, engines>>
      /\ mVol' \in VolumeIDs /\ mVol'.migrationNodeID = None
      /\ mVol'.nodeID \in {mVol.nodeID, mVol.migrationNodeID}
      /\ t.pc # "done"
  BY MigrationFacts DEF M!Confirm, M!RollBack, M!Manager, VolumeIDs
<1>2. Engined'
  BY <1>1, MigrationFacts DEF Engined, HasEngine
<1>3. OnlyEngine(M!Destination) => OnlyEngine(M!Destination)'
  BY <1>1, TargetStays DEF OnlyEngine
<1> QED
  BY <1>1, <1>2, <1>3, MigrationFacts, ManagerEffect

(* Steps that make an engine: once one ticket is left, on its node only.   *)
LEMMA NewEngineStep ==
  ASSUME MigrationInv, M!SelectNode \/ M!StartMigration
  PROVE  MigrationInv'
<1>1. PICK n \in mTickets :
        /\ engines' = engines \cup {[node |-> n, endpoint |-> FALSE]}
        /\ \/ mVol' = [mVol EXCEPT !.nodeID = n]
           \/ mVol' = [mVol EXCEPT !.migrationNodeID = n]
  BY DEF M!SelectNode, M!StartMigration, M!NewEngine
<1>2. /\ UNCHANGED <<mTickets, t>> /\ n \in Nodes
      /\ mVol' \in VolumeIDs
      /\ mVol'.nodeID \in {mVol.nodeID, n} /\ mVol'.migrationNodeID \in {mVol.migrationNodeID, n}
  BY <1>1, MigrationFacts DEF M!SelectNode, M!StartMigration, M!Manager, VolumeIDs
<1>3. /\ engines' \in SUBSET M!Engine /\ engines \subseteq engines' /\ HasEngine(n)'
      /\ \A e \in engines' : e \in engines \/ e.node = n
  <2>1. /\ [node |-> n, endpoint |-> FALSE] \in M!Engine
        /\ [node |-> n, endpoint |-> FALSE].node = n
    BY <1>2 DEF M!Engine
  <2> QED
    BY <1>1, <2>1, MigrationFacts DEF HasEngine
<1>4. t.pc # "done"
  BY MigrationFacts DEF M!SelectNode, M!StartMigration
<1>5. t.pc = "waitOutcome" => n = M!Destination
  BY MigrationFacts
<1>6. OnlyEngine(M!Destination) /\ n = M!Destination => OnlyEngine(M!Destination)'
  BY <1>2, <1>3, TargetStays DEF OnlyEngine
<1> QED
  BY <1>2, <1>3, <1>4, <1>5, <1>6, MigrationFacts, ManagerEffect DEF Engined, HasEngine

(* Steps that change whether an engine has an endpoint.                    *)
LEMMA EndpointStep ==
  ASSUME MigrationInv, M!EngineStarts \/ M!EngineCrashes
  PROVE  MigrationInv'
<1>1. PICK e \in engines, up \in BOOLEAN :
        engines' = (engines \ {e}) \cup {[e EXCEPT !.endpoint = up]}
  BY DEF M!EngineStarts, M!EngineCrashes
<1>2. UNCHANGED <<mTickets, t, mVol>>
  BY DEF M!EngineStarts, M!EngineCrashes, M!Manager
<1>3. [e EXCEPT !.endpoint = up] \in M!Engine /\ [e EXCEPT !.endpoint = up].node = e.node
  BY MigrationFacts DEF M!Engine
<1>4. /\ engines' \in SUBSET M!Engine
      /\ \A n : HasEngine(n) => HasEngine(n)'
      /\ \A n : OnlyEngine(n) => \A f \in engines' : f.node = n
  BY <1>1, <1>3, MigrationFacts DEF HasEngine, OnlyEngine
<1>5. OnlyEngine(M!Destination) => OnlyEngine(M!Destination)'
  BY <1>2, <1>4, TargetStays DEF OnlyEngine
<1> QED
  BY <1>2, <1>4, <1>5, MigrationFacts, ManagerEffect DEF Engined, HasEngine

LEMMA RemoveStep ==
  ASSUME MigrationInv, M!RemoveEngine \/ M!DetachVolume
  PROVE  MigrationInv'
<1>1. UNCHANGED <<mTickets, t>> /\ engines' \subseteq engines
  BY DEF M!RemoveEngine, M!DetachVolume, M!Manager
<1>2. OnlyEngine(M!Destination) => OnlyEngine(M!Destination)'
  BY <1>1, TargetStays DEF OnlyEngine
<1>3. CASE M!RemoveEngine
  <2>1. /\ UNCHANGED mVol /\ mVol.migrationNodeID = None
        /\ \E e \in engines : e.node # mVol.nodeID /\ engines' = engines \ {e}
    BY <1>3 DEF M!RemoveEngine
  <2>2. mVol.nodeID # None => HasEngine(mVol.nodeID)'
    BY <2>1, MigrationFacts DEF HasEngine
  <2> QED
    BY <1>1, <1>2, <2>1, <2>2, MigrationFacts, ManagerEffect DEF Engined, HasEngine
<1>4. CASE M!DetachVolume
  <2>1. /\ mVol' \in VolumeIDs /\ mVol'.nodeID = None /\ mVol'.migrationNodeID = None
        /\ t.pc # "done"
    BY <1>4, MigrationFacts DEF M!DetachVolume, VolumeIDs
  <2> QED
    BY <1>1, <1>2, <2>1, MigrationFacts, ManagerEffect DEF Engined
<1> QED
  BY <1>3, <1>4

LEMMA MigrationStep ==
  ASSUME MigrationInv, M!Next
  PROVE  MigrationInv'
BY RoundStep, ReadVolumeStep, TicketStep, ReportStep, ConfirmStep, NewEngineStep, EndpointStep,
   RemoveStep DEF M!Next, M!Test, M!Longhorn

-----------------------------------------------------------------------------
(* The restoration.                                                        *)

(* Which call the test thread is in.                                       *)
CallInv ==
    /\ test.call = "none" => test.pc \in {"idle", "failed"}
    /\ test.call = "create" => /\ test.pc \in {"post", "state", "required", "verify"}
                               /\ test.from = hist.from /\ hist.need = 0 /\ hist.creates > 0
                               /\ ~hist.gone /\ ~hist.ready /\ ~hist.restored
    /\ test.call = "delete" => /\ test.pc \in {"clear", "remove", "gone"}
                               /\ ~hist.ready /\ ~hist.restored
    /\ test.call = "restored" => test.pc \in {"engines", "required"}
    /\ test.call = "started" => test.pc = "started"
    /\ test.call = "activate" => test.pc \in {"activate", "request", "check", "state"}
    /\ test.pc = "request" => test.round < RestorationRounds

(* The volume, whoever made it: its data never fall behind its backup nor  *)
(* behind what the test was told.                                          *)
DataInv ==
    /\ vol.by = 0 => vol.kind = "plain" /\ ~vol.deleting
    /\ vol.data = 0 \/ vol.data >= vol.from
    /\ vol.kind = "restore" => vol.data <= vol.from
    /\ vol.kind \in {"standby", "activated"} => vol.data >= hist.need

(* The name was free before the last create: the volume is of that create. *)
FreeInv ==
    /\ hist.gone => vol.by = 0
    /\ hist.free => vol.by \in {0, hist.creates}
    /\ hist.free /\ test.call = "create" => ~vol.deleting
    /\ hist.free /\ hist.ready => vol.by # 0 /\ ~vol.deleting

(* create saw the restoration required, so it is over when it no longer is.*)
RestoredInv ==
    /\ test.pc = "verify" /\ test.kind = "restore" /\ vol.kind = "restore" /\ ~vol.required
         => vol.data = vol.from
    /\ hist.ready /\ vol.kind = "restore" => /\ vol.from = hist.from
                                             /\ ~vol.required => vol.data = vol.from
    /\ hist.ready /\ hist.restored /\ vol.kind = "restore" => vol.data = vol.from

RestorationInv == R!TypeOK /\ CallInv /\ DataInv /\ FreeInv /\ RestoredInv

Place == {"idle", "post", "verify", "clear", "remove", "activate", "request", "check", "failed",
          "state", "required", "gone", "engines", "started"}

CallerSet == [pc : Place, call : {"none", "create", "delete", "restored", "started", "activate"},
              kind : {"plain", "restore", "standby", "activated"}, from : 0 .. MaxBackups,
              option : BOOLEAN, round : 0 .. RestorationRounds]

VolumeSet == [by : 0 .. MaxCreates, kind : {"plain", "restore", "standby", "activated"},
              from : 0 .. MaxBackups, state : {"none", "detached", "attached"},
              required : BOOLEAN, engine : BOOLEAN, data : 0 .. MaxBackups, last : 0 .. MaxBackups,
              finalizer : BOOLEAN, deleting : BOOLEAN]

ToldSet == [creates : 0 .. MaxCreates, gone : BOOLEAN, free : BOOLEAN, ready : BOOLEAN,
            restored : BOOLEAN, from : 0 .. MaxBackups, need : 0 .. MaxBackups]

LEMMA RestorationTyped ==
  R!TypeOK <=> /\ backups \in 0 .. MaxBackups /\ vol \in VolumeSet /\ test \in CallerSet
               /\ faults \in 0 .. RestorationFaults /\ hist \in ToldSet
<1>1. {"idle", "post", "verify", "clear", "remove", "activate", "request", "check", "failed"}
      \cup R!Polls = Place
  BY DEF R!Polls, Place
<1> QED
  BY <1>1 DEF R!TypeOK, VolumeSet, CallerSet, ToldSet, R!Backup, R!Kinds

LEMMA RestorationNumbers ==
  /\ RestorationRounds \in Nat /\ 0 \in 0 .. RestorationRounds /\ 0 < RestorationRounds
  /\ MaxBackups \in Nat /\ 0 \in 0 .. MaxBackups /\ 1 \in 0 .. MaxBackups
  /\ MaxCreates \in Nat /\ 0 \in 0 .. MaxCreates
  /\ RestorationFaults \in Nat /\ 0 \in 0 .. RestorationFaults
BY RestorationBounds DEF R!Bounds

LEMMA RestorationFacts ==
  ASSUME RestorationInv
  PROVE  /\ backups \in 0 .. MaxBackups /\ vol \in VolumeSet /\ test \in CallerSet
         /\ faults \in 0 .. RestorationFaults /\ hist \in ToldSet
         /\ CallInv /\ DataInv /\ FreeInv /\ RestoredInv
BY RestorationTyped DEF RestorationInv

(* There is no volume.                                                     *)
LEMMA NoVolumeTyped ==
  /\ R!NoVolume \in VolumeSet /\ R!NoVolume.by = 0 /\ R!NoVolume.kind = "plain"
  /\ R!NoVolume.from = 0 /\ R!NoVolume.data = 0 /\ R!NoVolume.deleting = FALSE
BY RestorationNumbers DEF R!NoVolume, R!New, VolumeSet

LEMMA NoCallTyped ==
  /\ R!NoCall \in CallerSet /\ R!NoCall.call = "none" /\ R!NoCall.pc = "idle"
BY RestorationNumbers DEF R!NoCall, CallerSet, Place

LEMMA RestorationInit == R!Init => RestorationInv
<1> SUFFICES ASSUME R!Init PROVE RestorationInv
  OBVIOUS
<1>1. /\ vol \in VolumeSet /\ vol.by = 0 /\ vol.kind = "plain" /\ vol.data = 0 /\ vol.from = 0
      /\ vol.deleting = FALSE
      /\ test \in CallerSet /\ test.call = "none" /\ test.pc = "idle"
  BY NoVolumeTyped, NoCallTyped DEF R!Init
<1>2. /\ hist \in ToldSet /\ hist.free = FALSE /\ hist.ready = FALSE /\ hist.need = 0
      /\ backups \in 0 .. MaxBackups /\ faults \in 0 .. RestorationFaults
  BY RestorationNumbers DEF R!Init, ToldSet
<1>3. R!TypeOK
  BY <1>1, <1>2, RestorationTyped
<1>4. CallInv
  BY <1>1 DEF CallInv
<1>5. DataInv /\ FreeInv /\ RestoredInv
  BY <1>1, <1>2 DEF DataInv, FreeInv, RestoredInv
<1> QED
  BY <1>3, <1>4, <1>5 DEF RestorationInv

LEMMA FaultTyped ==
  ASSUME faults \in 0 .. RestorationFaults, UNCHANGED faults \/ R!Fault
  PROVE  faults' \in 0 .. RestorationFaults
BY RestorationNumbers DEF R!Fault

(* The end of a call.                                                      *)
LEMMA EndEffect ==
  ASSUME R!Returns \/ R!Fails
  PROVE  test' \in CallerSet /\ test'.call = "none" /\ test'.pc \in {"idle", "failed"}
<1>1. CASE R!Returns
  BY <1>1, NoCallTyped DEF R!Returns
<1>2. CASE R!Fails
  BY <1>2, NoCallTyped DEF R!Fails, CallerSet, Place
<1> QED
  BY <1>1, <1>2

LEMMA GotoEffect ==
  ASSUME test \in CallerSet, NEW pc \in Place, R!Goto(pc)
  PROVE  /\ test' \in CallerSet /\ test'.pc = pc /\ test'.call = test.call
         /\ test'.kind = test.kind /\ test'.from = test.from /\ test'.round = 0
BY RestorationNumbers DEF R!Goto, CallerSet

LEMMA NextRoundEffect ==
  ASSUME test \in CallerSet, test.round < RestorationRounds, R!NextRound
  PROVE  /\ test' \in CallerSet /\ test'.pc = test.pc /\ test'.call = test.call
         /\ test'.kind = test.kind /\ test'.from = test.from
<1>1. test.round + 1 \in 0 .. RestorationRounds
  BY RestorationNumbers DEF CallerSet
<1> QED
  BY <1>1 DEF R!NextRound, CallerSet

(* The end of a call that leaves the volume and what it was told.          *)
LEMMA EndStep ==
  ASSUME RestorationInv, R!Returns \/ R!Fails, UNCHANGED <<backups, vol, hist>>,
         UNCHANGED faults \/ R!Fault
  PROVE  RestorationInv'
<1>1. test' \in CallerSet /\ test'.call = "none" /\ test'.pc \in {"idle", "failed"}
  BY EndEffect
<1>2. R!TypeOK'
  BY <1>1, RestorationFacts, FaultTyped, RestorationTyped DEF RestorationInv, R!TypeOK, CallerSet, Place, R!Polls, R!Backup, R!Kinds
<1>3. CallInv'
  BY <1>1 DEF CallInv
<1>4. DataInv'
  BY DEF RestorationInv, DataInv
<1>5. FreeInv' /\ RestoredInv'
  BY <1>1 DEF RestorationInv, FreeInv, RestoredInv
<1> QED
  BY <1>2, <1>3, <1>4, <1>5 DEF RestorationInv

(* A move to another place of the same call.                               *)
LEMMA MoveStep ==
  ASSUME RestorationInv, UNCHANGED <<backups, vol, hist>>, UNCHANGED faults \/ R!Fault,
         test' \in CallerSet, test'.call = test.call, test'.kind = test.kind,
         test'.from = test.from,
         test'.pc = "verify" => \/ test.pc = "verify"
                                \/ test.kind = "restore" => vol.required,
         CallInv'
  PROVE  RestorationInv'
<1>1. R!TypeOK'
  BY RestorationFacts, FaultTyped, RestorationTyped DEF RestorationInv, R!TypeOK, CallerSet, Place, R!Polls, R!Backup, R!Kinds
<1>2. DataInv'
  BY DEF RestorationInv, DataInv
<1>3. FreeInv'
  BY DEF RestorationInv, FreeInv
<1>4. RestoredInv'
  BY DEF RestorationInv, RestoredInv
<1> QED
  BY <1>1, <1>2, <1>3, <1>4 DEF RestorationInv

LEMMA TypedNext ==
  ASSUME backups' \in 0 .. MaxBackups, vol' \in VolumeSet, test' \in CallerSet,
         faults' \in 0 .. RestorationFaults, hist' \in ToldSet
  PROVE  R!TypeOK'
<1>1. {"idle", "post", "verify", "clear", "remove", "activate", "request", "check", "failed"}
      \cup R!Polls = Place
  BY DEF R!Polls, Place
<1> QED
  BY <1>1 DEF R!TypeOK, VolumeSet, CallerSet, ToldSet, R!Backup, R!Kinds

(* Longhorn changes a volume, but not which volume it is.                  *)
LEMMA VolumeStep ==
  ASSUME RestorationInv, UNCHANGED <<backups, test, faults, hist>>, vol' \in VolumeSet,
         vol'.by = vol.by, vol'.kind = vol.kind, vol'.from = vol.from,
         vol'.deleting = vol.deleting, DataInv',
         vol.kind = "restore" /\ vol.data = vol.from => vol'.data = vol.from,
         vol.kind = "restore" /\ ~vol'.required => ~vol.required \/ vol'.data = vol.from
  PROVE  RestorationInv'
<1>1. R!TypeOK'
  BY RestorationFacts, TypedNext
<1>2. CallInv'
  BY DEF RestorationInv, CallInv
<1>3. FreeInv'
  BY DEF RestorationInv, FreeInv
<1>4. RestoredInv'
  BY DEF RestorationInv, RestoredInv
<1> QED
  BY <1>1, <1>2, <1>3, <1>4 DEF RestorationInv

(* The steps of Longhorn that the invariant does not look at.              *)
LEMMA QuietStep ==
  ASSUME RestorationInv,
         R!AddEngine \/ R!Detach \/ R!Attach \/ R!LearnLastBackup \/ R!AddFinalizer
  PROVE  RestorationInv'
<1>1. vol \in VolumeSet /\ backups \in 0 .. MaxBackups
  BY RestorationFacts
<1>2. /\ UNCHANGED <<backups, test, faults, hist>> /\ vol' \in VolumeSet
      /\ vol'.by = vol.by /\ vol'.kind = vol.kind /\ vol'.from = vol.from
      /\ vol'.deleting = vol.deleting /\ vol'.data = vol.data /\ vol'.required = vol.required
  BY <1>1 DEF R!AddEngine, R!Detach, R!Attach, R!LearnLastBackup, R!AddFinalizer, R!Becomes, VolumeSet
<1>3. DataInv'
  BY <1>2 DEF RestorationInv, DataInv
<1> QED
  BY <1>2, <1>3, VolumeStep

LEMMA RequireStep ==
  ASSUME RestorationInv, R!RequireRestore \/ R!FinishRestore
  PROVE  RestorationInv'
<1>1. vol \in VolumeSet /\ DataInv
  BY RestorationFacts
<1>2. /\ UNCHANGED <<backups, test, faults, hist>> /\ vol' \in VolumeSet
      /\ vol'.by = vol.by /\ vol'.kind = vol.kind /\ vol'.from = vol.from
      /\ vol'.deleting = vol.deleting /\ vol'.data = vol.data
      /\ vol'.required \/ vol.data >= vol.from
  BY <1>1 DEF R!RequireRestore, R!FinishRestore, R!Becomes, VolumeSet
<1>3. DataInv'
  BY <1>2 DEF RestorationInv, DataInv
<1>4. vol.kind = "restore" /\ vol.data >= vol.from => vol.data = vol.from
  BY <1>1 DEF DataInv, VolumeSet
<1> QED
  BY <1>2, <1>3, <1>4, VolumeStep

LEMMA RestoreStep ==
  ASSUME RestorationInv, R!Restore
  PROVE  RestorationInv'
<1>1. vol \in VolumeSet /\ hist \in ToldSet /\ DataInv
  BY RestorationFacts
<1> DEFINE data == IF vol.data = 0 THEN vol.from ELSE vol.last
<1>2. data \in 0 .. MaxBackups
  BY <1>1 DEF VolumeSet
<1>3. /\ UNCHANGED <<backups, test, faults, hist>> /\ vol' = [vol EXCEPT !.data = data]
      /\ vol.by # 0
      /\ vol.data < vol.from \/ (vol.kind = "standby" /\ vol.data < vol.last)
  BY DEF R!Restore, R!Restoring, R!Exists, R!Standby, R!Becomes
<1>4. /\ vol.data <= data /\ data >= vol.from
      /\ vol.kind = "restore" => vol.data # vol.from /\ data = vol.from
  <2>1. /\ vol.from \in Nat /\ vol.data \in Nat /\ vol.last \in Nat
        /\ vol.data = 0 \/ vol.data >= vol.from
    BY <1>1 DEF VolumeSet, DataInv
  <2>2. vol.kind = "restore" => vol.kind # "standby"
    OBVIOUS
  <2>3. CASE vol.data = 0 /\ vol.from > 0
    BY <2>1, <2>3
  <2>4. CASE vol.data = 0 /\ vol.from = 0
    BY <1>3, <2>1, <2>4
  <2>5. CASE vol.data # 0
    BY <1>3, <2>1, <2>2, <2>5
  <2> QED
    BY <2>1, <2>3, <2>4, <2>5
<1> HIDE DEF data
<1>5. /\ vol' \in VolumeSet /\ vol'.by = vol.by /\ vol'.kind = vol.kind /\ vol'.from = vol.from
      /\ vol'.deleting = vol.deleting /\ vol'.data = data /\ vol'.required = vol.required
  BY <1>1, <1>2, <1>3 DEF VolumeSet
<1>6. DataInv'
  <2>1. /\ vol.data \in Nat /\ data \in Nat /\ vol.from \in Nat /\ hist.need \in Nat
        /\ hist' = hist
    BY <1>1, <1>2, <1>3 DEF VolumeSet, ToldSet
  <2>2. data >= vol.from /\ (vol.data >= hist.need => data >= hist.need)
        /\ (vol.kind = "restore" => data <= vol.from)
    BY <1>4, <2>1
  <2> QED
    BY <1>1, <1>3, <1>5, <2>1, <2>2 DEF DataInv
<1> QED
  BY <1>3, <1>4, <1>5, <1>6, VolumeStep

(* The volume is gone: nothing was told of it but that it may go.          *)
LEMMA GoneVolume ==
  ASSUME RestorationInv, vol' = R!NoVolume, UNCHANGED hist,
         hist.free /\ hist.ready => vol.deleting
  PROVE  DataInv' /\ FreeInv' /\ RestoredInv'
<1>1. /\ vol'.by = 0 /\ vol'.kind = "plain" /\ vol'.from = 0 /\ vol'.data = 0 /\ vol'.deleting = FALSE
  BY NoVolumeTyped
<1>2. DataInv'
  BY <1>1 DEF DataInv
<1>3. FreeInv'
  BY <1>1 DEF RestorationInv, FreeInv
<1>4. RestoredInv'
  BY <1>1 DEF RestoredInv
<1> QED
  BY <1>2, <1>3, <1>4

LEMMA FinishDeleteStep ==
  ASSUME RestorationInv, R!FinishDelete
  PROVE  RestorationInv'
<1>1. vol.deleting /\ vol' = R!NoVolume /\ UNCHANGED <<backups, test, faults, hist>>
  BY DEF R!FinishDelete, R!Becomes
<1>2. R!TypeOK'
  BY <1>1, NoVolumeTyped, RestorationFacts, TypedNext
<1>3. CallInv'
  BY <1>1 DEF RestorationInv, CallInv
<1> QED
  BY <1>1, <1>2, <1>3, GoneVolume DEF RestorationInv

LEMMA RestorationLonghornStep ==
  ASSUME RestorationInv, R!Longhorn
  PROVE  RestorationInv'
BY QuietStep, RequireStep, RestoreStep, FinishDeleteStep DEF R!Longhorn

(* The calls begin.                                                        *)
LEMMA CreateStep ==
  ASSUME RestorationInv, NEW kind \in {"plain", "restore", "standby"}, NEW from \in 0 .. MaxBackups,
         NEW retry \in BOOLEAN, R!Create(kind, from, retry)
  PROVE  RestorationInv'
<1>1. /\ vol \in VolumeSet /\ hist \in ToldSet /\ DataInv /\ FreeInv
      /\ UNCHANGED <<backups, vol, faults>>
  BY RestorationFacts DEF R!Create
<1>2. hist.creates + 1 \in 0 .. MaxCreates /\ hist.creates + 1 > 0 /\ hist.creates \in Nat
  BY <1>1, RestorationNumbers DEF R!Create, ToldSet
<1>3. /\ test' \in CallerSet /\ test'.call = "create" /\ test'.pc = "post" /\ test'.from = from
  BY RestorationNumbers DEF R!Create, CallerSet, Place
<1>4. /\ hist' \in ToldSet /\ hist'.creates = hist.creates + 1 /\ hist'.free = hist.gone
      /\ hist'.gone = FALSE /\ hist'.ready = FALSE /\ hist'.restored = FALSE /\ hist'.from = from
      /\ hist'.need = 0
  BY <1>1, <1>2, RestorationNumbers DEF R!Create, ToldSet
<1>5. R!TypeOK'
  BY <1>1, <1>3, <1>4, RestorationFacts, TypedNext
<1>6. CallInv'
  BY <1>2, <1>3, <1>4 DEF CallInv
<1>7. DataInv'
  <2>1. vol.data >= 0
    BY <1>1 DEF VolumeSet
  <2> QED
    BY <1>1, <1>4, <2>1 DEF DataInv
<1>8. FreeInv'
  BY <1>1, <1>4 DEF FreeInv, DataInv
<1>9. RestoredInv'
  BY <1>3, <1>4 DEF RestoredInv
<1> QED
  BY <1>5, <1>6, <1>7, <1>8, <1>9 DEF RestorationInv

LEMMA DeleteStep ==
  ASSUME RestorationInv, NEW wait \in BOOLEAN, R!Delete(wait)
  PROVE  RestorationInv'
<1>1. /\ vol \in VolumeSet /\ hist \in ToldSet /\ DataInv /\ FreeInv
      /\ UNCHANGED <<backups, vol, faults>>
  BY RestorationFacts DEF R!Delete
<1>2. test' \in CallerSet /\ test'.call = "delete" /\ test'.pc = "clear"
  BY NoCallTyped DEF R!Delete, CallerSet, Place
<1>3. /\ hist' \in ToldSet /\ hist'.creates = hist.creates /\ hist'.free = hist.free
      /\ hist'.gone = FALSE /\ hist'.ready = FALSE /\ hist'.restored = FALSE
      /\ hist'.from = hist.from /\ hist'.need = hist.need
  BY <1>1 DEF R!Delete, ToldSet
<1>4. R!TypeOK'
  BY <1>1, <1>2, <1>3, RestorationFacts, TypedNext
<1>5. CallInv'
  BY <1>2, <1>3 DEF CallInv
<1>6. DataInv'
  BY <1>1, <1>3 DEF DataInv
<1>7. FreeInv'
  BY <1>1, <1>2, <1>3 DEF FreeInv
<1>8. RestoredInv'
  BY <1>2, <1>3 DEF RestoredInv
<1> QED
  BY <1>4, <1>5, <1>6, <1>7, <1>8 DEF RestorationInv

LEMMA AwaitBeginStep ==
  ASSUME RestorationInv, R!AwaitRestored \/ R!Activate \/ \E b \in 1 .. backups : R!AwaitStarted(b)
  PROVE  RestorationInv'
<1>1. UNCHANGED <<backups, vol, faults, hist>> /\ backups \in 0 .. MaxBackups
  BY RestorationFacts DEF R!AwaitRestored, R!Activate, R!AwaitStarted
<1>2. /\ test' \in CallerSet
      /\ \/ test'.call = "restored" /\ test'.pc = "engines"
         \/ test'.call = "started" /\ test'.pc = "started"
         \/ test'.call = "activate" /\ test'.pc = "activate"
  <2>1. \A b \in 1 .. backups : b \in 0 .. MaxBackups
    BY <1>1, RestorationNumbers
  <2> QED
    BY <2>1, NoCallTyped DEF R!AwaitRestored, R!Activate, R!AwaitStarted, CallerSet, Place
<1>3. R!TypeOK'
  BY <1>1, <1>2, RestorationFacts, TypedNext
<1>4. CallInv'
  BY <1>2 DEF CallInv
<1>5. DataInv'
  BY <1>1 DEF RestorationInv, DataInv
<1>6. FreeInv' /\ RestoredInv'
  BY <1>1, <1>2 DEF RestorationInv, FreeInv, RestoredInv
<1> QED
  BY <1>3, <1>4, <1>5, <1>6 DEF RestorationInv

LEMMA BackUpStep ==
  ASSUME RestorationInv, R!BackUp
  PROVE  RestorationInv'
<1>1. UNCHANGED <<vol, test, faults, hist>> /\ backups' \in 0 .. MaxBackups
  BY RestorationFacts, RestorationNumbers DEF R!BackUp
<1>2. R!TypeOK'
  BY <1>1, RestorationFacts, TypedNext
<1> QED
  BY <1>1, <1>2 DEF RestorationInv, CallInv, DataInv, FreeInv, RestoredInv

LEMMA BeginStep ==
  ASSUME RestorationInv, R!Begin
  PROVE  RestorationInv'
<1>1. \A b \in 1 .. backups : b \in 0 .. MaxBackups
  BY RestorationFacts, RestorationNumbers
<1>2. 0 \in 0 .. MaxBackups
  BY RestorationNumbers
<1>3. CASE \E retry \in BOOLEAN : R!Create("plain", 0, retry)
  BY <1>2, <1>3, CreateStep
<1>4. CASE \E kind \in {"restore", "standby"}, b \in 1 .. backups, retry \in BOOLEAN :
             R!Create(kind, b, retry)
  BY <1>1, <1>4, CreateStep
<1> QED
  BY <1>3, <1>4, BackUpStep, DeleteStep, AwaitBeginStep DEF R!Begin

(* Which call a place belongs to.                                          *)
LEMMA CallOf ==
  ASSUME RestorationInv
  PROVE  /\ test.pc \in {"post", "verify"} => test.call = "create"
         /\ test.pc \in {"clear", "remove", "gone"} => test.call = "delete"
         /\ test.pc \in {"activate", "request", "check"} => test.call = "activate"
         /\ test.pc = "engines" => test.call = "restored"
         /\ test.pc = "started" => test.call = "started"
         /\ test.pc = "required" => test.call \in {"create", "restored"}
         /\ test.pc = "state" => test.call \in {"create", "activate"}
<1>1. test.call \in {"none", "create", "delete", "restored", "started", "activate"}
  BY RestorationFacts DEF CallerSet
<1> QED
  BY <1>1 DEF RestorationInv, CallInv

(* A request of create makes the volume, or none.                          *)
LEMMA PostEffect ==
  ASSUME RestorationInv, test.pc = "post", R!Stored \/ UNCHANGED vol, UNCHANGED hist,
         test'.pc # "verify"
  PROVE  /\ vol' \in VolumeSet /\ DataInv' /\ FreeInv' /\ RestoredInv'
<1>1. /\ vol \in VolumeSet /\ hist \in ToldSet /\ test \in CallerSet
      /\ test.call = "create" /\ test.from = hist.from /\ hist.need = 0 /\ hist.creates > 0
      /\ ~hist.gone /\ ~hist.ready
  BY RestorationFacts, CallOf DEF CallInv
<1>2. CASE R!Stored
  <2>1. /\ hist.creates \in 0 .. MaxCreates /\ test.from \in 0 .. MaxBackups
        /\ test.kind \in {"plain", "restore", "standby", "activated"}
    BY <1>1 DEF ToldSet, CallerSet
  <2>2. /\ vol' \in VolumeSet /\ vol'.by = hist.creates /\ vol'.data = 0 /\ vol'.deleting = FALSE
        /\ vol'.from \in 0 .. MaxBackups
    <3>1. vol' = R!New(hist.creates, test.kind, test.from)
      BY <1>2 DEF R!Stored
    <3> QED
      BY <2>1, <3>1, RestorationNumbers DEF R!New, VolumeSet
  <2>3. DataInv'
    BY <1>1, <2>1, <2>2 DEF DataInv
  <2>4. FreeInv' /\ RestoredInv'
    BY <1>1, <2>2 DEF FreeInv, RestoredInv
  <2> QED
    BY <2>2, <2>3, <2>4
<1>3. CASE UNCHANGED vol
  <2>1. DataInv'
    BY <1>3 DEF RestorationInv, DataInv
  <2>2. FreeInv'
    BY <1>1, <1>3 DEF RestorationInv, FreeInv
  <2>3. RestoredInv'
    BY <1>1 DEF RestoredInv
  <2> QED
    BY <1>1, <1>3, <2>1, <2>2, <2>3
<1> QED
  BY <1>2, <1>3

LEMMA PostStep ==
  ASSUME RestorationInv, R!Posted \/ R!PostFails
  PROVE  RestorationInv'
<1>1. /\ UNCHANGED <<backups, hist>> /\ test.pc = "post" /\ test.round < RestorationRounds
      /\ R!Stored \/ UNCHANGED vol
      /\ UNCHANGED faults \/ R!Fault
      /\ test \in CallerSet /\ CallInv /\ test.call = "create"
  BY RestorationFacts, CallOf DEF R!Posted, R!PostFails
<1>2. /\ test' \in CallerSet
      /\ \/ test'.call = "none" /\ test'.pc \in {"idle", "failed"}
         \/ /\ test'.call = "create" /\ test'.pc \in {"post", "state"}
            /\ test'.from = test.from
  <2>1. R!Goto("state") \/ R!NextRound \/ R!Fails \/ R!Returns
    BY DEF R!Posted, R!PostFails
  <2>2. "state" \in Place
    BY DEF Place
  <2> QED
    BY <1>1, <2>1, <2>2, GotoEffect, NextRoundEffect, EndEffect
<1>3. vol' \in VolumeSet /\ DataInv' /\ FreeInv' /\ RestoredInv'
  BY <1>1, <1>2, PostEffect
<1>4. R!TypeOK'
  BY <1>1, <1>2, <1>3, RestorationFacts, FaultTyped, TypedNext
<1>5. CallInv'
  BY <1>1, <1>2 DEF CallInv
<1> QED
  BY <1>3, <1>4, <1>5 DEF RestorationInv

(* The steps that only move the thread.                                    *)
LEMMA NextRoundStep ==
  ASSUME RestorationInv, UNCHANGED <<backups, vol, hist>>, UNCHANGED faults \/ R!Fault,
         test.round < RestorationRounds, test.pc # "request", R!NextRound
  PROVE  RestorationInv'
<1>1. test \in CallerSet /\ CallInv
  BY RestorationFacts
<1>2. /\ test' \in CallerSet /\ test'.pc = test.pc /\ test'.call = test.call
      /\ test'.kind = test.kind /\ test'.from = test.from
  BY <1>1, NextRoundEffect
<1>3. CallInv'
  BY <1>1, <1>2 DEF CallInv
<1> QED
  BY <1>2, <1>3, MoveStep

LEMMA GotoStep ==
  ASSUME RestorationInv, UNCHANGED <<backups, vol, hist, faults>>, NEW pc \in Place, R!Goto(pc),
         \/ test.call = "create" /\ pc = "state"
         \/ test.call = "activate" /\ pc \in {"check", "state"}
  PROVE  RestorationInv'
<1>1. test \in CallerSet /\ CallInv
  BY RestorationFacts
<1>2. /\ test' \in CallerSet /\ test'.pc = pc /\ test'.call = test.call
      /\ test'.kind = test.kind /\ test'.from = test.from
  BY <1>1, GotoEffect
<1>3. CallInv' /\ test'.pc # "verify"
  BY <1>1, <1>2 DEF CallInv
<1> QED
  BY <1>2, <1>3, MoveStep

LEMMA MovesStep ==
  ASSUME RestorationInv,
         \/ R!PostGivesUp \/ R!NotYetRestored \/ R!ActivateGivesUp \/ R!CheckActive
         \/ R!ActivateReadFails \/ R!StandbyUnknown \/ R!PollGoesOn \/ R!PollTimesOut
  PROVE  RestorationInv'
<1>1. /\ test.pc = "post" => test.call = "create"
      /\ test.pc \in {"activate", "check"} => test.call = "activate"
      /\ "state" \in Place /\ "check" \in Place
  BY CallOf DEF Place
<1>2. CASE R!PostGivesUp \/ R!ActivateGivesUp
  BY <1>1, <1>2, GotoStep DEF R!PostGivesUp, R!ActivateGivesUp
<1>3. CASE R!NotYetRestored
  BY <1>3, NextRoundStep DEF R!NotYetRestored
<1>4. CASE R!CheckActive
  BY <1>1, <1>4, GotoStep, EndStep DEF R!CheckActive
<1>5. CASE R!ActivateReadFails \/ R!StandbyUnknown \/ R!PollTimesOut
  BY <1>5, EndStep DEF R!ActivateReadFails, R!StandbyUnknown, R!PollTimesOut
<1>6. CASE R!PollGoesOn
  BY <1>6, NextRoundStep DEF R!PollGoesOn, R!Polling, R!Polls
<1> QED
  BY <1>2, <1>3, <1>4, <1>5, <1>6

(* create compares what it asked for with what is there.                   *)
LEMMA VerifyStep ==
  ASSUME RestorationInv, R!Verify
  PROVE  RestorationInv'
<1>1. CASE R!AsAsked /\ R!Returns /\ hist' = [hist EXCEPT !.ready = TRUE] /\ UNCHANGED faults
  <2>1. /\ vol \in VolumeSet /\ hist \in ToldSet /\ CallInv /\ DataInv /\ FreeInv /\ RestoredInv
        /\ UNCHANGED <<backups, vol>> /\ test.pc = "verify" /\ test.call = "create"
    BY RestorationFacts, CallOf DEF R!Verify
  <2>2. test' \in CallerSet /\ test'.call = "none" /\ test'.pc \in {"idle", "failed"}
    BY <1>1, EndEffect
  <2>3. /\ hist' \in ToldSet /\ hist'.creates = hist.creates /\ hist'.free = hist.free
        /\ hist'.gone = hist.gone /\ hist'.restored = hist.restored
        /\ hist'.from = hist.from /\ hist'.need = hist.need
    BY <1>1, <2>1 DEF ToldSet
  <2>4. vol.by # 0 /\ vol.kind = test.kind /\ vol.from = test.from /\ test.from = hist.from
        /\ ~hist.restored
    BY <1>1, <2>1 DEF R!AsAsked, R!Exists, CallInv
  <2>5. R!TypeOK'
    BY <1>1, <2>1, <2>2, <2>3, RestorationFacts, TypedNext
  <2>6. CallInv'
    BY <2>2 DEF CallInv
  <2>7. DataInv'
    BY <2>1, <2>3 DEF DataInv
  <2>8. FreeInv'
    BY <2>1, <2>2, <2>3, <2>4 DEF FreeInv
  <2>9. RestoredInv'
    BY <2>1, <2>2, <2>3, <2>4 DEF RestoredInv
  <2> QED
    BY <2>5, <2>6, <2>7, <2>8, <2>9 DEF RestorationInv
<1>2. CASE R!Fails /\ UNCHANGED hist /\ (UNCHANGED faults \/ R!Fault)
  BY <1>2, EndStep DEF R!Verify
<1> QED
  BY <1>1, <1>2 DEF R!Verify

(* A step of a delete: the volume loses its finalizer, begins to go or is  *)
(* gone.                                                                   *)
LEMMA DeletingStep ==
  ASSUME RestorationInv, R!ClearFinalizers \/ R!Remove
  PROVE  RestorationInv'
<1>1. /\ vol \in VolumeSet /\ hist \in ToldSet /\ test \in CallerSet
      /\ CallInv /\ DataInv /\ FreeInv /\ RestoredInv
      /\ UNCHANGED <<backups, hist>> /\ test.call = "delete" /\ ~hist.ready
      /\ UNCHANGED faults \/ R!Fault
  BY RestorationFacts, CallOf DEF R!ClearFinalizers, R!Remove, CallInv
<1>2. \/ UNCHANGED vol
      \/ vol' = R!NoVolume
      \/ vol.by # 0 /\ vol' = [vol EXCEPT !.finalizer = FALSE]
      \/ vol.by # 0 /\ vol' = [vol EXCEPT !.deleting = TRUE]
  BY DEF R!ClearFinalizers, R!Remove, R!Exists
<1>3. /\ test' \in CallerSet
      /\ \/ test'.call = "none" /\ test'.pc \in {"idle", "failed"}
         \/ test'.call = "delete" /\ test'.pc \in {"remove", "gone"}
  <2>1. R!Goto("remove") \/ R!Goto("gone") \/ R!Returns
    BY DEF R!ClearFinalizers, R!Remove
  <2>2. "remove" \in Place /\ "gone" \in Place
    BY DEF Place
  <2> QED
    BY <1>1, <2>1, <2>2, GotoEffect, EndEffect
<1>4. CallInv'
  BY <1>1, <1>3 DEF CallInv
<1>5. CASE vol' = R!NoVolume
  <2>1. R!TypeOK'
    BY <1>1, <1>3, <1>5, NoVolumeTyped, RestorationFacts, FaultTyped, TypedNext
  <2> QED
    BY <1>1, <1>4, <1>5, <2>1, GoneVolume DEF RestorationInv
<1>6. CASE vol' # R!NoVolume
  <2>1. /\ vol' \in VolumeSet
        /\ vol'.by = vol.by /\ vol'.kind = vol.kind /\ vol'.from = vol.from
        /\ vol'.data = vol.data /\ vol'.required = vol.required
        /\ vol'.deleting = vol.deleting \/ vol.by # 0
    BY <1>1, <1>2, <1>6 DEF VolumeSet
  <2>2. R!TypeOK'
    BY <1>1, <1>3, <2>1, RestorationFacts, FaultTyped, TypedNext
  <2>3. DataInv'
    BY <1>1, <2>1 DEF DataInv
  <2>4. FreeInv' /\ RestoredInv'
    BY <1>1, <1>3, <2>1 DEF FreeInv, RestoredInv
  <2> QED
    BY <1>4, <2>2, <2>3, <2>4 DEF RestorationInv
<1> QED
  BY <1>5, <1>6

(* What activate saw restored is what it needs.                            *)
LEMMA LookStep ==
  ASSUME RestorationInv, R!LookBeforeActivate
  PROVE  RestorationInv'
<1>1. /\ vol \in VolumeSet /\ hist \in ToldSet /\ test \in CallerSet
      /\ CallInv /\ DataInv /\ FreeInv /\ RestoredInv
      /\ UNCHANGED <<backups, vol, faults>> /\ test.call = "activate"
      /\ test.round < RestorationRounds
      /\ vol.last = 0 \/ vol.data = vol.last
  BY RestorationFacts, CallOf DEF R!LookBeforeActivate, R!Restored
<1>2. /\ test' \in CallerSet /\ test'.call = "activate" /\ test'.pc = "request"
      /\ test'.round < RestorationRounds
  BY <1>1 DEF R!LookBeforeActivate, CallerSet, Place
<1>3. /\ hist' \in ToldSet /\ hist'.creates = hist.creates /\ hist'.free = hist.free
      /\ hist'.gone = hist.gone /\ hist'.ready = hist.ready /\ hist'.restored = hist.restored
      /\ hist'.from = hist.from
      /\ \/ vol.kind = "standby" /\ hist'.need = vol.last
         \/ vol.kind # "standby" /\ hist'.need = hist.need
  BY <1>1 DEF R!LookBeforeActivate, R!Standby, ToldSet, VolumeSet
<1>4. R!TypeOK'
  BY <1>1, <1>2, <1>3, RestorationFacts, TypedNext
<1>5. CallInv'
  BY <1>2 DEF CallInv
<1>6. DataInv'
  <2>1. vol.data \in Nat /\ vol.last \in Nat
    BY <1>1 DEF VolumeSet
  <2>2. vol.data >= vol.last
    BY <1>1, <2>1
  <2> QED
    BY <1>1, <1>3, <2>2 DEF DataInv
<1>7. FreeInv' /\ RestoredInv'
  BY <1>1, <1>2, <1>3 DEF FreeInv, RestoredInv
<1> QED
  BY <1>4, <1>5, <1>6, <1>7 DEF RestorationInv

LEMMA RequestStep ==
  ASSUME RestorationInv, R!RequestActivate
  PROVE  RestorationInv'
<1>1. /\ vol \in VolumeSet /\ hist \in ToldSet /\ test \in CallerSet
      /\ CallInv /\ DataInv /\ FreeInv /\ RestoredInv
      /\ UNCHANGED <<backups, hist>> /\ test.call = "activate" /\ test.pc = "request"
      /\ test.round < RestorationRounds
      /\ UNCHANGED faults \/ R!Fault
  BY RestorationFacts, CallOf DEF R!RequestActivate, CallInv
<1>2. \/ UNCHANGED vol
      \/ vol.kind = "standby" /\ vol' = [vol EXCEPT !.kind = "activated"]
  BY DEF R!RequestActivate, R!Activated, R!Standby
<1>3. /\ test' \in CallerSet /\ test'.call = "activate" /\ test'.pc \in {"activate", "check"}
  <2>1. CASE R!Goto("check")
    BY <1>1, <2>1, GotoEffect DEF Place
  <2>2. CASE test' = [test EXCEPT !.pc = "activate", !.round = @ + 1]
    <3>1. test.round + 1 \in 0 .. RestorationRounds /\ "activate" \in Place
      BY <1>1, RestorationNumbers DEF CallerSet, Place
    <3> QED
      BY <1>1, <2>2, <3>1 DEF CallerSet
  <2> QED
    BY <2>1, <2>2 DEF R!RequestActivate
<1>4. /\ vol' \in VolumeSet /\ vol'.by = vol.by /\ vol'.from = vol.from
      /\ vol'.data = vol.data /\ vol'.deleting = vol.deleting /\ vol'.required = vol.required
      /\ \/ vol'.kind = vol.kind
         \/ vol.kind = "standby" /\ vol'.kind = "activated"
  BY <1>1, <1>2 DEF VolumeSet
<1>5. R!TypeOK'
  BY <1>1, <1>3, <1>4, RestorationFacts, FaultTyped, TypedNext
<1>6. CallInv'
  BY <1>3 DEF CallInv
<1>7. DataInv'
  BY <1>1, <1>4 DEF DataInv
<1>8. FreeInv' /\ RestoredInv'
  BY <1>1, <1>3, <1>4 DEF FreeInv, RestoredInv
<1> QED
  BY <1>5, <1>6, <1>7, <1>8 DEF RestorationInv

(* The end of a poll: where the thread goes, and what it knows then.       *)
LEMMA ThenEffect ==
  ASSUME RestorationInv, R!Polling, R!Reached
  PROVE  /\ R!Then \in {"idle", "required", "verify"}
         /\ R!Then = "required" => test.call \in {"create", "restored"}
         /\ R!Then = "verify" => test.call = "create" /\ (test.kind = "restore" => vol.required)
         /\ test.pc = "gone" => vol.by = 0 /\ R!Then = "idle"
         /\ test.call = "restored" /\ R!Then = "idle" => vol.kind = "standby" \/ ~vol.required
<1>1. test.call = "create" => test.pc \in {"post", "state", "required", "verify"}
  BY RestorationFacts DEF CallInv
<1>2. /\ test.pc \in {"state", "required", "gone", "engines", "started"}
      /\ test.pc = "engines" => test.call = "restored"
      /\ test.call = "restored" => test.pc \in {"engines", "required"}
  BY RestorationFacts, CallOf DEF R!Polling, R!Polls, CallInv
<1>3. test.pc = "gone" => vol.by = 0
  BY <1>2 DEF R!Reached, R!Exists
<1>4. test.pc = "required" => vol.required = R!FromBackup
  BY <1>2 DEF R!Reached
<1>5. test.pc = "required" /\ test.call = "restored" => ~vol.required
  <2>1. test.call = "restored" => ~R!FromBackup
    BY DEF R!FromBackup
  <2> QED
    BY <1>4, <2>1
<1>6. test.pc = "required" /\ test.call = "create" /\ test.kind = "restore" => vol.required
  <2>1. test.call = "create" /\ test.kind = "restore" => R!FromBackup
    BY DEF R!FromBackup
  <2> QED
    BY <1>4, <2>1
<1>7. CASE test.pc = "state" /\ test.call = "create"
  BY <1>7 DEF R!Then
<1>8. CASE test.pc = "required" /\ test.call = "create"
  BY <1>6, <1>8 DEF R!Then
<1>9. CASE test.pc = "engines" /\ ~R!Standby
  BY <1>2, <1>9 DEF R!Then
<1>10. CASE ~(\/ test.pc = "state" /\ test.call = "create"
              \/ test.pc = "required" /\ test.call = "create"
              \/ test.pc = "engines" /\ ~R!Standby)
  <2>1. R!Then = "idle"
    BY <1>10 DEF R!Then
  <2> QED
    BY <1>2, <1>3, <1>5, <1>10, <2>1 DEF R!Standby
<1> QED
  BY <1>7, <1>8, <1>9, <1>10

LEMMA PollEndsStep ==
  ASSUME RestorationInv, R!PollEnds
  PROVE  RestorationInv'
<1>1. /\ vol \in VolumeSet /\ hist \in ToldSet /\ test \in CallerSet
      /\ CallInv /\ DataInv /\ FreeInv /\ RestoredInv
      /\ UNCHANGED <<backups, vol, faults>>
  BY RestorationFacts DEF R!PollEnds
<1>2. /\ R!Then \in {"idle", "required", "verify"}
      /\ R!Then = "required" => test.call \in {"create", "restored"}
      /\ R!Then = "verify" => test.call = "create" /\ (test.kind = "restore" => vol.required)
      /\ test.pc = "gone" => vol.by = 0 /\ R!Then = "idle"
      /\ test.call = "restored" /\ R!Then = "idle" => vol.kind = "standby" \/ ~vol.required
  BY ThenEffect DEF R!PollEnds
<1>3. /\ hist' \in ToldSet /\ hist'.creates = hist.creates /\ hist'.free = hist.free
      /\ hist'.ready = hist.ready /\ hist'.from = hist.from /\ hist'.need = hist.need
      /\ hist'.gone => hist.gone \/ test.pc = "gone"
      /\ hist'.restored => hist.restored \/ (test.call = "restored" /\ R!Then = "idle")
  BY <1>1 DEF R!PollEnds, R!Told, ToldSet
<1>4. /\ test' \in CallerSet
      /\ \/ R!Then = "idle" /\ test'.call = "none" /\ test'.pc \in {"idle", "failed"}
         \/ /\ R!Then # "idle" /\ test'.pc = R!Then /\ test'.call = test.call
            /\ test'.kind = test.kind /\ test'.from = test.from
  <2>1. CASE R!Then = "idle"
    BY <2>1, EndEffect DEF R!PollEnds
  <2>2. CASE R!Then # "idle"
    <3>1. R!Then \in Place
      BY <1>2 DEF Place
    <3>2. R!Goto(R!Then)
      BY <2>2 DEF R!PollEnds
    <3> QED
      BY <1>1, <2>2, <3>1, <3>2, GotoEffect
  <2> QED
    BY <2>1, <2>2
<1>5. R!TypeOK'
  BY <1>1, <1>3, <1>4, RestorationFacts, TypedNext
<1>6. CallInv'
  BY <1>1, <1>2, <1>3, <1>4 DEF CallInv
<1>7. DataInv'
  BY <1>1, <1>3 DEF DataInv
<1>8. FreeInv'
  BY <1>1, <1>2, <1>3, <1>4 DEF FreeInv
<1>9. RestoredInv'
  BY <1>1, <1>2, <1>3, <1>4 DEF RestoredInv
<1> QED
  BY <1>5, <1>6, <1>7, <1>8, <1>9 DEF RestorationInv

LEMMA RestorationStep ==
  ASSUME RestorationInv, R!Next
  PROVE  RestorationInv'
BY RestorationLonghornStep, BeginStep, PostStep, MovesStep, VerifyStep, DeletingStep, LookStep,
   RequestStep, PollEndsStep DEF R!Next, R!Step

-----------------------------------------------------------------------------
(* The rebuilding.                                                         *)

(* The keyword never leaves the path of its script.                        *)
ScriptInv ==
    /\ kw.script = "bothOnNode" => kw.first = V0 /\ kw.other = V1
    /\ kw.pc = "checkFirst" => kw.script # "startOnNode"
    /\ kw.pc = "checkOther" => kw.script \in {"onlyOneOnNode", "bothOnNode"}
    /\ kw.pc = "monitor" => kw.script = "onlyOne"

OverlapInv ==
    /\ (\A v \in {V0, V1} : replica[v][Target] = "inProgress") => rHist.overlap
    /\ kw.script = "startOnNode" /\ replica[V0][Target] = "inProgress" => rHist.onTarget

Started(v) == replica[v][Target] \in {"inProgress", "RW"}

(* While no rebuilding breaks off, one that was found on the node goes on  *)
(* or is over; the second read tells which.                                *)
FoundInv ==
    /\ \A v \in {V0, V1} :
          rHist.restarts = 0 /\ task[v].pc = "found" /\ task[v].node = Target => Started(v)
    /\ kw.script = "startOnNode" /\ task[V0].pc = "found" /\ task[V0].node = Target
         => rHist.onTarget
    /\ kw.script = "startOnNode" /\ kw.pc = "passed" => task[V0].pc = "found"
    /\ kw.script = "bothOnNode" /\ kw.pc \in {"checkFirst", "checkOther", "passed"}
         => \A v \in {V0, V1} : task[v].pc = "found"

BothInv ==
    /\ kw.script = "bothOnNode" /\ rHist.restarts = 0
    /\ \A v \in {V0, V1} : task[v].node = Target
    => /\ kw.pc = "checkOther" => rHist.overlap \/ replica[V1][Target] = "RW"
       /\ kw.pc = "passed" => rHist.overlap

RebuildingInv == B!TypeOK /\ ScriptInv /\ OverlapInv /\ FoundInv /\ BothInv

Modes == {"none", "WO", "inProgress", "RW"}

TaskSet == [pc : {"find", "start", "idle", "found", "raised", "cancelled"},
            node : Nodes \cup {Any}, round : 0 .. RebuildingRounds]

KeywordSet == [script : Scripts, first : {V0, V1}, other : {V0, V1}, round : 0 .. RebuildingRounds,
               pc : {"wait", "checkFirst", "checkOther", "monitor", "passed", "failed", "error"}]

SeenSet == [overlap : BOOLEAN, two : BOOLEAN, onTarget : BOOLEAN,
            restarts : 0 .. RebuildingFaults]

LEMMA RebuildingTyped ==
  B!TypeOK <=> /\ replica \in [{V0, V1} -> [Nodes -> Modes]] /\ task \in [{V0, V1} -> TaskSet]
               /\ turn \in {V0, V1} /\ kw \in KeywordSet /\ outages \in 0 .. RebuildingFaults
               /\ rHist \in SeenSet
<1>1. /\ B!Running \cup {"idle", "found", "raised", "cancelled"}
           = {"find", "start", "idle", "found", "raised", "cancelled"}
      /\ {"wait", "checkFirst", "checkOther", "monitor"} \cup B!Over
           = {"wait", "checkFirst", "checkOther", "monitor", "passed", "failed", "error"}
      /\ B!Volumes = {V0, V1}
  BY DEF B!Running, B!Over, B!Volumes
<1> QED
  BY <1>1 DEF B!TypeOK, TaskSet, KeywordSet, SeenSet, Modes

LEMMA RebuildingTypedNext ==
  ASSUME replica' \in [{V0, V1} -> [Nodes -> Modes]], task' \in [{V0, V1} -> TaskSet],
         turn' \in {V0, V1}, kw' \in KeywordSet, outages' \in 0 .. RebuildingFaults,
         rHist' \in SeenSet
  PROVE  B!TypeOK'
<1>1. /\ B!Running \cup {"idle", "found", "raised", "cancelled"}
           = {"find", "start", "idle", "found", "raised", "cancelled"}
      /\ {"wait", "checkFirst", "checkOther", "monitor"} \cup B!Over
           = {"wait", "checkFirst", "checkOther", "monitor", "passed", "failed", "error"}
      /\ B!Volumes = {V0, V1}
  BY DEF B!Running, B!Over, B!Volumes
<1> QED
  BY <1>1 DEF B!TypeOK, TaskSet, KeywordSet, SeenSet, Modes

LEMMA RebuildingFacts ==
  ASSUME RebuildingInv
  PROVE  /\ replica \in [{V0, V1} -> [Nodes -> Modes]] /\ task \in [{V0, V1} -> TaskSet]
         /\ turn \in {V0, V1} /\ kw \in KeywordSet /\ outages \in 0 .. RebuildingFaults
         /\ rHist \in SeenSet
         /\ ScriptInv /\ OverlapInv /\ FoundInv /\ BothInv
BY RebuildingTyped DEF RebuildingInv

LEMMA RebuildingConstants ==
  /\ Target \in Nodes /\ Any \notin Nodes /\ Target # Any /\ V0 # V1
  /\ Scripts \subseteq {"onlyOneOnNode", "bothOnNode", "startOnNode", "onlyOne"}
  /\ RebuildingRounds \in Nat /\ 0 \in 0 .. RebuildingRounds
  /\ RebuildingFaults \in Nat /\ 0 \in 0 .. RebuildingFaults
BY RebuildingBounds DEF B!Bounds

LEMMA RebuildingInit == B!Init => RebuildingInv
<1> SUFFICES ASSUME B!Init PROVE RebuildingInv
  OBVIOUS
<1>1. PICK s \in Scripts :
        /\ kw = [script |-> s, pc |-> "wait", first |-> V0, other |-> V1, round |-> 0]
        /\ task = [v \in {V0, V1} |-> [pc |-> IF v \in B!TasksOf(s) THEN "find" ELSE "idle",
                                       node |-> B!NodeOf(s), round |-> 0]]
        /\ replica \in [{V0, V1} -> [Nodes -> {"none", "RW"}]]
  BY DEF B!Init, B!Volumes
<1>2. /\ kw \in KeywordSet /\ kw.pc = "wait" /\ kw.first = V0 /\ kw.other = V1
  BY <1>1, RebuildingConstants DEF KeywordSet
<1>3. /\ task \in [{V0, V1} -> TaskSet]
      /\ \A v \in {V0, V1} : task[v].pc # "found"
  <2>1. B!NodeOf(s) \in Nodes \cup {Any}
    BY RebuildingConstants DEF B!NodeOf
  <2> QED
    BY <1>1, <2>1, RebuildingConstants DEF TaskSet
<1>4. /\ replica \in [{V0, V1} -> [Nodes -> Modes]]
      /\ \A v \in {V0, V1} : replica[v][Target] # "inProgress"
  BY <1>1, RebuildingConstants DEF Modes
<1>5. turn \in {V0, V1} /\ outages \in 0 .. RebuildingFaults /\ rHist \in SeenSet
  BY RebuildingConstants DEF B!Init, SeenSet
<1>6. B!TypeOK
  BY <1>2, <1>3, <1>4, <1>5, RebuildingTyped
<1> QED
  BY <1>2, <1>3, <1>4, <1>6 DEF RebuildingInv, ScriptInv, OverlapInv, FoundInv, BothInv

(* What a rebuilding that goes on does to what the invariant speaks of.    *)
LEMMA BecomesEffect ==
  ASSUME RebuildingInv, NEW v \in {V0, V1}, NEW n \in Nodes, NEW mode \in Modes,
         B!Becomes(v, n, mode)
  PROVE  /\ UNCHANGED <<task, turn, kw, outages>>
         /\ replica' \in [{V0, V1} -> [Nodes -> Modes]]
         /\ replica'[v][n] = mode
         /\ \A u \in {V0, V1}, m \in Nodes :
              u # v \/ m # n => replica'[u][m] = replica[u][m]
         /\ rHist' \in SeenSet /\ rHist'.restarts = rHist.restarts
         /\ rHist.overlap => rHist'.overlap
         /\ rHist.onTarget => rHist'.onTarget
         /\ OverlapInv'
<1>1. /\ replica \in [{V0, V1} -> [Nodes -> Modes]] /\ rHist \in SeenSet
  BY RebuildingFacts
<1>2. /\ UNCHANGED <<task, turn, kw, outages>>
      /\ replica' = [replica EXCEPT ![v][n] = mode]
      /\ rHist' = B!Observed(replica')
  BY DEF B!Becomes
<1>3. /\ replica' \in [{V0, V1} -> [Nodes -> Modes]]
      /\ replica'[v][n] = mode
      /\ \A u \in {V0, V1}, m \in Nodes :
           u # v \/ m # n => replica'[u][m] = replica[u][m]
  BY <1>1, <1>2
<1> DEFINE overlap == rHist.overlap \/ \A u \in {V0, V1} : replica'[u][Target] = "inProgress"
           onTarget == rHist.onTarget \/ (kw.script = "startOnNode" /\ replica'[V0][Target] = "inProgress")
<1>4. rHist' = [rHist EXCEPT !.overlap = overlap, !.onTarget = onTarget]
  BY <1>2 DEF B!Observed, B!Volumes
<1>5. overlap \in BOOLEAN /\ onTarget \in BOOLEAN
  OBVIOUS
<1>6. /\ rHist' \in SeenSet /\ rHist'.restarts = rHist.restarts
      /\ rHist'.overlap = overlap /\ rHist'.onTarget = onTarget
  <2> HIDE DEF overlap, onTarget
  <2> QED
    BY <1>1, <1>4, <1>5 DEF SeenSet
<1>7. OverlapInv'
  BY <1>2, <1>6 DEF OverlapInv
<1> QED
  BY <1>2, <1>3, <1>6, <1>7

LEMMA GoOnStep ==
  ASSUME RebuildingInv, kw.pc \notin B!Over, NEW v \in {V0, V1}, NEW n \in Nodes,
         B!Begin(v, n) \/ B!Transfer(v, n) \/ B!Finish(v, n)
  PROVE  RebuildingInv'
<1>1. PICK mode \in Modes :
        /\ B!Becomes(v, n, mode)
        /\ \/ replica[v][n] = "none" /\ mode = "WO"
           \/ replica[v][n] = "WO" /\ mode = "inProgress"
           \/ replica[v][n] = "inProgress" /\ mode = "RW"
  BY DEF B!Begin, B!Transfer, B!Finish, Modes
<1>2. /\ UNCHANGED <<task, turn, kw, outages>>
      /\ replica' \in [{V0, V1} -> [Nodes -> Modes]]
      /\ replica'[v][n] = mode
      /\ \A u \in {V0, V1}, m \in Nodes :
           u # v \/ m # n => replica'[u][m] = replica[u][m]
      /\ rHist' \in SeenSet /\ rHist'.restarts = rHist.restarts
      /\ rHist.overlap => rHist'.overlap
      /\ rHist.onTarget => rHist'.onTarget
      /\ OverlapInv'
  BY <1>1, BecomesEffect
<1>3. /\ \A u \in {V0, V1} : Started(u) => Started(u)'
      /\ replica[V1][Target] = "RW" => replica'[V1][Target] = "RW"
  BY <1>1, <1>2, RebuildingConstants DEF Started
<1>4. B!TypeOK'
  BY <1>2, RebuildingFacts, RebuildingTypedNext
<1>5. ScriptInv'
  BY <1>2 DEF RebuildingInv, ScriptInv
<1>6. FoundInv'
  BY <1>2, <1>3, RebuildingFacts DEF FoundInv
<1>7. BothInv'
  <2>1. kw.pc # "passed"
    BY DEF B!Over
  <2> QED
    BY <1>2, <1>3, <2>1, RebuildingFacts DEF BothInv
<1> QED
  BY <1>2, <1>4, <1>5, <1>6, <1>7 DEF RebuildingInv

(* A rebuilding that breaks off excuses the keyword.                       *)
LEMMA BreakStep ==
  ASSUME RebuildingInv, kw.pc \notin B!Over, NEW v \in {V0, V1}, NEW n \in Nodes, B!Break(v, n)
  PROVE  RebuildingInv'
<1>1. /\ replica \in [{V0, V1} -> [Nodes -> Modes]] /\ rHist \in SeenSet
      /\ outages \in 0 .. RebuildingFaults
      /\ UNCHANGED <<task, turn, kw, outages>>
      /\ replica' = [replica EXCEPT ![v][n] = "none"]
      /\ rHist' = [rHist EXCEPT !.restarts = rHist.restarts + 1]
      /\ rHist.restarts + outages < RebuildingFaults
      /\ kw.pc # "passed"
  BY RebuildingFacts DEF B!Break, B!FaultLeft, B!Over
<1>2. /\ rHist.restarts + 1 \in 0 .. RebuildingFaults /\ rHist.restarts + 1 # 0
  <2>1. rHist.restarts \in 0 .. RebuildingFaults
    BY <1>1 DEF SeenSet
  <2> QED
    BY <1>1, <2>1, RebuildingConstants
<1>3. /\ rHist' \in SeenSet /\ rHist'.overlap = rHist.overlap /\ rHist'.onTarget = rHist.onTarget
      /\ rHist'.restarts # 0
  BY <1>1, <1>2 DEF SeenSet
<1>4. /\ replica' \in [{V0, V1} -> [Nodes -> Modes]]
      /\ \A u \in {V0, V1} :
            replica'[u][Target] = "inProgress" => replica[u][Target] = "inProgress"
  BY <1>1, RebuildingConstants DEF Modes
<1>5. B!TypeOK'
  BY <1>1, <1>3, <1>4, RebuildingFacts, RebuildingTypedNext
<1>6. ScriptInv'
  BY <1>1 DEF RebuildingInv, ScriptInv
<1>7. OverlapInv'
  BY <1>1, <1>3, <1>4 DEF RebuildingInv, OverlapInv
<1>8. FoundInv' /\ BothInv'
  BY <1>1, <1>3 DEF RebuildingInv, FoundInv, BothInv
<1> QED
  BY <1>5, <1>6, <1>7, <1>8 DEF RebuildingInv

LEMMA RebuildingLonghornStep ==
  ASSUME RebuildingInv, B!Longhorn
  PROVE  RebuildingInv'
BY GoOnStep, BreakStep DEF B!Longhorn, B!Volumes

(* One coroutine moves while the keyword waits.                            *)
LEMMA OneTask ==
  ASSUME RebuildingInv, kw.pc = "wait", UNCHANGED <<replica, kw>>, turn' \in {V0, V1},
         outages' \in 0 .. RebuildingFaults,
         rHist' \in SeenSet, rHist'.overlap = rHist.overlap, rHist'.onTarget = rHist.onTarget,
         rHist'.restarts = rHist.restarts,
         NEW v \in {V0, V1}, NEW next \in TaskSet, task' = [task EXCEPT ![v] = next],
         next.pc = "found" => replica[v][next.node] = "inProgress"
  PROVE  RebuildingInv'
<1>1. /\ task \in [{V0, V1} -> TaskSet] /\ OverlapInv /\ FoundInv
  BY RebuildingFacts
<1>2. /\ task' \in [{V0, V1} -> TaskSet] /\ task'[v] = next
      /\ \A u \in {V0, V1} : u # v => task'[u] = task[u]
  BY <1>1
<1>3. B!TypeOK'
  BY <1>2, RebuildingFacts, RebuildingTypedNext
<1>4. ScriptInv' /\ BothInv'
  BY DEF RebuildingInv, ScriptInv, BothInv
<1>5. OverlapInv'
  BY <1>1 DEF OverlapInv
<1>6. next.pc = "found" /\ next.node = Target => Started(v) /\ replica[v][Target] = "inProgress"
  BY DEF Started
<1>7. FoundInv'
  BY <1>1, <1>2, <1>6 DEF FoundInv, OverlapInv, Started
<1> QED
  BY <1>3, <1>4, <1>5, <1>7 DEF RebuildingInv

LEMMA OtherVolume ==
  ASSUME NEW v \in {V0, V1}
  PROVE  B!Other(v) \in {V0, V1}
<1>1. \E u \in {V0, V1} : u # v
  BY RebuildingConstants
<1> QED
  BY <1>1 DEF B!Other, B!Volumes

LEMMA YieldEffect ==
  ASSUME NEW v \in {V0, V1}, B!Yield(v)
  PROVE  turn' \in {V0, V1}
BY OtherVolume DEF B!Yield

LEMMA ReadFailsTyped ==
  ASSUME RebuildingInv, B!ReadFails \/ UNCHANGED outages
  PROVE  outages' \in 0 .. RebuildingFaults
<1>1. outages \in 0 .. RebuildingFaults /\ rHist.restarts \in 0 .. RebuildingFaults
  BY RebuildingFacts DEF SeenSet
<1> QED
  BY <1>1, RebuildingConstants DEF B!ReadFails, B!FaultLeft

(* A round that is spent, with what it saw of another rebuilding.          *)
LEMMA SpendStep ==
  ASSUME RebuildingInv, NEW v \in {V0, V1}, B!FindMisses(v) \/ B!StartMisses(v)
  PROVE  RebuildingInv'
<1>1. /\ task \in [{V0, V1} -> TaskSet] /\ rHist \in SeenSet
  BY RebuildingFacts
<1>2. /\ kw.pc = "wait" /\ UNCHANGED <<replica, kw>>
      /\ task[v].pc \in {"find", "start"} /\ task[v].round < RebuildingRounds
      /\ task' = [task EXCEPT ![v].round = task[v].round + 1]
      /\ B!ReadFails \/ UNCHANGED outages
      /\ B!Yield(v)
  BY DEF B!FindMisses, B!StartMisses, B!Spend, B!Await
<1>3. outages' \in 0 .. RebuildingFaults /\ turn' \in {V0, V1}
  BY <1>2, ReadFailsTyped, YieldEffect
<1>4. /\ rHist' \in SeenSet /\ rHist'.overlap = rHist.overlap /\ rHist'.onTarget = rHist.onTarget
      /\ rHist'.restarts = rHist.restarts
  <2>1. PICK two \in BOOLEAN : rHist' = [rHist EXCEPT !.two = two]
    <3>1. CASE UNCHANGED rHist
      BY <1>1, <3>1 DEF SeenSet
    <3>2. CASE rHist' = [rHist EXCEPT !.two = @ \/ (kw.script = "onlyOne" /\ ~B!Asserted(v))]
      BY <3>2
    <3> QED
      BY <3>1, <3>2 DEF B!FindMisses, B!StartMisses
  <2> QED
    BY <1>1, <2>1 DEF SeenSet
<1> DEFINE next == [task[v] EXCEPT !.round = task[v].round + 1]
<1>5. next \in TaskSet /\ next.pc # "found"
  <2>1. task[v].round + 1 \in 0 .. RebuildingRounds
    BY <1>1, <1>2, RebuildingConstants DEF TaskSet
  <2> QED
    BY <1>1, <1>2, <2>1 DEF TaskSet
<1>6. task' = [task EXCEPT ![v] = next]
  BY <1>1, <1>2
<1> HIDE DEF next
<1> QED
  BY <1>2, <1>3, <1>4, <1>5, <1>6, OneTask

LEMMA FindStep ==
  ASSUME RebuildingInv, NEW v \in {V0, V1}, NEW n \in Nodes, B!Find(v, n)
  PROVE  RebuildingInv'
<1> DEFINE next == [pc |-> "start", node |-> n, round |-> 0]
<1>1. next \in TaskSet /\ next.pc # "found"
  BY RebuildingConstants DEF TaskSet
<1>2. /\ kw.pc = "wait" /\ UNCHANGED <<replica, turn, kw, outages, rHist>>
      /\ task' = [task EXCEPT ![v] = next]
  BY DEF B!Find, B!Await
<1> HIDE DEF next
<1> QED
  BY <1>1, <1>2, RebuildingFacts, OneTask

(* A coroutine ends: it has found the rebuilding, or raises.               *)
LEMMA TaskEndsStep ==
  ASSUME RebuildingInv, NEW v \in {V0, V1}, B!Start(v) \/ B!Raise(v)
  PROVE  RebuildingInv'
<1>1. task \in [{V0, V1} -> TaskSet]
  BY RebuildingFacts
<1>2. PICK pc \in {"found", "raised"} :
        /\ task' = [task EXCEPT ![v].pc = pc, ![v].round = 0]
        /\ pc = "found" => replica[v][task[v].node] = "inProgress"
  BY DEF B!Start, B!Raise
<1>3. kw.pc = "wait" /\ UNCHANGED <<replica, kw, outages, rHist>> /\ turn' \in {V0, V1}
  BY YieldEffect DEF B!Start, B!Raise, B!Await
<1> DEFINE next == [task[v] EXCEPT !.pc = pc, !.round = 0]
<1>4. next \in TaskSet /\ next.pc = pc /\ next.node = task[v].node
  BY <1>1, RebuildingConstants DEF TaskSet
<1>5. task' = [task EXCEPT ![v] = next]
  BY <1>1, <1>2
<1> HIDE DEF next
<1> QED
  BY <1>2, <1>3, <1>4, <1>5, RebuildingFacts, OneTask, ZenonT(60)

LEMMA CoroutineStep ==
  ASSUME RebuildingInv, NEW v \in {V0, V1}, B!Coroutine(v)
  PROVE  RebuildingInv'
BY FindStep, SpendStep, TaskEndsStep DEF B!Coroutine

(* The keyword moves.                                                      *)
LEMMA KeywordMoves ==
  ASSUME RebuildingInv, UNCHANGED <<replica, task, turn>>, outages' \in 0 .. RebuildingFaults,
         rHist' \in SeenSet, rHist'.overlap = rHist.overlap, rHist'.onTarget = rHist.onTarget,
         rHist'.restarts = rHist.restarts,
         kw' \in KeywordSet, kw'.script = kw.script, kw'.first = kw.first, kw'.other = kw.other,
         kw'.pc = "checkFirst" => kw.script # "startOnNode",
         kw'.pc = "checkOther" => kw.script \in {"onlyOneOnNode", "bothOnNode"},
         kw'.pc = "monitor" => kw.script = "onlyOne",
         kw.script = "startOnNode" /\ kw'.pc = "passed" => task[V0].pc = "found",
         kw.script = "bothOnNode" /\ kw'.pc \in {"checkFirst", "checkOther", "passed"}
           => \A v \in {V0, V1} : task[v].pc = "found",
         BothInv'
  PROVE  RebuildingInv'
<1>1. B!TypeOK'
  BY RebuildingFacts, RebuildingTypedNext
<1>2. ScriptInv'
  BY DEF RebuildingInv, ScriptInv
<1>3. OverlapInv'
  BY DEF RebuildingInv, OverlapInv
<1>4. FoundInv'
  BY RebuildingFacts DEF FoundInv, Started
<1> QED
  BY <1>1, <1>2, <1>3, <1>4 DEF RebuildingInv

LEMMA WakeOnAllStep ==
  ASSUME RebuildingInv, B!WakeOnAll
  PROVE  RebuildingInv'
<1>1. /\ kw \in KeywordSet /\ kw.pc = "wait" /\ kw.script # "onlyOneOnNode"
      /\ kw.script \in {"onlyOneOnNode", "bothOnNode", "startOnNode", "onlyOne"}
      /\ UNCHANGED <<replica, task, turn, outages, rHist>>
      /\ B!Completed = B!TasksOf(kw.script)
  BY RebuildingFacts, RebuildingConstants DEF B!WakeOnAll, KeywordSet
<1>2. CASE \E v \in {V0, V1} : task[v].pc = "raised"
  <2>1. kw' = [kw EXCEPT !.pc = "failed"]
    BY <1>2 DEF B!WakeOnAll, B!Volumes
  <2>2. /\ kw' \in KeywordSet /\ kw'.script = kw.script /\ kw'.first = kw.first
        /\ kw'.other = kw.other /\ kw'.pc = "failed"
    BY <1>1, <2>1 DEF KeywordSet
  <2>3. BothInv'
    BY <2>2 DEF BothInv
  <2> QED
    BY <1>1, <2>2, <2>3, RebuildingFacts, KeywordMoves
<1>3. CASE ~ \E v \in {V0, V1} : task[v].pc = "raised"
  <2> DEFINE pc == B!AfterAll[kw.script]
  <2>1. kw' = [kw EXCEPT !.pc = pc]
    BY <1>3 DEF B!WakeOnAll, B!Volumes
  <2>2. /\ kw.script = "bothOnNode" => pc = "checkFirst"
        /\ kw.script = "onlyOne" => pc = "checkFirst"
        /\ kw.script = "startOnNode" => pc = "passed"
        /\ pc \in {"checkFirst", "passed"}
    BY <1>1 DEF B!AfterAll
  <2> HIDE DEF pc
  <2>3. /\ kw' \in KeywordSet /\ kw'.script = kw.script /\ kw'.first = kw.first
        /\ kw'.other = kw.other /\ kw'.pc = pc
    BY <1>1, <2>1, <2>2 DEF KeywordSet
  <2>4. /\ kw.script = "startOnNode" => task[V0].pc = "found"
        /\ kw.script = "bothOnNode" => \A v \in {V0, V1} : task[v].pc = "found"
    <3>1. kw.script = "startOnNode" => V0 \in B!Completed
      BY <1>1 DEF B!TasksOf
    <3>2. kw.script = "bothOnNode" => V0 \in B!Completed /\ V1 \in B!Completed
      BY <1>1 DEF B!TasksOf, B!Volumes
    <3> QED
      BY <1>3, <3>1, <3>2 DEF B!Completed, B!Volumes
  <2>5. BothInv'
    BY <2>2, <2>3 DEF BothInv
  <2> QED
    BY <1>1, <2>2, <2>3, <2>4, <2>5, RebuildingFacts, KeywordMoves
<1> QED
  BY <1>2, <1>3

LEMMA WakeOnFirstStep ==
  ASSUME RebuildingInv, B!WakeOnFirst
  PROVE  RebuildingInv'
<1>1. /\ kw \in KeywordSet /\ task \in [{V0, V1} -> TaskSet] /\ kw.script = "onlyOneOnNode"
      /\ UNCHANGED <<replica, turn, outages, rHist>> /\ OverlapInv /\ FoundInv
  BY RebuildingFacts DEF B!WakeOnFirst
<1>2. kw' \in KeywordSet /\ kw'.script = "onlyOneOnNode" /\ kw'.pc \in {"error", "checkFirst"}
  <2>1. PICK v \in {V0, V1} :
          kw' = IF B!Completed = B!Volumes
                THEN [kw EXCEPT !.pc = "error"]
                ELSE [kw EXCEPT !.pc = "checkFirst", !.first = v, !.other = B!Other(v)]
    BY DEF B!WakeOnFirst, B!Completed, B!Volumes
  <2>2. CASE kw' = [kw EXCEPT !.pc = "error"]
    BY <1>1, <2>2 DEF KeywordSet
  <2>3. CASE kw' = [kw EXCEPT !.pc = "checkFirst", !.first = v, !.other = B!Other(v)]
    <3>1. B!Other(v) \in {V0, V1}
      BY OtherVolume
    <3> QED
      BY <1>1, <2>3, <3>1 DEF KeywordSet
  <2> QED
    BY <2>1, <2>2, <2>3
<1>3. /\ task' \in [{V0, V1} -> TaskSet]
      /\ \A v \in {V0, V1} : task'[v].pc = "found" => task[v].pc = "found" /\ task'[v] = task[v]
  <2>1. task' = [v \in {V0, V1} |-> IF v \in B!Completed THEN task[v]
                                    ELSE [task[v] EXCEPT !.pc = "cancelled", !.round = 0]]
    BY DEF B!WakeOnFirst, B!Volumes
  <2>2. ASSUME NEW v \in {V0, V1}
        PROVE  /\ task'[v] \in TaskSet
               /\ task'[v].pc = "found" => task'[v] = task[v]
    <3>1. CASE v \in B!Completed
      BY <1>1, <2>1, <3>1
    <3>2. CASE v \notin B!Completed
      <4>1. task'[v] = [task[v] EXCEPT !.pc = "cancelled", !.round = 0]
        BY <2>1, <3>2
      <4>2. task[v] \in TaskSet
        BY <1>1
      <4> QED
        BY <4>1, <4>2, RebuildingConstants DEF TaskSet
    <3> QED
      BY <3>1, <3>2
  <2> QED
    BY <2>1, <2>2
<1>4. B!TypeOK'
  BY <1>1, <1>2, <1>3, RebuildingFacts, RebuildingTypedNext
<1>5. ScriptInv'
  BY <1>2 DEF ScriptInv
<1>6. OverlapInv'
  BY <1>1, <1>2 DEF OverlapInv
<1>7. FoundInv'
  BY <1>1, <1>2, <1>3 DEF FoundInv, Started
<1>8. BothInv'
  BY <1>2 DEF BothInv
<1> QED
  BY <1>4, <1>5, <1>6, <1>7, <1>8 DEF RebuildingInv

(* The first read sees V0 rebuilding.  If V1 is no longer, it is rebuilt,  *)
(* and the second read says so; if it still is, the two overlap.           *)
LEMMA CheckStep ==
  ASSUME RebuildingInv, B!Check
  PROVE  RebuildingInv'
<1>1. /\ kw \in KeywordSet /\ kw.pc \in {"checkFirst", "checkOther"}
      /\ kw.script \in {"onlyOneOnNode", "bothOnNode", "startOnNode", "onlyOne"}
      /\ UNCHANGED <<replica, task, turn, rHist>> /\ ScriptInv /\ OverlapInv /\ FoundInv /\ BothInv
      /\ rHist \in SeenSet
  BY RebuildingFacts, RebuildingConstants DEF B!Check, KeywordSet
<1>2. PICK a \in BOOLEAN :
        /\ B!Answers(IF kw.pc = "checkFirst" THEN kw.first ELSE kw.other, a)
        /\ kw' = [kw EXCEPT !.pc = B!Verdict(a)]
  BY DEF B!Check
<1> DEFINE pc == B!Verdict(a)
<1>3. /\ pc \in {"checkFirst", "checkOther", "passed", "failed", "monitor"}
      /\ pc = "checkFirst" => kw.script # "startOnNode"
      /\ pc = "checkOther" => kw.script \in {"onlyOneOnNode", "bothOnNode"}
      /\ pc = "passed" => kw.script # "startOnNode"
      /\ pc = "monitor" => kw.script = "onlyOne"
      /\ kw.script = "bothOnNode" => pc # "checkFirst"
      /\ kw.script = "bothOnNode" /\ pc = "checkOther" => a = TRUE /\ kw.pc = "checkFirst"
      /\ kw.script = "bothOnNode" /\ pc = "passed" => a = TRUE /\ kw.pc = "checkOther"
  BY <1>1 DEF B!Verdict, ScriptInv
<1> HIDE DEF pc
<1>4. /\ kw' \in KeywordSet /\ kw'.script = kw.script /\ kw'.first = kw.first
      /\ kw'.other = kw.other /\ kw'.pc = pc
  BY <1>1, <1>2, <1>3 DEF KeywordSet, pc
<1>5. outages' \in 0 .. RebuildingFaults
  BY <1>2, ReadFailsTyped DEF B!Answers
<1>6. kw.script = "bothOnNode" /\ a = TRUE =>
        /\ kw.pc = "checkFirst" => replica[V0][Target] = "inProgress"
        /\ kw.pc = "checkOther" => replica[V1][Target] = "inProgress"
  <2> SUFFICES ASSUME kw.script = "bothOnNode", a = TRUE
               PROVE  /\ kw.pc = "checkFirst" => replica[V0][Target] = "inProgress"
                      /\ kw.pc = "checkOther" => replica[V1][Target] = "inProgress"
    OBVIOUS
  <2>1. kw.first = V0 /\ kw.other = V1 /\ B!NodeOf(kw.script) = Target
    BY <1>1 DEF ScriptInv, B!NodeOf
  <2>2. ASSUME NEW v, B!InProgress(v, Target) PROVE replica[v][Target] = "inProgress"
    BY <2>2, RebuildingConstants DEF B!InProgress
  <2>3. B!InProgress(IF kw.pc = "checkFirst" THEN V0 ELSE V1, Target)
    BY <1>1, <1>2, <2>1 DEF B!Answers
  <2> QED
    BY <1>1, <2>2, <2>3
<1>7. BothInv'
  <2> SUFFICES ASSUME kw.script = "bothOnNode", rHist.restarts = 0,
                      \A v \in {V0, V1} : task[v].node = Target
               PROVE  /\ pc = "checkOther" => rHist.overlap \/ replica[V1][Target] = "RW"
                      /\ pc = "passed" => rHist.overlap
    BY <1>1, <1>4 DEF BothInv
  <2>1. Started(V1)
    BY <1>1 DEF FoundInv
  <2>2. CASE pc = "checkOther"
    BY <1>1, <1>3, <1>6, <2>1, <2>2 DEF Started, OverlapInv
  <2>3. CASE pc = "passed"
    BY <1>1, <1>3, <1>6, <2>3 DEF BothInv
  <2> QED
    BY <2>2, <2>3
<1>8. kw.script = "bothOnNode" => \A v \in {V0, V1} : task[v].pc = "found"
  BY <1>1 DEF FoundInv
<1> QED
  BY <1>1, <1>3, <1>4, <1>5, <1>7, <1>8, KeywordMoves

LEMMA MonitorStep ==
  ASSUME RebuildingInv, B!Monitor \/ B!MonitorMisses \/ B!MonitorEnds
  PROVE  RebuildingInv'
<1>1. /\ kw \in KeywordSet /\ rHist \in SeenSet /\ kw.pc = "monitor"
      /\ UNCHANGED <<replica, task, turn>>
      /\ B!ReadFails \/ UNCHANGED outages
  BY RebuildingFacts DEF B!Monitor, B!MonitorMisses, B!MonitorEnds
<1>2. outages' \in 0 .. RebuildingFaults
  BY <1>1, ReadFailsTyped
<1>3. /\ rHist' \in SeenSet /\ rHist'.overlap = rHist.overlap /\ rHist'.onTarget = rHist.onTarget
      /\ rHist'.restarts = rHist.restarts
  <2>1. PICK two \in BOOLEAN : rHist' = [rHist EXCEPT !.two = two]
    <3>1. CASE UNCHANGED rHist
      BY <1>1, <3>1 DEF SeenSet
    <3>2. CASE rHist' = [rHist EXCEPT !.two = @ \/ ~B!Asserted(V0)]
      BY <3>2
    <3> QED
      BY <3>1, <3>2 DEF B!Monitor, B!MonitorMisses, B!MonitorEnds
  <2> QED
    BY <1>1, <2>1 DEF SeenSet
<1>4. /\ kw' \in KeywordSet /\ kw'.script = kw.script /\ kw'.first = kw.first
      /\ kw'.other = kw.other /\ kw'.pc \in {"monitor", "passed", "failed"}
  <2>1. CASE B!Monitor \/ B!MonitorEnds
    BY <1>1, <2>1 DEF B!Monitor, B!MonitorEnds, KeywordSet
  <2>2. CASE B!MonitorMisses
    <3>1. kw.round + 1 \in 0 .. RebuildingRounds
      BY <1>1, <2>2, RebuildingConstants DEF B!MonitorMisses, KeywordSet
    <3> QED
      BY <1>1, <2>2, <3>1 DEF B!MonitorMisses, KeywordSet
  <2> QED
    BY <2>1, <2>2
<1>5. kw.script = "onlyOne"
  BY <1>1 DEF RebuildingInv, ScriptInv
<1>6. BothInv'
  BY <1>4, <1>5 DEF BothInv
<1> QED
  BY <1>1, <1>2, <1>3, <1>4, <1>5, <1>6, KeywordMoves

LEMMA RebuildingStep ==
  ASSUME RebuildingInv, B!Next
  PROVE  RebuildingInv'
<1>1. ASSUME NEW v \in B!Volumes, B!Coroutine(v) PROVE RebuildingInv'
  BY <1>1, CoroutineStep DEF B!Volumes
<1> QED
  BY <1>1, RebuildingLonghornStep, WakeOnAllStep, WakeOnFirstStep, CheckStep, MonitorStep
     DEF B!Next, B!Test, B!Keyword

-----------------------------------------------------------------------------
(* The four together.                                                      *)
Inv == AttachmentInv /\ MigrationInv /\ RestorationInv /\ RebuildingInv

LEMMA Invariance == Spec => []Inv
<1>1. Init => Inv
  BY AttachmentInit, MigrationInit, RestorationInit, RebuildingInit DEF Init, Inv
<1>2. Inv /\ [Next]_vars => Inv'
  <2> SUFFICES ASSUME Inv, [Next]_vars PROVE Inv'
    OBVIOUS
  <2>1. UNCHANGED attachment => AttachmentInv'
    <3> SUFFICES ASSUME UNCHANGED attachment PROVE AttachmentInv'
      OBVIOUS
    <3>1. UNCHANGED <<tickets, version, h, removed, lost>>
      BY DEF attachment
    <3>2. A!TypeOK'
      BY <3>1 DEF Inv, AttachmentInv, A!TypeOK
    <3>3. Edited' <=> Edited
      BY <3>1 DEF Edited, Deletable, OwnTicket, A!Own, A!On
    <3>4. CopyInv'
      BY <3>1, <3>3 DEF Inv, AttachmentInv, CopyInv, UniqueIds
    <3>5. DeletedInv'
      BY <3>1 DEF Inv, AttachmentInv, DeletedInv, A!DetachDeletesOne, A!DetachOutcome
    <3> QED
      BY <3>2, <3>4, <3>5 DEF AttachmentInv
  <2>2. UNCHANGED migration => MigrationInv'
    BY DEF Inv, migration, MigrationInv, M!TypeOK, TicketInv, EngineInv, Engined, HasEngine,
           OnlyEngine, M!Destination, M!Waiting
  <2>3. UNCHANGED restoration => RestorationInv'
    BY DEF Inv, restoration, RestorationInv, R!TypeOK, CallInv, DataInv, FreeInv, RestoredInv
  <2>4. UNCHANGED rebuilding => RebuildingInv'
    BY DEF Inv, rebuilding, RebuildingInv, B!TypeOK, ScriptInv, OverlapInv, FoundInv, BothInv, Started
  <2>5. CASE Attachment /\ A!Next
    BY <2>2, <2>3, <2>4, <2>5, AttachmentStep DEF Inv, Attachment
  <2>6. CASE Migration /\ M!Next
    BY <2>1, <2>3, <2>4, <2>6, MigrationStep DEF Inv, Migration
  <2>7. CASE Restoration /\ R!Next
    BY <2>1, <2>2, <2>4, <2>7, RestorationStep DEF Inv, Restoration
  <2>8. CASE Rebuilding /\ B!Next
    BY <2>1, <2>2, <2>3, <2>8, RebuildingStep DEF Inv, Rebuilding
  <2>9. CASE UNCHANGED vars
    BY <2>1, <2>2, <2>3, <2>4, <2>9 DEF Inv, vars
  <2> QED
    BY <2>5, <2>6, <2>7, <2>8, <2>9 DEF Next
<1> QED
  BY <1>1, <1>2, PTL DEF Spec

(* Every variable of the four parts has its type, and the tickets of an    *)
(* attachment have ids of their own.                                       *)
THEOREM TypeCorrect == Spec => []TypeOK
<1>1. Inv => TypeOK
  BY DEF Inv, TypeOK, AttachmentInv, MigrationInv, RestorationInv, RebuildingInv
<1> QED
  BY <1>1, Invariance, PTL

(* crd.py detach: whatever others write and however many replies are lost, *)
(* one ticket goes, and one more for each reply that is lost; the outcome  *)
(* is the truth when none is.                                              *)
THEOREM OneTicketGoes == Spec => []DetachDeletesOne
<1>1. Inv => DetachDeletesOne
  BY DEF Inv, DetachDeletesOne, AttachmentInv, DeletedInv
<1> QED
  BY <1>1, Invariance, PTL

(* crd.py attach, detach, enable_volume_frontend: no step of the harness   *)
(* takes a foreign ticket away, but a detach without one of its own.       *)
THEOREM ForeignTicketsStay == Spec => ForeignTicketsSafe
<1>1. Inv /\ [Next]_vars => [A!ForeignKept]_(A!vars)
  <2> SUFFICES ASSUME Inv, [Next]_vars PROVE A!ForeignKept \/ UNCHANGED A!vars
    OBVIOUS
  <2>1. CASE Attachment /\ A!Next
    BY <2>1, ForeignKeptStep DEF Inv
  <2>2. CASE UNCHANGED attachment
    BY <2>2 DEF attachment, A!vars
  <2> QED
    BY <2>1, <2>2 DEF Next, vars, Migration, Restoration, Rebuilding
<1> QED
  BY <1>1, Invariance, PTL DEF Spec, ForeignTicketsSafe, A!ForeignTicketsSafe

(* crd.py wait_for_volume_migration_complete and its rollback: engines and *)
(* volume were read apart, yet what they return on is final.               *)
THEOREM OutcomeStays == Spec => []OutcomeIsFinal
<1>1. Inv => OutcomeIsFinal
  <2> SUFFICES ASSUME MigrationInv, t.pc = "done"
               PROVE  /\ mTickets = {M!Destination}
                      /\ mVol = [nodeID |-> M!Destination, currentNodeID |-> M!Destination,
                                 migrationNodeID |-> None, currentMigrationNodeID |-> None]
                      /\ {e.node : e \in engines} = {M!Destination}
    BY DEF Inv, OutcomeIsFinal, M!OutcomeIsFinal
  <2>1. /\ mVol \in VolumeIDs /\ mTickets = {M!Destination}
        /\ mVol.nodeID = M!Destination /\ mVol.currentNodeID = M!Destination /\ M!Destination # None
        /\ mVol.migrationNodeID = None /\ mVol.currentMigrationNodeID = None
    BY MigrationFacts
  <2>2. OnlyEngine(M!Destination) /\ HasEngine(M!Destination)
    BY <2>1, MigrationFacts DEF MigrationInv, EngineInv
  <2>3. {e.node : e \in engines} = {M!Destination}
    BY <2>2 DEF OnlyEngine, HasEngine
  <2> QED
    BY <2>1, <2>3 DEF VolumeIDs
<1> QED
  BY <1>1, Invariance, PTL

(* crd.py create: although its requests are retried and their failures     *)
(* swallowed, its volume is its own if the name was free.                  *)
THEOREM CreatedVolumeIsNew == Spec => []CreatedIsNew
<1>1. Inv => CreatedIsNew
  BY DEF Inv, CreatedIsNew, R!CreatedIsNew, RestorationInv, FreeInv
<1> QED
  BY <1>1, Invariance, PTL

(* crd.py wait_for_restore_required_status, rest.py activate: the volume   *)
(* has the data of its backup, an activated one those that activate saw.   *)
THEOREM RestoredVolumeHasData == Spec => []RestoredHasTheData
<1>1. Inv => RestoredHasTheData
  BY DEF Inv, RestoredHasTheData, R!RestoredHasTheData, R!ActivatedHasLastBackup, RestorationInv,
         RestoredInv, DataInv
<1> QED
  BY <1>1, Invariance, PTL

(* volume_keywords.py: two reads, one after the other, do show that both   *)
(* volumes rebuilt at one moment, and one coroutine that it started there. *)
THEOREM BothWereTogether == Spec => []BothMeansTogether
<1>1. Inv => BothMeansTogether
  BY DEF Inv, BothMeansTogether, B!BothMeansTogether, B!StartsOnTheNode, RebuildingInv, BothInv,
         FoundInv, B!Volumes
<1> QED
  BY <1>1, Invariance, PTL

-----------------------------------------------------------------------------
(* The calls implement the set of tickets: a store is the call's effect,   *)
(* since its copy is the edited object, and nothing else of a call shows.  *)

LEMMA TicketsInit == A!Init => A!Atomic!Init
<1> SUFFICES ASSUME A!Init PROVE A!Atomic!Init
  OBVIOUS
<1>1. h \in HarnessSet /\ h.pc = "idle" /\ tickets = {} /\ lost = 0
  BY AttachmentInit, HarnessTyped DEF AttachmentInv, A!Init
<1>2. A!AtomicPhase = "idle"
  BY <1>1 DEF A!AtomicPhase, A!Ended
<1> QED
  BY <1>1, <1>2 DEF A!Atomic!Init, A!Atomic!Request, HarnessSet

(* The attempt after this one belongs to the same call, or there is none.  *)
LEMMA RetryShows ==
  ASSUME h \in HarnessSet, h.pc \in {"get", "send"}, A!Retry
  PROVE  /\ h'.op = h.op /\ h'.node = h.node /\ h'.disable = h.disable
         /\ A!AtomicPhase = "pending"
         /\ \/ A!AtomicPhase' = "pending"
            \/ A!AtomicPhase' = IF h.op = "enable" THEN "returned" ELSE "failed"
<1>1. A!AtomicPhase = "pending"
  BY DEF A!AtomicPhase, A!Ended
<1>2. CASE h.attempts > 1
  <2>1. h' = [h EXCEPT !.pc = "get", !.attempts = h.attempts - 1]
    BY <1>2 DEF A!Retry
  <2>2. h'.pc = "get" /\ h'.op = h.op /\ h'.node = h.node /\ h'.disable = h.disable
    BY <2>1 DEF HarnessSet
  <2> QED
    BY <1>1, <2>2 DEF A!AtomicPhase, A!Ended
<1>3. CASE ~(h.attempts > 1)
  <2>1. h' = [h EXCEPT !.pc = IF h.op = "enable" THEN "returned" ELSE "failed"]
    BY <1>3 DEF A!Retry
  <2>2. /\ h'.pc = IF h.op = "enable" THEN "returned" ELSE "failed"
        /\ h'.op = h.op /\ h'.node = h.node /\ h'.disable = h.disable
    BY <2>1 DEF HarnessSet
  <2> QED
    BY <1>1, <2>2 DEF A!AtomicPhase, A!Ended
<1> QED
  BY <1>2, <1>3

LEMMA TicketsStep ==
  ASSUME AttachmentInv, A!Next \/ UNCHANGED attachment
  PROVE  A!Atomic!Next \/ UNCHANGED A!Atomic!vars
<1>1. h \in HarnessSet /\ A!TypeOK
  BY HarnessTyped DEF AttachmentInv
<1>2. CASE UNCHANGED attachment
  <2>1. A!AtomicPhase' = A!AtomicPhase
    BY <1>2 DEF attachment, A!AtomicPhase
  <2> QED
    BY <1>2, <2>1 DEF attachment, A!Atomic!vars
<1>3. CASE A!HarnessCall
  <2>1. PICK op \in {"attach", "detach", "enable"}, n \in Nodes, disable \in BOOLEAN,
             attempts \in {1, AttachmentRetries} : A!Start(op, n, disable, attempts)
    BY <1>1, <1>3 DEF A!HarnessCall, A!EnableFrontend, A!Attach, A!Detach, HarnessSet
  <2>2. /\ h.pc \in A!Ended /\ lost' = 0 /\ tickets' = tickets
        /\ h'.pc = "get" /\ h'.op = op /\ h'.node = n /\ h'.disable = disable
    BY <1>1, <2>1 DEF A!Start, HarnessSet
  <2>3. A!AtomicPhase # "pending" /\ A!AtomicPhase' = "pending"
    BY <2>2 DEF A!AtomicPhase, A!Ended
  <2>4. A!Atomic!Begin
    BY <2>2, <2>3 DEF A!Atomic!Begin, A!Atomic!Request
  <2> QED
    BY <2>4 DEF A!Atomic!Next
<1>4. CASE A!GetForAttach \/ A!GetForDetach \/ A!GetForEnable
  <2>1. PICK body : A!Prepare(body)
    BY <1>4 DEF A!GetForAttach, A!GetForDetach, A!GetForEnable
  <2>2. h.pc = "get" /\ tickets' = tickets /\ lost' = lost
    BY <1>4 DEF A!GetForAttach, A!GetForDetach, A!GetForEnable
  <2>3. h'.pc = "send" /\ h'.op = h.op /\ h'.node = h.node /\ h'.disable = h.disable
    BY <1>1, <2>1 DEF A!Prepare, HarnessSet
  <2>4. A!AtomicPhase' = A!AtomicPhase
    BY <2>2, <2>3 DEF A!AtomicPhase, A!Ended
  <2> QED
    BY <2>2, <2>3, <2>4 DEF A!Atomic!vars
<1>5. CASE A!GetFails \/ A!NoTicketToDelete \/ A!Refused
  <2>1. h.pc \in {"get", "send"} /\ A!Retry /\ tickets' = tickets /\ lost' = lost
    BY <1>5 DEF A!GetFails, A!NoTicketToDelete, A!Refused
  <2>2. /\ h'.op = h.op /\ h'.node = h.node /\ h'.disable = h.disable
        /\ A!AtomicPhase = "pending"
        /\ \/ A!AtomicPhase' = "pending"
           \/ A!AtomicPhase' = IF h.op = "enable" THEN "returned" ELSE "failed"
    BY <1>1, <2>1, RetryShows
  <2> QED
    BY <2>1, <2>2 DEF A!Atomic!Next, A!Atomic!End, A!Atomic!Silence, A!Atomic!vars
<1>6. CASE A!Stored \/ A!StoredReplyLost
  <2>1. h.pc = "send" /\ A!Fresh /\ tickets' = h.body
    BY <1>6 DEF A!Stored, A!StoredReplyLost, A!Store
  <2>2. A!AtomicPhase = "pending" /\ A!Atomic!Change
    <3>1. A!AtomicPhase = "pending"
      BY <2>1 DEF A!AtomicPhase, A!Ended
    <3>2. Edited
      BY <2>1 DEF A!Fresh, AttachmentInv, CopyInv
    <3>3. CASE h.op = "attach" /\ h.body = (tickets \ A!Own(h.node)) \cup {OwnTicket}
      BY <2>1, <3>1, <3>3 DEF A!Atomic!Change, A!Atomic!Of, A!Atomic!Ticket, A!Own, OwnTicket
    <3>4. CASE h.op = "detach" /\ \E x \in Deletable : h.body = tickets \ {x}
      <4>1. PICK x \in Deletable : h.body = tickets \ {x}
        BY <3>4
      <4>2. x \in IF A!Atomic!Of(h.node) # {} THEN A!Atomic!Of(h.node) ELSE A!Atomic!At(h.node)
        BY <4>1 DEF Deletable, A!Own, A!On, A!Atomic!Of, A!Atomic!At
      <4> QED
        BY <2>1, <3>1, <3>4, <4>1, <4>2 DEF A!Atomic!Change
    <3>5. CASE h.op = "enable" /\ h.body = {[x EXCEPT !.frontend = TRUE] : x \in tickets}
      BY <2>1, <3>1, <3>5 DEF A!Atomic!Change
    <3> QED
      BY <3>1, <3>2, <3>3, <3>4, <3>5 DEF Edited
  <2>3. CASE A!Stored
    <3>1. h' = [h EXCEPT !.pc = "returned"] /\ lost' = lost
      BY <2>3 DEF A!Stored
    <3>2. h'.pc = "returned" /\ h'.op = h.op /\ h'.node = h.node /\ h'.disable = h.disable
      BY <1>1, <3>1 DEF HarnessSet
    <3>3. A!AtomicPhase' = "returned"
      BY <3>2 DEF A!AtomicPhase, A!Ended
    <3> QED
      BY <2>2, <3>1, <3>2, <3>3 DEF A!Atomic!Next, A!Atomic!TakeEffect
  <2>4. CASE A!StoredReplyLost
    <3>1. A!Retry /\ lost' = lost + 1
      BY <2>4 DEF A!StoredReplyLost
    <3>2. /\ h'.op = h.op /\ h'.node = h.node /\ h'.disable = h.disable
          /\ \/ A!AtomicPhase' = "pending"
             \/ A!AtomicPhase' = IF h.op = "enable" THEN "returned" ELSE "failed"
      BY <1>1, <2>1, <3>1, RetryShows
    <3> QED
      BY <2>2, <3>1, <3>2 DEF A!Atomic!Next, A!Atomic!TakeEffectUnheard, A!Atomic!Silence
  <2> QED
    BY <1>6, <2>3, <2>4
<1>7. CASE A!World
  <2>1. h' = h /\ lost' = lost
    BY <1>7 DEF A!World, A!StatusUpdate, A!ForeignAttach, A!ForeignDetach, A!Others
  <2>2. A!AtomicPhase' = A!AtomicPhase
    BY <2>1 DEF A!AtomicPhase
  <2>3. \/ tickets' = tickets
        \/ \E f \in Foreign :
              \/ /\ A!Atomic!Of(f) = {}
                 /\ \E n \in Nodes : tickets' = tickets \cup {A!Atomic!Ticket(f, n, TRUE)}
              \/ \E x \in A!Atomic!Of(f) : tickets' = tickets \ {x}
    <3>1. CASE A!StatusUpdate
      BY <3>1 DEF A!StatusUpdate, A!Others
    <3>2. ASSUME NEW f \in Foreign, NEW n \in Nodes, A!ForeignAttach(f, n)
          PROVE  A!Atomic!Of(f) = {} /\ tickets' = tickets \cup {A!Atomic!Ticket(f, n, TRUE)}
      BY <3>2 DEF A!ForeignAttach, A!Others, A!Atomic!Of, A!Atomic!Ticket
    <3>3. ASSUME NEW f \in Foreign, A!ForeignDetach(f)
          PROVE  \E x \in A!Atomic!Of(f) : tickets' = tickets \ {x}
      BY <3>3 DEF A!ForeignDetach, A!Others, A!Atomic!Of
    <3> QED
      BY <1>7, <3>1, <3>2, <3>3 DEF A!World
  <2> QED
    BY <2>1, <2>2, <2>3 DEF A!Atomic!Next, A!Atomic!ForeignChange, A!Atomic!vars
<1> QED
  BY <1>2, <1>3, <1>4, <1>5, <1>6, <1>7 DEF A!Next, A!Step

(***************************************************************************)
(* crd.py attach, detach, enable_volume_frontend: whatever others write    *)
(* between their read and their write, a call changes the tickets in one   *)
(* step, its own or all frontends, or not at all, and once more only for a *)
(* reply that was lost; for any nodes, tickets and attempts.               *)
(***************************************************************************)
THEOREM AttachmentImplementsTicketSet == Spec => CallsAreAtomic
<1>1. Init => A!Atomic!Init
  BY TicketsInit DEF Init
<1>2. Inv /\ [Next]_vars => [A!Atomic!Next]_(A!Atomic!vars)
  <2> SUFFICES ASSUME Inv, [Next]_vars PROVE A!Atomic!Next \/ UNCHANGED A!Atomic!vars
    OBVIOUS
  <2>1. A!Next \/ UNCHANGED attachment
    BY DEF Next, vars, Attachment, Migration, Restoration, Rebuilding
  <2> QED
    BY <2>1, TicketsStep DEF Inv
<1> QED
  BY <1>1, <1>2, Invariance, PTL DEF Spec, CallsAreAtomic, A!ImplementsTicketSet, A!Atomic!Spec
=============================================================================
