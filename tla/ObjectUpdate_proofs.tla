------------------------ MODULE ObjectUpdate_proofs ------------------------
(***************************************************************************)
(* Proofs about the optimistic update loop, for any number of clients,     *)
(* keys, values and attempts.                                              *)
(***************************************************************************)
EXTENDS ObjectUpdate, TLAPS

(* Some request exists to start from.                                      *)
LEMMA SomeRequest == (CHOOSE r \in Request : TRUE) \in Request
<1>1. PICK k \in Keys, v \in Values : TRUE
  BY RequestAssumption
<1>2. [key |-> k, value |-> v] \in Request
  BY <1>1 DEF Request
<1> QED
  BY <1>2

(* Setting one key of an object gives an object.                           *)
LEMMA SetKeyType ==
  ASSUME NEW d \in [Keys -> Values], NEW r \in Request
  PROVE  [d EXCEPT ![r.key] = r.value] \in [Keys -> Values]
BY DEF Request

(* The server's write: the version moves exactly when the object does.     *)
LEMMA StoreType ==
  ASSUME version \in Nat, NEW d \in [Keys -> Values], Store(d)
  PROVE  /\ data' \in [Keys -> Values]
         /\ version' \in Nat
         /\ version' >= version
         /\ version' = version => data' = data
BY DEF Store

(* Type correctness, together with the fact that a call in the loop has    *)
(* attempts left, from which the attempt counter stays within its range.   *)
LEMMA TypeStep == TypeOK /\ AttemptInv /\ [Next]_vars => TypeOK' /\ AttemptInv'
<1> SUFFICES ASSUME TypeOK, AttemptInv, [Next]_vars
             PROVE  TypeOK' /\ AttemptInv'
  OBVIOUS
<1> USE DEF TypeOK, AttemptInv, Goto, PCs, Ended, Replies
<1>1. ASSUME NEW c \in Clients, Call(c) PROVE TypeOK' /\ AttemptInv'
  BY <1>1, RetryAssumption DEF Call
<1>2. ASSUME NEW c \in Clients, Get(c) PROVE TypeOK' /\ AttemptInv'
  <2>1. [data EXCEPT ![call[c].key] = call[c].value] \in [Keys -> Values]
    BY SetKeyType
  <2>2. body' \in [Clients -> Copy]
    BY <1>2, <2>1 DEF Get, Copy
  <2> QED
    BY <1>2, <2>2 DEF Get
<1>3. ASSUME NEW c \in Clients, GetRaises(c) PROVE TypeOK' /\ AttemptInv'
  BY <1>3 DEF GetRaises
<1>4. ASSUME NEW c \in Clients, Return(c) PROVE TypeOK' /\ AttemptInv'
  BY <1>4 DEF Return
<1>5. ASSUME NEW c \in Clients, Conflict(c) PROVE TypeOK' /\ AttemptInv'
  BY <1>5, RetryAssumption DEF Conflict
<1>6. ASSUME NEW c \in Clients, Raise(c) PROVE TypeOK' /\ AttemptInv'
  BY <1>6 DEF Raise
<1>7. ASSUME NEW c \in Clients, ServeReplace(c) PROVE TypeOK' /\ AttemptInv'
  <2>1. body[c].data \in [Keys -> Values]
    BY DEF Copy
  <2>2. data' \in [Keys -> Values] /\ version' \in Nat
    BY <1>7, <2>1, StoreType DEF ServeReplace
  <2> QED
    BY <1>7, <2>2 DEF ServeReplace
<1>8. ASSUME NEW c \in Clients, ServeConflict(c) PROVE TypeOK' /\ AttemptInv'
  BY <1>8 DEF ServeConflict
<1>9. ASSUME NEW c \in Clients, ServeError(c) PROVE TypeOK' /\ AttemptInv'
  BY <1>9 DEF ServeError
<1>10. ASSUME Reconcile PROVE TypeOK' /\ AttemptInv'
  <2>1. PICK k \in ControllerKeys, v \in Values : Store([data EXCEPT ![k] = v])
    BY <1>10 DEF Reconcile
  <2>2. [data EXCEPT ![k] = v] \in [Keys -> Values]
    BY KeysAssumption
  <2>3. data' \in [Keys -> Values] /\ version' \in Nat
    BY <2>1, <2>2, StoreType
  <2> QED
    BY <1>10, <2>3 DEF Reconcile
<1>11. CASE UNCHANGED vars
  BY <1>11 DEF vars
<1> QED
  BY <1>1, <1>2, <1>3, <1>4, <1>5, <1>6, <1>7, <1>8, <1>9, <1>10, <1>11
     DEF Next, Step, Serve

LEMMA TypeInit == Init => TypeOK /\ AttemptInv
BY SomeRequest, RetryAssumption
   DEF Init, TypeOK, AttemptInv, PCs, Ended, Copy

(* Type correctness of the object, the clients' locals and their positions. *)
THEOREM TypeCorrect == Spec => []TypeOK
BY TypeInit, TypeStep, PTL DEF Spec

-----------------------------------------------------------------------------
(* The version never goes back, and a write it does not record changes     *)
(* nothing.                                                                *)
LEMMA VersionMoves ==
  ASSUME TypeOK, [Next]_vars
  PROVE  version' >= version /\ (version' = version => data' = data)
<1> USE DEF TypeOK
<1>1. ASSUME NEW c \in Clients, ServeReplace(c)
      PROVE  version' >= version /\ (version' = version => data' = data)
  BY <1>1, StoreType DEF ServeReplace, Copy
<1>2. ASSUME Reconcile
      PROVE  version' >= version /\ (version' = version => data' = data)
  <2>1. PICK k \in ControllerKeys, v \in Values : Store([data EXCEPT ![k] = v])
    BY <1>2 DEF Reconcile
  <2>2. [data EXCEPT ![k] = v] \in [Keys -> Values]
    BY KeysAssumption
  <2> QED
    BY <2>1, <2>2, StoreType
<1> QED
  BY <1>1, <1>2 DEF Next, Step, Serve, Call, Get, GetRaises, Return, Conflict,
                    Raise, ServeConflict, ServeError, vars

(* Each failed attempt is paid for by a write: the inductive step.         *)
LEMMA VersionStep ==
  TypeOK /\ AttemptInv /\ VersionInv /\ GaveUpInv /\ [Next]_vars
    => VersionInv' /\ GaveUpInv'
<1> SUFFICES ASSUME TypeOK, AttemptInv, VersionInv, GaveUpInv, [Next]_vars
             PROVE  VersionInv' /\ GaveUpInv'
  OBVIOUS
<1>1. TypeOK' /\ version' >= version
  BY TypeStep, VersionMoves
<1> DEFINE Inv(c) ==
      /\ start[c] <= version
      /\ pc[c] = "get" => version >= start[c] + attempt[c]
      /\ pc[c] = "replace" => /\ body[c].version <= version
                              /\ body[c].version >= start[c] + attempt[c]
      /\ pc[c] = "conflict" => version >= start[c] + attempt[c] + 1
      /\ pc[c] = "gaveUp" => version >= start[c] + RetryCount
<1>2. \A c \in Clients : Inv(c)
  BY DEF VersionInv, GaveUpInv
<1>3. SUFFICES ASSUME NEW c \in Clients PROVE Inv(c)'
  BY <1>3 DEF VersionInv, GaveUpInv
<1>4. Inv(c)
  BY <1>2
<1> USE DEF TypeOK, Goto, PCs, Ended, Replies
<1>5. CASE Call(c)
  BY <1>1, <1>5, RetryAssumption DEF Call
<1>6. CASE Get(c)
  BY <1>1, <1>4, <1>6 DEF Get
<1>7. CASE Conflict(c)
  BY <1>1, <1>4, <1>7, RetryAssumption DEF Conflict
<1>8. CASE ServeConflict(c)
  <2>1. pc[c] = "replace" /\ body[c].version # version
    BY <1>8 DEF ServeConflict, Fresh
  <2>2. body[c].version \in Nat /\ attempt[c] \in Nat /\ start[c] \in Nat
    BY DEF Copy
  <2>3. version >= start[c] + attempt[c] + 1
    BY <1>4, <2>1, <2>2
  <2>4. /\ pc'[c] = "conflict" /\ version' = version
        /\ start'[c] = start[c] /\ attempt'[c] = attempt[c]
    BY <1>8 DEF ServeConflict
  <2> QED
    BY <1>4, <2>3, <2>4
<1>9. CASE GetRaises(c) \/ Return(c) \/ Raise(c) \/ ServeError(c)
  BY <1>1, <1>4, <1>9 DEF GetRaises, Return, Raise, ServeError
<1>10. CASE ServeReplace(c)
  BY <1>1, <1>4, <1>10 DEF ServeReplace
<1>11. CASE Reconcile \/ UNCHANGED vars
  <2>1. /\ pc' = pc /\ start' = start /\ body' = body /\ attempt' = attempt
    BY <1>11 DEF Reconcile, vars
  <2> QED
    BY <1>1, <1>4, <2>1, RetryAssumption DEF Copy
<1>12. ASSUME NEW d \in Clients, d # c, Call(d) \/ Step(d) \/ Serve(d)
       PROVE  Inv(c)'
  <2>1. /\ pc'[c] = pc[c] /\ start'[c] = start[c]
        /\ body'[c] = body[c] /\ attempt'[c] = attempt[c]
    BY <1>12 DEF Step, Serve, Call, Get, GetRaises, Return, Conflict, Raise,
                 ServeReplace, ServeConflict, ServeError
  <2> QED
    BY <1>1, <1>4, <2>1, RetryAssumption DEF Copy
<1> QED
  BY <1>5, <1>6, <1>7, <1>8, <1>9, <1>10, <1>11, <1>12 DEF Next, Step, Serve

LEMMA VersionInit == Init => VersionInv /\ GaveUpInv
BY DEF Init, VersionInv, GaveUpInv

(* An update is given up silently only when the object changed under each  *)
(* of its attempts.                                                        *)
THEOREM GaveUpOnlyAfterConflicts == Spec => []GaveUpInv
BY TypeInit, TypeStep, VersionInit, VersionStep, PTL DEF Spec

-----------------------------------------------------------------------------
(* A body that is still fresh is the stored object with one key set.       *)
LEMMA FreshStep ==
  TypeOK /\ AttemptInv /\ VersionInv /\ FreshBodyInv /\ [Next]_vars
    => FreshBodyInv'
<1> SUFFICES ASSUME TypeOK, AttemptInv, VersionInv, FreshBodyInv, [Next]_vars,
                    NEW c \in Clients, (pc[c] = "replace" /\ Fresh(c))'
             PROVE  (body[c].data = [data EXCEPT ![call[c].key] = call[c].value])'
  BY DEF FreshBodyInv
<1>1. version' >= version /\ (version' = version => data' = data)
  BY VersionMoves
<1> USE DEF TypeOK, Goto, PCs, Ended, Replies
<1>2. CASE Get(c)
  BY <1>2 DEF Get, Copy
<1>3. CASE pc[c] = "replace" /\ body'[c] = body[c] /\ call'[c] = call[c]
  <2>1. body[c].version \in Nat /\ body[c].version <= version /\ version' \in Nat
    BY <1>3, TypeStep DEF Copy, VersionInv
  <2>2. body[c].version = version'
    BY <1>3 DEF Fresh
  <2>3. version' = version /\ data' = data
    BY <1>1, <2>1, <2>2
  <2>4. body[c].data = [data EXCEPT ![call[c].key] = call[c].value]
    BY <1>3, <2>2, <2>3 DEF FreshBodyInv, Fresh
  <2> QED
    BY <1>3, <2>3, <2>4
<1>4. ASSUME NEW d \in Clients, Call(d) \/ Step(d) \/ Serve(d), ~Get(c)
      PROVE  pc[c] = "replace" /\ body'[c] = body[c] /\ call'[c] = call[c]
  <2>1. CASE d = c
    BY <1>4, <2>1 DEF Step, Serve, Call, GetRaises, Return, Conflict, Raise,
                      ServeReplace, ServeConflict, ServeError
  <2>2. CASE d # c
    BY <1>4, <2>2 DEF Step, Serve, Call, Get, GetRaises, Return, Conflict, Raise,
                      ServeReplace, ServeConflict, ServeError
  <2> QED
    BY <2>1, <2>2
<1>5. CASE Reconcile \/ UNCHANGED vars
  BY <1>3, <1>5 DEF Reconcile, vars
<1> QED
  BY <1>2, <1>3, <1>4, <1>5 DEF Next

LEMMA FreshInit == Init => FreshBodyInv
BY DEF Init, FreshBodyInv

(* Replacing the whole object never undoes what somebody else wrote.       *)
THEOREM NoStaleOverwrite == Spec => []FreshBodyInv
BY TypeInit, TypeStep, VersionInit, VersionStep, FreshInit, FreshStep, PTL
   DEF Spec

-----------------------------------------------------------------------------
(* The loop implements the atomic update: every step of a client, of the   *)
(* server or of the controllers is a step of AtomicObject, or changes      *)
(* nothing it shows.                                                       *)
LEMMA AtomicInit == Init => Atomic!Init
BY SomeRequest DEF Init, Atomic!Init, Atomic!Request, AtomicPhase, Request

LEMMA AtomicStep ==
  TypeOK /\ FreshBodyInv /\ [Next]_vars => [Atomic!Next]_(Atomic!vars)
<1> SUFFICES ASSUME TypeOK, FreshBodyInv, [Next]_vars
             PROVE  Atomic!Next \/ UNCHANGED Atomic!vars
  OBVIOUS
<1> DEFINE phase == [c \in Clients |-> AtomicPhase(c)]
<1> USE DEF TypeOK, Goto, PCs, Ended, Replies
<1>1. ASSUME NEW c \in Clients, Call(c) PROVE Atomic!Begin(c)
  <2>1. phase' = [phase EXCEPT ![c] = "pending"]
    BY <1>1 DEF Call, AtomicPhase
  <2>2. phase[c] \in Atomic!Ended
    BY <1>1 DEF Call, AtomicPhase, Atomic!Ended
  <2>3. \E r \in Atomic!Request : call' = [call EXCEPT ![c] = r]
    BY <1>1 DEF Call, Request, Atomic!Request
  <2> QED
    BY <1>1, <2>1, <2>2, <2>3 DEF Call, Atomic!Begin
<1>2. ASSUME NEW c \in Clients, Get(c) \/ ServeConflict(c) \/ ServeError(c)
      PROVE  UNCHANGED Atomic!vars
  <2>1. phase' = phase
    BY <1>2 DEF Get, ServeConflict, ServeError, AtomicPhase
  <2> QED
    BY <1>2, <2>1 DEF Get, ServeConflict, ServeError, Atomic!vars
<1>3. ASSUME NEW c \in Clients, GetRaises(c) \/ Return(c) \/ Raise(c)
      PROVE  Atomic!End(c)
  <2>1. CASE GetRaises(c)
    <3>1. phase[c] = "pending" /\ phase' = [phase EXCEPT ![c] = "raised"]
      BY <2>1 DEF GetRaises, AtomicPhase
    <3> QED
      BY <2>1, <3>1 DEF GetRaises, Atomic!End
  <2>2. CASE Return(c)
    <3>1. phase[c] = "applied" /\ phase' = [phase EXCEPT ![c] = "returned"]
      BY <2>2 DEF Return, AtomicPhase
    <3> QED
      BY <2>2, <3>1 DEF Return, Atomic!End
  <2>3. CASE Raise(c)
    <3>1. /\ phase[c] \in {"pending", "applied"}
          /\ phase' = [phase EXCEPT ![c] = "raised"]
      BY <2>3 DEF Raise, AtomicPhase
    <3> QED
      BY <2>3, <3>1 DEF Raise, Atomic!End
  <2> QED
    BY <1>3, <2>1, <2>2, <2>3
<1>4. ASSUME NEW c \in Clients, Conflict(c)
      PROVE  Atomic!End(c) \/ UNCHANGED Atomic!vars
  <2>1. CASE attempt[c] + 1 < RetryCount
    <3>1. phase' = phase
      BY <1>4, <2>1 DEF Conflict, AtomicPhase
    <3> QED
      BY <1>4, <3>1 DEF Conflict, Atomic!vars
  <2>2. CASE ~(attempt[c] + 1 < RetryCount)
    <3>1. phase[c] = "pending" /\ phase' = [phase EXCEPT ![c] = "gaveUp"]
      BY <1>4, <2>2 DEF Conflict, AtomicPhase
    <3> QED
      BY <1>4, <3>1 DEF Conflict, Atomic!End
  <2> QED
    BY <2>1, <2>2
<1>5. ASSUME NEW c \in Clients, ServeReplace(c) PROVE Atomic!TakeEffect(c)
  <2>1. data' = [data EXCEPT ![call[c].key] = call[c].value]
    BY <1>5 DEF ServeReplace, Store, FreshBodyInv
  <2>2. phase[c] = "pending" /\ phase' = [phase EXCEPT ![c] = "applied"]
    BY <1>5 DEF ServeReplace, AtomicPhase
  <2> QED
    BY <1>5, <2>1, <2>2 DEF ServeReplace, Atomic!TakeEffect
<1>6. ASSUME Reconcile PROVE Atomic!Reconcile
  <2>1. phase' = phase
    BY <1>6 DEF Reconcile, AtomicPhase
  <2> QED
    BY <1>6, <2>1 DEF Reconcile, Store, Atomic!Reconcile
<1>7. CASE UNCHANGED vars
  BY <1>7 DEF vars, Atomic!vars, AtomicPhase
<1> QED
  BY <1>1, <1>2, <1>3, <1>4, <1>5, <1>6, <1>7
     DEF Next, Step, Serve, Atomic!Next

(* The optimistic loop implements the atomic update of one key.            *)
THEOREM ObjectUpdateImplementsAtomicObject == Spec => ImplementsAtomicObject
BY TypeInit, TypeStep, VersionInit, VersionStep, FreshInit, FreshStep,
   AtomicInit, AtomicStep, PTL
   DEF Spec, ImplementsAtomicObject, Atomic!Spec
=============================================================================
