---------------------- MODULE RancherHelpers_proofs -----------------------
(***************************************************************************)
(* Proofs about the fixtures and helpers of the two common_fixtures.py,    *)
(* for any fixtures, hosts, services, containers, namespaces and pods, any *)
(* scales, any number of calls and polls and any failures: each part has   *)
(* an inductive invariant, from which its properties follow.               *)
(***************************************************************************)
EXTENDS MC_RancherTests, FiniteSetTheorems, SequenceTheorems, WellFoundedInduction, TLAPS

-----------------------------------------------------------------------------
(* Of numbers there is a least one: the initial segments up to them are    *)
(* finite, and one of these contains none of the others.                   *)
LEMMA LeastNumber ==
  ASSUME NEW T \in SUBSET Nat, T # {}
  PROVE  \E n \in T : \A m \in T : n <= m
<1> DEFINE Segments == {0 .. n : n \in T}
<1>1. Segments \subseteq FiniteSubsetsOf(Nat) /\ Segments # {}
  <2>1. \A n \in T : IsFiniteSet(0 .. n) /\ 0 .. n \in SUBSET Nat
    BY FS_Interval
  <2> QED
    BY <2>1 DEF FiniteSubsetsOf
<1>2. IsWellFoundedOn(StrictSubsetOrdering(Nat), FiniteSubsetsOf(Nat))
  BY FS_StrictSubsetOrderingWellFounded
<1>3. PICK X \in Segments : \A Y \in Segments : <<Y, X>> \notin StrictSubsetOrdering(Nat)
  <2> HIDE DEF Segments
  <2> QED
    BY <1>1, <1>2, WFMin
<1>4. PICK n \in T : X = 0 .. n
  BY <1>3
<1>5. ASSUME NEW m \in T, ~(n <= m)
      PROVE  FALSE
  <2>1. m \in Nat /\ n \in Nat /\ m < n
    BY <1>5
  <2>2. 0 .. m \subseteq 0 .. n /\ 0 .. m # 0 .. n /\ 0 .. m \in Segments
    BY <2>1
  <2>3. <<0 .. m, 0 .. n>> \in (SUBSET Nat) \X (SUBSET Nat)
    BY <2>1
  <2>4. <<0 .. m, 0 .. n>> \in StrictSubsetOrdering(Nat)
    BY <2>2, <2>3 DEF StrictSubsetOrdering
  <2> QED
    BY <1>3, <1>4, <2>2, <2>4
<1> QED
  BY <1>4, <1>5

-----------------------------------------------------------------------------
(* The session fixtures                                                    *)

SessionRuns == [pc : {"tests", "setup", "finalize", "await", "over"},
                f : Fixtures \cup {"none"}, step : 1 .. 6]

SessionTypes ==
    /\ host \in [Hosts -> {"none", "own", "starting", "active", "error"}]
    /\ item \in SUBSET S!Item /\ session \in 1 .. Sessions
    /\ status \in [Fixtures -> {"unused", "unset", "done", "raised"}]
    /\ registered \in Seq(Fixtures) /\ run \in SessionRuns
    /\ failed \in SUBSET (Fixtures \X (1 .. session)) /\ faulty \in SUBSET failed
    /\ sessionFaults \in 0 .. SessionFaults

IsRegistered(f) == \E k \in 1 .. Len(registered) : registered[k] = f

(* What is set up or finalized is the session's: its fixture is unset, or  *)
(* the first one that is registered.                                       *)
RunInv ==
    /\ run.pc \in {"setup", "finalize", "await"} => run.f \in Fixtures
    /\ run.pc = "setup" => /\ run.step <= Len(S!Steps(run.f)) + 1
                           /\ status[run.f] = "unset"
    /\ run.pc \in {"finalize", "await"} => registered # <<>> /\ Head(registered) = run.f
    /\ run.pc = "over" => registered = <<>>
    /\ \A f \in Fixtures : IsRegistered(f) => status[f] = "done"

(* The hosts that were there at first stay, and those of a container but   *)
(* for host_ssh_containers's work.                                         *)
HostInv ==
    /\ \A h \in OwnHosts : host[h] = "own"
    /\ \A i \in item : i.kind # "ssh" => host[i.place] \in {"own", "active"}

(* An item of this session whose fixture is set up now, or has registered  *)
(* its finalizer.                                                          *)
InHand(i, f) == /\ i.session = session
                /\ (run.pc = "setup" /\ run.f = f) \/ IsRegistered(f)

Accounted(i, f) == \/ <<f, i.session>> \in failed
                   \/ InHand(i, f)
                   \/ i.state = "removing" /\ ~S!FinalizerWaits(f)

OwnerInv == \A i \in item : \E f \in Fixtures : i.kind \in S!KindsOf(f) /\ Accounted(i, f)

(* No session creates two items of a kind in one place: its fixtures are   *)
(* set up once, and create nothing before their steps say so.              *)
UniqueInv == \A i, j \in item :
    i.kind = j.kind /\ i.place = j.place /\ i.session = j.session => i = j

InTimeInv ==
    /\ \A i \in item : i.session \in 1 .. session
    /\ run.pc # "over" =>
          \A i \in item, f \in Fixtures :
             i.session = session /\ i.kind \in S!KindsOf(f) /\ status[f] = "unset" =>
                /\ run.pc = "setup" /\ run.f = f
                /\ \E k \in 1 .. run.step - 1 : S!Steps(f)[k] = S!Create(i.kind)

(* Why a fixture may fail with nothing going wrong in it.                  *)
Excused(f) ==
    \/ \E s \in 1 .. session - 1 : <<f, s>> \in faulty
    \/ ~S!FinalizerWaits(f) /\ (session > 1 \/ \E h \in Hosts : host[h] = "error")

ErrorInv == \A i \in item, f \in Fixtures :
    i.session = session /\ i.state = "error" /\ i.kind \in S!KindsOf(f) => Excused(f)

FailedInv ==
    /\ \A f \in Fixtures, s \in 1 .. session :
          S!FinalizerWaits(f) /\ <<f, s>> \in failed => \E t \in 1 .. s : <<f, t>> \in faulty
    /\ \A f \in Fixtures : <<f, session>> \in failed \ faulty => Excused(f)

SessionInv == /\ SessionTypes /\ RunInv /\ HostInv /\ OwnerInv /\ UniqueInv /\ InTimeInv
              /\ ErrorInv /\ FailedInv

LEMMA SessionConstants ==
  /\ Fixtures \subseteq {"host_ssh_containers", "socat_containers", "rancher_compose_container",
                         "rancher_cli_container", "kube_hosts", "certs",
                         "glusterfs_glusterconvoy", "ha_hosts"}
  /\ Hosts \subseteq Nat /\ OwnHosts \subseteq Hosts /\ OwnHosts # {}
  /\ Sessions \in Nat \ {0} /\ SessionFaults \in Nat
BY SessionBounds DEF S!Bounds

(* The steps of the fixtures, and what each of them creates.               *)
StepsOf(f, n, kinds) ==
    /\ Len(S!Steps(f)) = n /\ S!KindsOf(f) = kinds
    /\ \A k \in 1 .. n : /\ S!Steps(f)[k].do \in {"create", "await"} => S!Steps(f)[k].kind \in kinds
                         /\ S!Steps(f)[k].do = "create" => S!Steps(f)[k] = S!Create(S!Steps(f)[k].kind)
    /\ \A k, l \in 1 .. n : S!Steps(f)[k].do = "create" /\ S!Steps(f)[k] = S!Steps(f)[l] => k = l

LEMMA FixtureSteps ==
  /\ StepsOf("host_ssh_containers", 2, {"ssh"})
  /\ StepsOf("socat_containers", 4, {"socat", "host"})
  /\ StepsOf("rancher_compose_container", 3, {"compose"})
  /\ StepsOf("rancher_cli_container", 3, {"cli"})
  /\ StepsOf("kube_hosts", 3, {"kubectl"})
  /\ StepsOf("certs", 2, {"cert"})
  /\ StepsOf("glusterfs_glusterconvoy", 5, {"glusterfs", "convoy"})
  /\ StepsOf("ha_hosts", 2, {})
<1> USE DEF StepsOf, S!KindsOf, S!Steps, S!Create, S!Await, S!Check
<1>1. StepsOf("host_ssh_containers", 2, {"ssh"})
  BY DEF S!host_ssh_containers
<1>2. StepsOf("socat_containers", 4, {"socat", "host"})
  BY DEF S!socat_containers
<1>3. StepsOf("rancher_compose_container", 3, {"compose"})
  BY DEF S!rancher_compose_container
<1>4. StepsOf("rancher_cli_container", 3, {"cli"})
  BY DEF S!rancher_cli_container
<1>5. StepsOf("kube_hosts", 3, {"kubectl"})
  BY DEF S!kube_hosts, S!create_kubectl_client_container
<1>6. StepsOf("certs", 2, {"cert"})
  BY DEF S!certs
<1>7. StepsOf("glusterfs_glusterconvoy", 5, {"glusterfs", "convoy"})
  BY DEF S!glusterfs_glusterconvoy
<1>8. StepsOf("ha_hosts", 2, {})
  BY DEF S!ha_hosts
<1> QED
  BY <1>1, <1>2, <1>3, <1>4, <1>5, <1>6, <1>7, <1>8, Zenon

LEMMA KindsAreOwn ==
  ASSUME NEW f \in Fixtures
  PROVE  /\ Len(S!Steps(f)) \in 2 .. 5
         /\ S!KindsOf(f) \subseteq S!Kinds
         /\ \A g \in Fixtures, kind \in S!KindsOf(f) : kind \in S!KindsOf(g) => f = g
         /\ "ssh" \in S!KindsOf(f) <=> ~S!FinalizerWaits(f)
BY SessionConstants, FixtureSteps DEF StepsOf, S!Kinds, S!FinalizerWaits

LEMMA StepKinds ==
  ASSUME NEW f \in Fixtures, NEW k \in 1 .. Len(S!Steps(f))
  PROVE  /\ S!Steps(f)[k].do \in {"create", "await"} => S!Steps(f)[k].kind \in S!KindsOf(f)
         /\ S!Steps(f)[k].do = "create" =>
               /\ S!Steps(f)[k] = S!Create(S!Steps(f)[k].kind)
               /\ \A l \in 1 .. Len(S!Steps(f)) : S!Steps(f)[k] = S!Steps(f)[l] => k = l
<1>1. \E n, kinds : StepsOf(f, n, kinds)
  BY SessionConstants, FixtureSteps
<1> QED
  BY <1>1 DEF StepsOf

(* Some host is always there.                                              *)
LEMMA FirstHost ==
  ASSUME SessionTypes, HostInv
  PROVE  S!FirstOf(S!ActiveHosts) \in S!ActiveHosts
<1>1. S!ActiveHosts \in SUBSET Nat
  BY SessionConstants DEF S!ActiveHosts
<1>2. S!ActiveHosts # {}
  BY SessionConstants DEF S!ActiveHosts, HostInv
<1> QED
  BY <1>1, <1>2, LeastNumber DEF S!FirstOf

LEMMA PlacesAreHosts ==
  ASSUME SessionTypes, HostInv, NEW kind, NEW h \in S!Places(kind)
  PROVE  h \in Hosts /\ (kind # "ssh" => h \in S!ActiveHosts)
<1>1. S!ActiveHosts \subseteq Hosts
  BY DEF S!ActiveHosts
<1> QED
  BY <1>1, FirstHost DEF S!Places

LEMMA SessionInit == S!Init => SessionInv
<1> SUFFICES ASSUME S!Init PROVE SessionInv
  OBVIOUS
<1>1. /\ host = [h \in Hosts |-> IF h \in OwnHosts THEN "own" ELSE "none"]
      /\ item = {} /\ session = 1 /\ status \in [Fixtures -> {"unused", "unset"}]
      /\ registered = <<>> /\ run = S!Idle /\ failed = {} /\ faulty = {} /\ sessionFaults = 0
  BY DEF S!Init
<1>2. 1 \in 1 .. Sessions /\ 0 \in 0 .. SessionFaults /\ 1 \in 1 .. 6
  BY SessionConstants
<1>3. SessionTypes
  <2>1. run \in SessionRuns
    BY <1>1, <1>2 DEF SessionRuns, S!Idle
  <2>2. host \in [Hosts -> {"none", "own", "starting", "active", "error"}]
    BY <1>1
  <2>3. registered \in Seq(Fixtures)
    BY <1>1
  <2> QED
    BY <1>1, <1>2, <2>1, <2>2, <2>3 DEF SessionTypes
<1>4. RunInv
  BY <1>1 DEF RunInv, S!Idle, IsRegistered
<1>5. HostInv
  BY <1>1, SessionConstants DEF HostInv
<1>6. OwnerInv /\ UniqueInv /\ InTimeInv /\ ErrorInv /\ FailedInv
  BY <1>1 DEF OwnerInv, UniqueInv, InTimeInv, ErrorInv, FailedInv
<1> QED
  BY <1>3, <1>4, <1>5, <1>6 DEF SessionInv

-----------------------------------------------------------------------------
(* Hosts become active, or are given up while they start.                  *)
HostsGrow == /\ host' \in [Hosts -> {"none", "own", "starting", "active", "error"}]
             /\ \A h \in Hosts : host[h] \in {"own", "active", "error"} => host'[h] = host[h]

(* Excuses and faults stay within a session.                               *)
LEMMA ExcusedStays ==
  ASSUME NEW f, Excused(f), HostsGrow, session' = session, faulty \subseteq faulty'
  PROVE  Excused(f)'
BY DEF Excused, HostsGrow

(* A step of a set-up, which may create items.                             *)
SetsUp(created) ==
    /\ run.pc = "setup" /\ created \subseteq S!NewItems
    /\ created # {} => S!Step("create")
    /\ item' = item \cup created /\ HostsGrow /\ UNCHANGED <<session, registered>>

LEMMA CreatedItems ==
  ASSUME SessionInv, NEW created, SetsUp(created), NEW i \in created
  PROVE  /\ i \in S!Item /\ i.session = session /\ i.state = "starting"
         /\ i.kind \in S!KindsOf(run.f) /\ (i.kind # "ssh" => i.place \in S!ActiveHosts)
         /\ run.step \in 1 .. Len(S!Steps(run.f)) /\ S!Steps(run.f)[run.step] = S!Create(i.kind)
<1>1. /\ run.f \in Fixtures /\ SessionTypes /\ HostInv /\ run \in SessionRuns
      /\ S!Step("create") /\ i \in S!NewItems
  BY DEF SetsUp, SessionInv, RunInv, SessionTypes
<1>2. PICK h \in S!Places(S!Kind) :
         i = [kind |-> S!Kind, place |-> h, session |-> session, state |-> "starting"]
  BY <1>1 DEF S!NewItems
<1>3. run.step \in 1 .. Len(S!Steps(run.f)) /\ S!Steps(run.f)[run.step].do = "create"
  BY <1>1, KindsAreOwn DEF S!Step, SessionRuns
<1>4. S!Kind \in S!KindsOf(run.f) /\ S!Kind \in S!Kinds /\ S!Steps(run.f)[run.step] = S!Create(S!Kind)
  BY <1>1, <1>3, StepKinds, KindsAreOwn DEF S!Kind
<1>5. h \in Hosts /\ (S!Kind # "ssh" => h \in S!ActiveHosts)
  BY <1>1, PlacesAreHosts
<1>6. i \in S!Item
  BY <1>1, <1>2, <1>4, <1>5 DEF S!Item, SessionTypes
<1> QED
  BY <1>2, <1>3, <1>4, <1>5, <1>6

(* No item of this session is of the kind that is created next.            *)
LEMMA KindIsNew ==
  ASSUME SessionInv, NEW created, SetsUp(created), NEW i \in created, NEW j \in item, j.kind = i.kind
  PROVE  j.session \in 1 .. session - 1
<1>1. /\ run.f \in Fixtures /\ SessionTypes /\ run \in SessionRuns /\ InTimeInv /\ status[run.f] = "unset"
      /\ run.pc = "setup"
  BY DEF SetsUp, SessionInv, RunInv, SessionTypes
<1>2. /\ i.kind \in S!KindsOf(run.f)
      /\ run.step \in 1 .. Len(S!Steps(run.f)) /\ S!Steps(run.f)[run.step] = S!Create(i.kind)
  BY CreatedItems
<1>3. j.session \in 1 .. session
  BY <1>1 DEF InTimeInv
<1>4. ASSUME j.session = session PROVE FALSE
  <2>1. PICK k \in 1 .. run.step - 1 : S!Steps(run.f)[k] = S!Create(j.kind)
    BY <1>1, <1>2, <1>4 DEF InTimeInv
  <2>2. k \in 1 .. Len(S!Steps(run.f)) /\ k # run.step
    BY <1>1, <1>2, <2>1, KindsAreOwn DEF SessionRuns
  <2>3. S!Steps(run.f)[run.step].do = "create" /\ S!Steps(run.f)[run.step] = S!Steps(run.f)[k]
    BY <1>2, <2>1 DEF S!Create
  <2> QED
    BY <1>1, <1>2, <2>2, <2>3, StepKinds
<1> QED
  BY <1>1, <1>3, <1>4 DEF SessionTypes

(* The items after a step of a set-up.                                     *)
LEMMA ItemsAfterSetUp ==
  ASSUME SessionInv, NEW created, SetsUp(created)
  PROVE  /\ item' \in SUBSET S!Item /\ HostInv' /\ UniqueInv'
         /\ \A i \in item' : i \in item \/ i \in created
         /\ \A i \in item' : i.session \in 1 .. session
<1>1. /\ SessionTypes /\ HostInv /\ UniqueInv /\ InTimeInv /\ run.f \in Fixtures
      /\ item' = item \cup created /\ HostsGrow
  BY DEF SetsUp, SessionInv, RunInv
<1>2. \A i \in created : /\ i \in S!Item /\ i.session = session
                         /\ i.kind # "ssh" => i.place \in S!ActiveHosts
  BY CreatedItems
<1>3. item' \in SUBSET S!Item
  BY <1>1, <1>2 DEF SessionTypes
<1>4. HostInv'
  <2>1. \A h \in OwnHosts : host'[h] = "own"
    BY <1>1, SessionConstants DEF HostInv, HostsGrow
  <2>2. ASSUME NEW i \in item', i.kind # "ssh" PROVE host'[i.place] \in {"own", "active"}
    <3>1. i.place \in Hosts
      BY <1>3 DEF S!Item
    <3>2. host[i.place] \in {"own", "active"}
      BY <1>1, <1>2, <2>2 DEF HostInv, S!ActiveHosts
    <3> QED
      BY <1>1, <3>1, <3>2 DEF HostsGrow
  <2> QED
    BY <2>1, <2>2 DEF HostInv
<1>5. UniqueInv'
  <2> SUFFICES ASSUME NEW i \in item', NEW j \in item', i.kind = j.kind, i.place = j.place,
                      i.session = j.session
               PROVE  i = j
    BY DEF UniqueInv
  <2>1. CASE i \in item /\ j \in item
    BY <1>1, <2>1 DEF UniqueInv
  <2>2. CASE i \in created /\ j \in created
    BY <1>1, <2>2 DEF SetsUp, S!NewItems
  <2>3. CASE i \in created /\ j \in item
    <3>1. j.session \in 1 .. session - 1 /\ i.session = session /\ session \in Nat
      BY <1>1, <1>2, <2>3, KindIsNew DEF SessionTypes
    <3> QED
      BY <3>1
  <2>4. CASE i \in item /\ j \in created
    <3>1. i.session \in 1 .. session - 1 /\ j.session = session /\ session \in Nat
      BY <1>1, <1>2, <2>4, KindIsNew DEF SessionTypes
    <3> QED
      BY <3>1
  <2> QED
    BY <1>1, <2>1, <2>2, <2>3, <2>4
<1>6. \A i \in item' : i.session \in 1 .. session
  BY <1>1, <1>2 DEF InTimeInv, SessionTypes
<1> QED
  BY <1>1, <1>3, <1>4, <1>5, <1>6

LEMMA AdvanceStep ==
  ASSUME SessionInv, NEW created, SetsUp(created), S!Advance, run.step <= Len(S!Steps(run.f)),
         S!Step("create") => created = S!NewItems
  PROVE  SessionInv'
<1>1. /\ SessionTypes /\ RunInv /\ OwnerInv /\ InTimeInv /\ ErrorInv /\ FailedInv
      /\ run.f \in Fixtures /\ run.pc = "setup" /\ item' = item \cup created /\ HostsGrow
      /\ run \in SessionRuns
  BY DEF SetsUp, SessionInv, RunInv, SessionTypes
<1>2. /\ UNCHANGED <<session, status, registered, failed, faulty, sessionFaults>>
      /\ run' = [run EXCEPT !.step = @ + 1]
  BY DEF S!Advance, S!NoFailure
<1>3. /\ run' \in SessionRuns /\ run'.pc = "setup" /\ run'.f = run.f /\ run'.step = run.step + 1
      /\ run.step \in Nat
  <2>1. run.step \in Nat /\ run.step + 1 \in 1 .. 6
    <3>1. Len(S!Steps(run.f)) \in 2 .. 5
      BY <1>1, KindsAreOwn
    <3>2. run.step \in 1 .. 6 /\ run.step <= Len(S!Steps(run.f))
      BY <1>1 DEF SessionRuns
    <3>3. \A m \in 1 .. 6, n \in 2 .. 5 : m <= n => m \in Nat /\ m + 1 \in 1 .. 6
      OBVIOUS
    <3> QED
      BY <3>1, <3>2, <3>3
  <2> QED
    BY <1>1, <1>2, <2>1 DEF SessionRuns
<1>4. /\ item' \in SUBSET S!Item /\ HostInv' /\ UniqueInv'
      /\ \A i \in item' : i.session \in 1 .. session
  BY ItemsAfterSetUp
<1>5. \A i \in created : /\ i.session = session /\ i.state = "starting" /\ i.kind \in S!KindsOf(run.f)
                         /\ S!Steps(run.f)[run.step] = S!Create(i.kind)
  BY CreatedItems
<1>6. SessionTypes'
  BY <1>1, <1>2, <1>3, <1>4 DEF SessionTypes, HostsGrow
<1>7. RunInv'
  <2>1. run.step + 1 <= Len(S!Steps(run.f)) + 1
    BY <1>1, <1>3, KindsAreOwn
  <2> QED
    BY <1>1, <1>2, <1>3, <2>1 DEF RunInv, IsRegistered
<1>8. OwnerInv'
  BY <1>1, <1>2, <1>3, <1>5 DEF OwnerInv, Accounted, InHand, IsRegistered
<1>9. InTimeInv'
  <2> SUFFICES ASSUME NEW i \in item', NEW f \in Fixtures, i.session = session,
                      i.kind \in S!KindsOf(f), status[f] = "unset"
               PROVE  /\ run.f = f
                      /\ \E k \in 1 .. run.step : S!Steps(f)[k] = S!Create(i.kind)
    BY <1>2, <1>3, <1>4 DEF InTimeInv
  <2>1. CASE i \in item
    <3>1. /\ run.f = f /\ \E k \in 1 .. run.step - 1 : S!Steps(f)[k] = S!Create(i.kind)
      BY <1>1, <2>1 DEF InTimeInv
    <3> QED
      BY <1>3, <3>1
  <2>2. CASE i \in created
    <3>1. f = run.f
      <4>1. i.kind \in S!KindsOf(run.f) /\ i.kind \in S!KindsOf(f)
        BY <1>5, <2>2
      <4>2. \A g \in Fixtures, kind \in S!KindsOf(f) : kind \in S!KindsOf(g) => f = g
        BY KindsAreOwn
      <4> QED
        BY <1>1, <4>1, <4>2
    <3>2. run.step \in 1 .. run.step
      BY <1>1 DEF SessionRuns
    <3> QED
      BY <1>5, <2>2, <3>1, <3>2
  <2> QED
    BY <1>1, <2>1, <2>2
<1>10. ErrorInv'
  <2>1. \A f : Excused(f) => Excused(f)'
    BY <1>1, <1>2, ExcusedStays
  <2> QED
    BY <1>1, <1>2, <1>5, <2>1 DEF ErrorInv
<1>11. FailedInv'
  <2>1. \A f : Excused(f) => Excused(f)'
    BY <1>1, <1>2, ExcusedStays
  <2> QED
    BY <1>1, <1>2, <2>1 DEF FailedInv
<1> QED
  BY <1>4, <1>6, <1>7, <1>8, <1>9, <1>10, <1>11 DEF SessionInv

(* The fixture f raises, or its finalizer: what it has left is accounted.  *)
FailsNow(f) ==
    /\ failed' = failed \cup {<<f, session>>}
    /\ \/ /\ faulty' = faulty \cup {<<f, session>>}
       \/ /\ faulty' = faulty /\ Excused(f)
    /\ sessionFaults' \in 0 .. SessionFaults /\ session' = session

LEMMA RaisedFails ==
  ASSUME SessionTypes, NEW byFault \in BOOLEAN, S!Raised(byFault), session' = session,
         ~byFault => Excused(run.f)
  PROVE  FailsNow(run.f)
<1>1. CASE byFault
  BY <1>1, SessionConstants DEF S!Raised, S!Fails, SessionTypes, FailsNow
<1>2. CASE ~byFault
  BY <1>2 DEF S!Raised, SessionTypes, FailsNow
<1> QED
  BY <1>1, <1>2

LEMMA FailedAfter ==
  ASSUME SessionTypes, FailedInv, NEW f \in Fixtures, FailsNow(f), HostsGrow
  PROVE  /\ FailedInv' /\ failed \subseteq failed' /\ faulty \subseteq faulty'
         /\ failed' \in SUBSET (Fixtures \X (1 .. session)) /\ faulty' \in SUBSET failed'
         /\ sessionFaults' \in 0 .. SessionFaults
<1>1. /\ failed \subseteq failed' /\ faulty \subseteq faulty' /\ session' = session
      /\ session \in Nat \ {0} /\ <<f, session>> \in failed'
  BY SessionConstants DEF FailsNow, SessionTypes
<1>2. /\ failed' \in SUBSET (Fixtures \X (1 .. session)) /\ faulty' \in SUBSET failed'
      /\ sessionFaults' \in 0 .. SessionFaults
  <2>1. session \in 1 .. session
    BY <1>1
  <2> QED
    BY <2>1 DEF FailsNow, SessionTypes
<1>3. \A g : Excused(g) => Excused(g)'
  BY <1>1, ExcusedStays
<1>4. ASSUME NEW g \in Fixtures, NEW s \in 1 .. session, S!FinalizerWaits(g), <<g, s>> \in failed'
      PROVE  \E t \in 1 .. s : <<g, t>> \in faulty'
  <2>1. CASE <<g, s>> \in failed
    BY <1>1, <1>4, <2>1 DEF FailedInv
  <2>2. CASE g = f /\ s = session
    <3>1. CASE <<f, session>> \in faulty'
      BY <1>1, <2>2, <3>1
    <3>2. CASE Excused(f)
      <4>1. PICK t \in 1 .. session - 1 : <<f, t>> \in faulty
        BY <1>4, <2>2, <3>2 DEF Excused
      <4> QED
        BY <1>1, <2>2, <4>1
    <3> QED
      BY <3>1, <3>2 DEF FailsNow
  <2> QED
    BY <1>4, <2>1, <2>2 DEF FailsNow
<1>5. ASSUME NEW g \in Fixtures, <<g, session>> \in failed' \ faulty'
      PROVE  Excused(g)'
  BY <1>1, <1>3, <1>5 DEF FailsNow, FailedInv
<1>6. FailedInv'
  BY <1>1, <1>4, <1>5 DEF FailedInv
<1> QED
  BY <1>1, <1>2, <1>6

LEMMA SetupRaisesStep ==
  ASSUME SessionInv, NEW created, SetsUp(created), NEW byFault \in BOOLEAN, S!SetupRaises(byFault),
         ~byFault => Excused(run.f)
  PROVE  SessionInv'
<1>1. /\ SessionTypes /\ RunInv /\ OwnerInv /\ InTimeInv /\ ErrorInv /\ FailedInv
      /\ run.f \in Fixtures /\ run.pc = "setup" /\ item' = item \cup created /\ HostsGrow
      /\ status[run.f] = "unset"
  BY DEF SetsUp, SessionInv, RunInv, SessionTypes
<1>2. /\ UNCHANGED <<session, registered>> /\ run' = S!Idle
      /\ status' = [status EXCEPT ![run.f] = "raised"]
  BY DEF S!SetupRaises
<1>3. FailsNow(run.f)
  BY <1>1, <1>2, RaisedFails DEF S!SetupRaises
<1>4. /\ FailedInv' /\ failed \subseteq failed' /\ faulty \subseteq faulty'
      /\ failed' \in SUBSET (Fixtures \X (1 .. session)) /\ faulty' \in SUBSET failed'
      /\ sessionFaults' \in 0 .. SessionFaults
  BY <1>1, <1>3, FailedAfter
<1>5. /\ run' \in SessionRuns /\ run'.pc = "tests"
  BY <1>2 DEF S!Idle, SessionRuns
<1>6. /\ item' \in SUBSET S!Item /\ HostInv' /\ UniqueInv'
      /\ \A i \in item' : i.session \in 1 .. session
  BY ItemsAfterSetUp
<1>7. \A i \in created : /\ i.session = session /\ i.state = "starting" /\ i.kind \in S!KindsOf(run.f)
  BY CreatedItems
<1>8. /\ status' \in [Fixtures -> {"unused", "unset", "done", "raised"}]
      /\ \A f \in Fixtures : status'[f] = IF f = run.f THEN "raised" ELSE status[f]
  BY <1>1, <1>2 DEF SessionTypes
<1>9. SessionTypes'
  BY <1>1, <1>2, <1>4, <1>5, <1>6, <1>8 DEF SessionTypes, HostsGrow
<1>10. RunInv'
  BY <1>1, <1>2, <1>5, <1>8 DEF RunInv, IsRegistered
<1>11. OwnerInv'
  <2>1. <<run.f, session>> \in failed'
    BY <1>3 DEF FailsNow
  <2>2. ASSUME NEW i \in item', NEW f \in Fixtures, Accounted(i, f) \/ (f = run.f /\ i.session = session)
        PROVE  Accounted(i, f)'
    BY <1>2, <1>4, <1>5, <2>1, <2>2 DEF Accounted, InHand, IsRegistered
  <2> QED
    BY <1>1, <1>7, <2>2 DEF OwnerInv
<1>12. InTimeInv'
  <2>1. ASSUME NEW i \in item', NEW f \in Fixtures, i.session = session,
               i.kind \in S!KindsOf(f), status'[f] = "unset"
        PROVE  FALSE
    <3>1. f # run.f /\ status[f] = "unset"
      BY <1>8, <2>1
    <3>2. CASE i \in item
      BY <1>1, <2>1, <3>1, <3>2 DEF InTimeInv
    <3>3. CASE i \in created
      <4>1. i.kind \in S!KindsOf(run.f)
        BY <1>7, <3>3
      <4>2. \A g \in Fixtures, kind \in S!KindsOf(f) : kind \in S!KindsOf(g) => f = g
        BY KindsAreOwn
      <4> QED
        BY <1>1, <2>1, <3>1, <4>1, <4>2
    <3> QED
      BY <1>1, <3>2, <3>3
  <2> QED
    BY <1>2, <1>6, <2>1 DEF InTimeInv
<1>13. ErrorInv'
  <2>1. \A f : Excused(f) => Excused(f)'
    BY <1>1, <1>2, <1>4, ExcusedStays
  <2> QED
    BY <1>1, <1>2, <1>7, <2>1 DEF ErrorInv
<1> QED
  BY <1>4, <1>6, <1>9, <1>10, <1>11, <1>12, <1>13 DEF SessionInv

(* An item that an earlier session has left excuses a fixture that creates *)
(* the same kind and whose finalizer waits.                                *)
LEMMA LeftoversExcuse ==
  ASSUME SessionInv, NEW f \in Fixtures, NEW i \in item, i.kind \in S!KindsOf(f),
         i.session \in 1 .. session - 1
  PROVE  Excused(f)
<1>1. SessionTypes /\ OwnerInv /\ FailedInv /\ session \in Nat \ {0}
  BY SessionConstants DEF SessionInv, SessionTypes
<1>2. CASE ~S!FinalizerWaits(f)
  BY <1>1, <1>2 DEF Excused
<1>3. CASE S!FinalizerWaits(f)
  <2>1. PICK g \in Fixtures : i.kind \in S!KindsOf(g) /\ Accounted(i, g)
    BY <1>1 DEF OwnerInv
  <2>2. f = g
    <3>1. \A h \in Fixtures, kind \in S!KindsOf(f) : kind \in S!KindsOf(h) => f = h
      BY KindsAreOwn
    <3> QED
      BY <2>1, <3>1
  <2>3. <<f, i.session>> \in failed /\ i.session \in 1 .. session
    BY <1>1, <1>3, <2>1, <2>2 DEF Accounted, InHand
  <2>4. PICK t \in 1 .. i.session : <<f, t>> \in faulty
    BY <1>1, <1>3, <2>3 DEF FailedInv
  <2>5. t \in 1 .. session - 1
    BY <1>1, <2>4
  <2> QED
    BY <2>4, <2>5 DEF Excused
<1> QED
  BY <1>2, <1>3

LEMMA HostsStay ==
  ASSUME SessionTypes, UNCHANGED host
  PROVE  HostsGrow
BY DEF SessionTypes, HostsGrow

LEMMA CreateItemsStep ==
  ASSUME SessionInv, S!CreateItems
  PROVE  SessionInv'
<1>1. /\ S!Step("create") /\ UNCHANGED host /\ SessionTypes /\ run.pc = "setup" /\ run.f \in Fixtures
      /\ run \in SessionRuns
  BY DEF S!CreateItems, S!Step, SessionInv, SessionTypes, RunInv
<1>2. HostsGrow
  BY <1>1, HostsStay
<1>3. run.step \in 1 .. Len(S!Steps(run.f)) /\ S!Steps(run.f)[run.step].do = "create"
  BY <1>1, KindsAreOwn DEF S!Step, SessionRuns
<1>4. CASE item' = item \cup S!NewItems /\ S!Advance
  <2>1. SetsUp(S!NewItems)
    BY <1>1, <1>2, <1>4 DEF SetsUp, S!Advance
  <2> QED
    BY <1>3, <1>4, <2>1, AdvanceStep
<1>5. CASE S!NameIsUsed /\ S!SetupRaises(FALSE) /\ UNCHANGED item
  <2>1. SetsUp({})
    BY <1>1, <1>2, <1>5 DEF SetsUp, S!SetupRaises
  <2>2. PICK i \in item : i.kind = S!Kind
    BY <1>5 DEF S!NameIsUsed
  <2>3. S!Kind \in S!KindsOf(run.f) /\ S!Steps(run.f)[run.step] = S!Create(S!Kind)
    BY <1>1, <1>3, StepKinds DEF S!Kind
  <2>4. i.session \in 1 .. session /\ i.session # session
    <3>1. InTimeInv /\ status[run.f] = "unset" /\ run.step \in Nat
      BY <1>1 DEF SessionInv, RunInv, SessionRuns
    <3>2. ASSUME i.session = session PROVE FALSE
      <4>1. PICK k \in 1 .. run.step - 1 : S!Steps(run.f)[k] = S!Create(i.kind)
        BY <1>1, <2>2, <2>3, <3>1, <3>2 DEF InTimeInv
      <4>2. /\ S!Steps(run.f)[run.step] = S!Steps(run.f)[k] /\ k # run.step
            /\ k \in 1 .. Len(S!Steps(run.f))
        BY <1>1, <1>3, <2>2, <2>3, <3>1, <4>1, KindsAreOwn
      <4> QED
        BY <1>1, <1>3, <4>2, StepKinds
    <3> QED
      BY <3>1, <3>2 DEF InTimeInv
  <2>5. i.session \in 1 .. session - 1
    BY <1>1, <2>4 DEF SessionTypes
  <2>6. Excused(run.f)
    BY <1>1, <2>2, <2>3, <2>5, LeftoversExcuse
  <2> QED
    BY <1>5, <2>1, <2>6, SetupRaisesStep
<1>6. CASE /\ S!SetupRaises(TRUE)
           /\ \E created \in SUBSET S!NewItems : created # S!NewItems /\ item' = item \cup created
  <2>1. PICK created \in SUBSET S!NewItems : item' = item \cup created
    BY <1>6
  <2>2. SetsUp(created)
    BY <1>1, <1>2, <1>6, <2>1 DEF SetsUp, S!SetupRaises
  <2> QED
    BY <1>6, <2>2, SetupRaisesStep
<1> QED
  BY <1>4, <1>5, <1>6 DEF S!CreateItems

(* A step of a set-up that creates nothing.                                *)
LEMMA QuietSetUp ==
  ASSUME SessionInv, NEW do \in {"await", "check", "addHosts", "awaitHosts"}, S!Step(do),
         UNCHANGED item, HostsGrow, S!Advance \/ (\E byFault \in BOOLEAN : S!SetupRaises(byFault))
  PROVE  SetsUp({}) /\ ~S!Step("create") /\ run.step <= Len(S!Steps(run.f))
BY DEF S!Step, SetsUp, S!Advance, S!SetupRaises

LEMMA AwaitItemsStep ==
  ASSUME SessionInv, S!AwaitItems
  PROVE  SessionInv'
<1>1. /\ S!Step("await") /\ UNCHANGED <<host, item>> /\ SessionTypes /\ ErrorInv
      /\ run.f \in Fixtures /\ run \in SessionRuns
  BY DEF S!AwaitItems, S!Step, SessionInv, SessionTypes, RunInv
<1>2. HostsGrow
  BY <1>1, HostsStay
<1>3. CASE S!Advance
  <2>1. SetsUp({}) /\ ~S!Step("create") /\ run.step <= Len(S!Steps(run.f))
    BY <1>1, <1>2, <1>3, QuietSetUp
  <2> QED
    BY <1>3, <2>1, AdvanceStep
<1>4. ASSUME NEW byFault \in BOOLEAN, S!SetupRaises(byFault), ~byFault => Excused(run.f)
      PROVE  SessionInv'
  <2>1. SetsUp({})
    BY <1>1, <1>2, <1>4, QuietSetUp
  <2> QED
    BY <1>4, <2>1, SetupRaisesStep
<1>5. CASE (\E i \in S!Mine : i.state = "error") /\ S!SetupRaises(FALSE)
  <2>1. PICK i \in item : i.kind = S!Kind /\ i.session = session /\ i.state = "error"
    BY <1>5 DEF S!Mine
  <2>2. run.step \in 1 .. Len(S!Steps(run.f)) /\ S!Steps(run.f)[run.step].do = "await"
    BY <1>1 DEF S!Step, SessionRuns
  <2>3. S!Kind \in S!KindsOf(run.f)
    BY <1>1, <2>2, StepKinds DEF S!Kind
  <2>4. Excused(run.f)
    BY <1>1, <2>1, <2>3 DEF ErrorInv
  <2> QED
    BY <1>4, <1>5, <2>4
<1>6. CASE S!SetupRaises(TRUE)
  BY <1>4, <1>6
<1> QED
  BY <1>3, <1>5, <1>6 DEF S!AwaitItems

LEMMA CheckOrHostsStep ==
  ASSUME SessionInv, S!CheckSetup \/ S!AddHosts \/ S!AwaitHosts
  PROVE  SessionInv'
<1>1. /\ UNCHANGED item /\ SessionTypes
      /\ host \in [Hosts -> {"none", "own", "starting", "active", "error"}]
  BY DEF S!CheckSetup, S!AddHosts, S!AwaitHosts, SessionInv, SessionTypes
<1>2. PICK do \in {"check", "addHosts", "awaitHosts"} : S!Step(do)
  BY DEF S!CheckSetup, S!AddHosts, S!AwaitHosts
<1>3. S!Advance \/ S!SetupRaises(TRUE)
  BY DEF S!CheckSetup, S!AddHosts, S!AwaitHosts
<1>4. HostsGrow
  <2>1. CASE UNCHANGED host
    BY <1>1, <2>1, HostsStay
  <2>2. CASE \E new \in SUBSET {h \in Hosts : host[h] = "none"} :
                host' = [h \in Hosts |-> IF h \in new THEN "starting" ELSE host[h]]
    BY <1>1, <2>2 DEF HostsGrow
  <2>3. CASE \E h \in Hosts : host[h] = "starting" /\ host' = [host EXCEPT ![h] = "error"]
    BY <1>1, <2>3 DEF HostsGrow
  <2> QED
    BY <2>1, <2>2, <2>3 DEF S!CheckSetup, S!AddHosts, S!AwaitHosts
<1>5. /\ SetsUp({}) /\ ~S!Step("create") /\ run.step <= Len(S!Steps(run.f))
  BY <1>1, <1>2, <1>3, <1>4, QuietSetUp
<1> QED
  BY <1>3, <1>5, AdvanceStep, SetupRaisesStep

-----------------------------------------------------------------------------
(* The finalizers that are registered                                      *)
LEMMA RegisterOne ==
  ASSUME registered \in Seq(Fixtures), NEW f \in Fixtures, registered' = <<f>> \o registered
  PROVE  /\ registered' \in Seq(Fixtures)
         /\ \A g : IsRegistered(g)' <=> g = f \/ IsRegistered(g)
<1>1. /\ registered' \in Seq(Fixtures) /\ Len(registered') = Len(registered) + 1
      /\ registered'[1] = f /\ Len(registered) \in Nat
      /\ \A k \in 1 .. Len(registered) : registered'[k + 1] = registered[k]
  OBVIOUS
<1>2. ASSUME NEW g, IsRegistered(g) PROVE IsRegistered(g)'
  <2>1. PICK k \in 1 .. Len(registered) : registered[k] = g
    BY <1>2 DEF IsRegistered
  <2>2. k + 1 \in 1 .. Len(registered') /\ registered'[k + 1] = g
    BY <1>1, <2>1
  <2> QED
    BY <2>2 DEF IsRegistered
<1>3. ASSUME NEW g, IsRegistered(g)' PROVE g = f \/ IsRegistered(g)
  <2>1. PICK k \in 1 .. Len(registered) + 1 : registered'[k] = g
    BY <1>1, <1>3 DEF IsRegistered
  <2>2. CASE k = 1
    BY <1>1, <2>1, <2>2
  <2>3. CASE k # 1
    <3>1. k - 1 \in 1 .. Len(registered) /\ registered'[(k - 1) + 1] = registered[k - 1] /\ (k - 1) + 1 = k
      BY <1>1, <2>1, <2>3
    <3> QED
      BY <2>1, <3>1 DEF IsRegistered
  <2> QED
    BY <2>2, <2>3
<1>4. IsRegistered(f)'
  <2>1. 1 \in 1 .. Len(registered')
    BY <1>1
  <2> QED
    BY <1>1, <2>1 DEF IsRegistered
<1> QED
  BY <1>1, <1>2, <1>3, <1>4

LEMMA PopOne ==
  ASSUME registered \in Seq(Fixtures), registered # <<>>, registered' = Tail(registered)
  PROVE  /\ registered' \in Seq(Fixtures) /\ IsRegistered(Head(registered))
         /\ \A g : IsRegistered(g)' => IsRegistered(g)
         /\ \A g : IsRegistered(g) => g = Head(registered) \/ IsRegistered(g)'
<1>1. /\ registered' \in Seq(Fixtures) /\ Len(registered') = Len(registered) - 1
      /\ registered[1] = Head(registered) /\ Len(registered) \in Nat \ {0}
      /\ \A k \in 1 .. Len(registered) - 1 : registered'[k] = registered[k + 1]
  OBVIOUS
<1>2. ASSUME NEW g, IsRegistered(g)' PROVE IsRegistered(g)
  <2>1. PICK k \in 1 .. Len(registered) - 1 : registered'[k] = g
    BY <1>1, <1>2 DEF IsRegistered
  <2>2. k + 1 \in 1 .. Len(registered) /\ registered[k + 1] = g
    BY <1>1, <2>1
  <2> QED
    BY <2>2 DEF IsRegistered
<1>3. ASSUME NEW g, IsRegistered(g), g # Head(registered) PROVE IsRegistered(g)'
  <2>1. PICK k \in 1 .. Len(registered) : registered[k] = g
    BY <1>3 DEF IsRegistered
  <2>2. /\ k - 1 \in 1 .. Len(registered) - 1 /\ registered'[k - 1] = registered[(k - 1) + 1]
        /\ (k - 1) + 1 = k
    BY <1>1, <1>3, <2>1
  <2> QED
    BY <1>1, <2>1, <2>2 DEF IsRegistered
<1>4. IsRegistered(Head(registered))
  <2>1. 1 \in 1 .. Len(registered)
    BY <1>1
  <2> QED
    BY <1>1, <2>1 DEF IsRegistered
<1> QED
  BY <1>1, <1>2, <1>3, <1>4

LEMMA FinalizeNextRuns ==
  ASSUME NEW rest \in Seq(Fixtures), S!FinalizeNext(rest)
  PROVE  /\ registered' = rest /\ run' \in SessionRuns
         /\ \/ rest = <<>> /\ run'.pc = "over"
            \/ rest # <<>> /\ run'.pc = "finalize" /\ run'.f = Head(rest) /\ run'.f \in Fixtures
<1>1. rest # <<>> => Head(rest) \in Fixtures
  OBVIOUS
<1>2. 1 \in 1 .. 6
  OBVIOUS
<1> QED
  BY <1>1, <1>2 DEF S!FinalizeNext, SessionRuns

(* What is removed keeps its kind, its place and its session.              *)
LEMMA RemovingItems ==
  ASSUME item \in SUBSET S!Item, NEW gone \in SUBSET item, item' = S!Removing(gone)
  PROVE  /\ item' \in SUBSET S!Item
         /\ \A i \in item' : \E j \in item : /\ i.kind = j.kind /\ i.place = j.place /\ i.session = j.session
                                             /\ IF j \in gone THEN i = [j EXCEPT !.state = "removing"]
                                                ELSE i = j
                                             /\ i = j \/ i.state = "removing"
<1>1. ASSUME NEW j \in item
      PROVE  LET i == [j EXCEPT !.state = "removing"]
             IN  i \in S!Item /\ i.kind = j.kind /\ i.place = j.place /\ i.session = j.session
                 /\ i.state = "removing"
  BY DEF S!Item
<1> QED
  BY <1>1 DEF S!Removing

LEMMA EndStep ==
  ASSUME SessionInv, run.pc \notin {"setup", "over"}, UNCHANGED <<host, session, status>>,
         NEW gone \in SUBSET item, item' = S!Removing(gone),
         run' \in SessionRuns, run'.pc # "setup", registered' \in Seq(Fixtures), RunInv',
         S!NoFailure \/ (\E f \in Fixtures : FailsNow(f)), OwnerInv'
  PROVE  SessionInv'
<1>1. /\ SessionTypes /\ HostInv /\ UniqueInv /\ InTimeInv /\ ErrorInv /\ FailedInv
      /\ item \in SUBSET S!Item
  BY DEF SessionInv, SessionTypes
<1>2. HostsGrow
  BY <1>1, HostsStay
<1>3. /\ FailedInv' /\ failed \subseteq failed' /\ faulty \subseteq faulty'
      /\ failed' \in SUBSET (Fixtures \X (1 .. session)) /\ faulty' \in SUBSET failed'
      /\ sessionFaults' \in 0 .. SessionFaults
  <2>1. CASE S!NoFailure
    <3>1. \A f : Excused(f) => Excused(f)'
      BY <1>2, <2>1, ExcusedStays DEF S!NoFailure
    <3> QED
      BY <1>1, <2>1, <3>1 DEF S!NoFailure, FailedInv, SessionTypes
  <2>2. CASE \E f \in Fixtures : FailsNow(f)
    BY <1>1, <1>2, <2>2, FailedAfter
  <2> QED
    BY <2>1, <2>2
<1>4. /\ item' \in SUBSET S!Item
      /\ \A i \in item' : \E j \in item :
            /\ i.kind = j.kind /\ i.place = j.place /\ i.session = j.session
            /\ IF j \in gone THEN i = [j EXCEPT !.state = "removing"] ELSE i = j
            /\ i = j \/ i.state = "removing"
  BY <1>1, RemovingItems
<1>5. SessionTypes'
  BY <1>1, <1>3, <1>4 DEF SessionTypes
<1>6. HostInv'
  BY <1>1, <1>4 DEF HostInv
<1>7. UniqueInv'
  BY <1>1, <1>4 DEF UniqueInv
<1>8. InTimeInv'
  <2>1. \A i \in item' : i.session \in 1 .. session
    BY <1>1, <1>4 DEF InTimeInv
  <2>2. \A i \in item', f \in Fixtures :
           ~(i.session = session /\ i.kind \in S!KindsOf(f) /\ status[f] = "unset")
    BY <1>1, <1>4 DEF InTimeInv
  <2> QED
    BY <2>1, <2>2 DEF InTimeInv
<1>9. ErrorInv'
  <2>1. \A f : Excused(f) => Excused(f)'
    BY <1>2, <1>3, ExcusedStays
  <2> QED
    BY <1>1, <1>4, <2>1 DEF ErrorInv
<1> QED
  BY <1>3, <1>5, <1>6, <1>7, <1>8, <1>9 DEF SessionInv

LEMMA NothingRemoved == item = S!Removing({})
BY DEF S!Removing

LEMMA EndTestsStep ==
  ASSUME SessionInv, S!EndTests
  PROVE  SessionInv'
<1>1. /\ run.pc = "tests" /\ UNCHANGED <<host, item, session, status>> /\ S!NoFailure
      /\ SessionTypes /\ RunInv /\ OwnerInv /\ registered \in Seq(Fixtures)
  BY DEF S!EndTests, SessionInv, SessionTypes
<1>2. /\ registered' = registered /\ run' \in SessionRuns
      /\ \/ registered = <<>> /\ run'.pc = "over"
         \/ registered # <<>> /\ run'.pc = "finalize" /\ run'.f = Head(registered) /\ run'.f \in Fixtures
  BY <1>1, FinalizeNextRuns DEF S!EndTests
<1>3. RunInv'
  BY <1>1, <1>2 DEF RunInv, IsRegistered
<1>4. OwnerInv'
  BY <1>1, <1>2 DEF OwnerInv, Accounted, InHand, IsRegistered, S!NoFailure
<1>5. item' = S!Removing({})
  BY <1>1, NothingRemoved
<1> QED
  BY <1>1, <1>2, <1>3, <1>4, <1>5, EndStep

(* The finalizer of run.f is done, for better or for worse.                *)
LEMMA PopStep ==
  ASSUME SessionInv, run.pc \in {"finalize", "await"}, S!FinalizeNext(Tail(registered)),
         NEW gone \in SUBSET item, item' = S!Removing(gone), UNCHANGED <<host, session, status>>,
         S!NoFailure \/ FailsNow(run.f),
         \A i \in item' : i.session = session /\ i.kind \in S!KindsOf(run.f) =>
            <<run.f, session>> \in failed' \/ (i.state = "removing" /\ ~S!FinalizerWaits(run.f))
  PROVE  SessionInv'
<1>1. /\ SessionTypes /\ RunInv /\ OwnerInv /\ registered \in Seq(Fixtures) /\ registered # <<>>
      /\ Head(registered) = run.f /\ run.f \in Fixtures /\ item \in SUBSET S!Item
  BY DEF SessionInv, SessionTypes, RunInv
<1>2. Tail(registered) \in Seq(Fixtures)
  BY <1>1
<1>3. /\ registered' = Tail(registered) /\ run' \in SessionRuns
      /\ \/ registered' = <<>> /\ run'.pc = "over"
         \/ registered' # <<>> /\ run'.pc = "finalize" /\ run'.f = Head(registered') /\ run'.f \in Fixtures
  BY <1>2, FinalizeNextRuns
<1>4. /\ registered' \in Seq(Fixtures) /\ \A g : IsRegistered(g)' => IsRegistered(g)
      /\ \A g : IsRegistered(g) => g = run.f \/ IsRegistered(g)'
  BY <1>1, <1>3, PopOne
<1>5. RunInv'
  BY <1>1, <1>3, <1>4 DEF RunInv
<1>6. failed \subseteq failed'
  BY DEF S!NoFailure, FailsNow
<1>7. \A i \in item' : \E j \in item : /\ i.kind = j.kind /\ i.session = j.session
                                       /\ i = j \/ i.state = "removing"
  BY <1>1, RemovingItems
<1>8. OwnerInv'
  <2> SUFFICES ASSUME NEW i \in item'
               PROVE  \E f \in Fixtures : i.kind \in S!KindsOf(f) /\ Accounted(i, f)'
    BY DEF OwnerInv
  <2>1. PICK j \in item : /\ i.kind = j.kind /\ i.session = j.session
                          /\ i = j \/ i.state = "removing"
    BY <1>7
  <2>2. PICK f \in Fixtures : j.kind \in S!KindsOf(f) /\ Accounted(j, f)
    BY <1>1 DEF OwnerInv
  <2>3. Accounted(i, f)'
    BY <1>4, <1>6, <2>1, <2>2 DEF Accounted, InHand
  <2> QED
    BY <2>1, <2>2, <2>3
<1> QED
  BY <1>1, <1>3, <1>4, <1>5, <1>8, EndStep

LEMMA DeleteItemsStep ==
  ASSUME SessionInv, S!DeleteItems
  PROVE  SessionInv'
<1>1. /\ run.pc = "finalize" /\ UNCHANGED <<host, session, status>> /\ SessionTypes /\ RunInv
      /\ run.f \in Fixtures /\ run \in SessionRuns /\ item \in SUBSET S!Item /\ registered \in Seq(Fixtures)
      /\ OwnerInv
  BY DEF S!DeleteItems, SessionInv, SessionTypes, RunInv
<1>2. S!ToRemove(run.f) \in SUBSET item
  BY DEF S!ToRemove
<1>3. CASE /\ item' = S!Removing(S!ToRemove(run.f)) /\ S!NoFailure /\ S!FinalizerWaits(run.f)
           /\ run' = [run EXCEPT !.pc = "await"] /\ UNCHANGED registered
  <2>1. run' \in SessionRuns /\ run'.pc = "await" /\ run'.f = run.f
    BY <1>1, <1>3 DEF SessionRuns
  <2>2. RunInv'
    BY <1>1, <1>3, <2>1 DEF RunInv, IsRegistered
  <2>3. \A i \in item' : \E j \in item : /\ i.kind = j.kind /\ i.session = j.session
                                         /\ i = j \/ i.state = "removing"
    BY <1>1, <1>2, <1>3, RemovingItems
  <2>4. OwnerInv'
    <3> SUFFICES ASSUME NEW i \in item'
                 PROVE  \E f \in Fixtures : i.kind \in S!KindsOf(f) /\ Accounted(i, f)'
      BY DEF OwnerInv
    <3>1. PICK j \in item : /\ i.kind = j.kind /\ i.session = j.session
                            /\ i = j \/ i.state = "removing"
      BY <2>3
    <3>2. PICK f \in Fixtures : j.kind \in S!KindsOf(f) /\ Accounted(j, f)
      BY <1>1 DEF OwnerInv
    <3>3. Accounted(i, f)'
      BY <1>1, <1>3, <2>1, <3>1, <3>2 DEF Accounted, InHand, IsRegistered, S!NoFailure
    <3> QED
      BY <3>1, <3>2, <3>3
  <2> QED
    BY <1>1, <1>2, <1>3, <2>1, <2>2, <2>4, EndStep
<1>4. CASE /\ item' = S!Removing(S!ToRemove(run.f)) /\ S!NoFailure /\ ~S!FinalizerWaits(run.f)
           /\ S!FinalizeNext(Tail(registered))
  <2>1. ASSUME NEW i \in item', i.session = session, i.kind \in S!KindsOf(run.f)
        PROVE  i.state = "removing"
    <3>1. PICK j \in item : /\ i.kind = j.kind /\ i.session = j.session
                            /\ IF j \in S!ToRemove(run.f) THEN i = [j EXCEPT !.state = "removing"]
                               ELSE i = j
                            /\ i = j \/ i.state = "removing"
      BY <1>1, <1>2, <1>4, RemovingItems
    <3>2. j \in S!ToRemove(run.f)
      BY <2>1, <3>1 DEF S!ToRemove
    <3> QED
      BY <1>1, <3>1, <3>2 DEF S!Item
  <2> QED
    BY <1>1, <1>2, <1>4, <2>1, PopStep
<1>5. CASE /\ S!Raised(TRUE) /\ S!FinalizeNext(Tail(registered))
           /\ \E deleted \in SUBSET S!ToRemove(run.f) : item' = S!Removing(deleted)
  <2>1. PICK deleted \in SUBSET S!ToRemove(run.f) : item' = S!Removing(deleted)
    BY <1>5
  <2>2. FailsNow(run.f)
    BY <1>1, <1>5, RaisedFails
  <2>3. deleted \in SUBSET item /\ <<run.f, session>> \in failed'
    BY <1>2, <2>2 DEF FailsNow
  <2> QED
    BY <1>1, <1>5, <2>1, <2>2, <2>3, PopStep
<1> QED
  BY <1>3, <1>4, <1>5 DEF S!DeleteItems

LEMMA AwaitDeletedStep ==
  ASSUME SessionInv, S!AwaitDeleted
  PROVE  SessionInv'
<1>1. /\ run.pc = "await" /\ UNCHANGED <<host, item, session, status>> /\ SessionTypes
      /\ S!FinalizeNext(Tail(registered))
  BY DEF S!AwaitDeleted, SessionInv
<1>2. item' = S!Removing({})
  BY <1>1, NothingRemoved
<1>3. CASE S!ToRemove(run.f) = {} /\ S!NoFailure
  <2>1. \A i \in item' : ~(i.session = session /\ i.kind \in S!KindsOf(run.f))
    BY <1>1, <1>3 DEF S!ToRemove
  <2> QED
    BY <1>1, <1>2, <1>3, <2>1, PopStep
<1>4. CASE S!Raised(TRUE)
  <2>1. FailsNow(run.f)
    BY <1>1, <1>4, RaisedFails
  <2>2. <<run.f, session>> \in failed'
    BY <2>1 DEF FailsNow
  <2> QED
    BY <1>1, <1>2, <2>1, <2>2, PopStep
<1> QED
  BY <1>3, <1>4 DEF S!AwaitDeleted

LEMMA RequestFixtureStep ==
  ASSUME SessionInv, NEW f \in Fixtures, S!RequestFixture(f)
  PROVE  SessionInv'
<1>1. /\ SessionTypes /\ RunInv /\ HostInv /\ OwnerInv /\ UniqueInv /\ InTimeInv /\ ErrorInv /\ FailedInv
      /\ run.pc = "tests" /\ status[f] = "unset"
      /\ UNCHANGED <<host, item, session, status, registered, failed, faulty, sessionFaults>>
  BY DEF SessionInv, S!RequestFixture, S!NoFailure
<1>2. run' \in SessionRuns /\ run'.pc = "setup" /\ run'.f = f /\ run'.step = 1
  BY DEF S!RequestFixture, SessionRuns
<1>3. SessionTypes' /\ HostInv' /\ UniqueInv'
  BY <1>1, <1>2 DEF SessionTypes, HostInv, UniqueInv
<1>4. RunInv'
  BY <1>1, <1>2, KindsAreOwn DEF RunInv, IsRegistered
<1>5. OwnerInv'
  BY <1>1, <1>2 DEF OwnerInv, Accounted, InHand, IsRegistered
<1>6. InTimeInv'
  BY <1>1 DEF InTimeInv
<1>7. ErrorInv' /\ FailedInv'
  BY <1>1 DEF ErrorInv, FailedInv, Excused
<1> QED
  BY <1>3, <1>4, <1>5, <1>6, <1>7 DEF SessionInv

LEMMA CompleteFixtureStep ==
  ASSUME SessionInv, S!CompleteFixture
  PROVE  SessionInv'
<1>1. /\ SessionTypes /\ RunInv /\ HostInv /\ OwnerInv /\ UniqueInv /\ InTimeInv /\ ErrorInv /\ FailedInv
      /\ run.pc = "setup" /\ status[run.f] = "unset" /\ run.f \in Fixtures
      /\ UNCHANGED <<host, item, session, failed, faulty, sessionFaults>>
      /\ registered \in Seq(Fixtures)
  BY DEF SessionInv, S!CompleteFixture, S!NoFailure, SessionTypes, RunInv
<1>2. run' \in SessionRuns /\ run'.pc = "tests"
  BY DEF S!CompleteFixture, S!Idle, SessionRuns
<1>3. /\ status' \in [Fixtures -> {"unused", "unset", "done", "raised"}]
      /\ \A f \in Fixtures : status'[f] = IF f = run.f THEN "done" ELSE status[f]
  BY <1>1 DEF S!CompleteFixture, SessionTypes
<1>4. /\ registered' \in Seq(Fixtures) /\ \A f : IsRegistered(f) => IsRegistered(f)'
      /\ \A f : IsRegistered(f)' => f = run.f \/ IsRegistered(f)
      /\ S!KindsOf(run.f) # {} => \A f : f = run.f => IsRegistered(f)'
  <2>1. CASE S!KindsOf(run.f) = {} /\ registered' = registered
    BY <1>1, <2>1 DEF IsRegistered
  <2>2. CASE S!KindsOf(run.f) # {} /\ registered' = <<run.f>> \o registered
    <3>1. /\ registered' \in Seq(Fixtures)
          /\ \A g : IsRegistered(g)' <=> g = run.f \/ IsRegistered(g)
      BY <1>1, <2>2, RegisterOne
    <3> QED
      BY <3>1
  <2> QED
    BY <2>1, <2>2 DEF S!CompleteFixture
<1>5. SessionTypes' /\ HostInv' /\ UniqueInv'
  BY <1>1, <1>2, <1>3, <1>4 DEF SessionTypes, HostInv, UniqueInv
<1>6. RunInv'
  BY <1>1, <1>2, <1>3, <1>4 DEF RunInv
<1>7. OwnerInv'
  <2> SUFFICES ASSUME NEW i \in item
               PROVE  \E f \in Fixtures : i.kind \in S!KindsOf(f) /\ Accounted(i, f)'
    BY <1>1 DEF OwnerInv
  <2>1. PICK f \in Fixtures : i.kind \in S!KindsOf(f) /\ Accounted(i, f)
    BY <1>1 DEF OwnerInv
  <2>2. CASE InHand(i, f)
    <3>1. IsRegistered(f)' /\ i.session = session'
      BY <1>1, <1>4, <2>1, <2>2 DEF InHand
    <3> QED
      BY <2>1, <3>1 DEF Accounted, InHand
  <2>3. CASE ~InHand(i, f)
    BY <1>1, <2>1, <2>3 DEF Accounted
  <2> QED
    BY <2>1, <2>2, <2>3
<1>8. InTimeInv'
  BY <1>1, <1>2, <1>3 DEF InTimeInv
<1>9. ErrorInv' /\ FailedInv'
  BY <1>1 DEF ErrorInv, FailedInv, Excused
<1> QED
  BY <1>5, <1>6, <1>7, <1>8, <1>9 DEF SessionInv

LEMMA KillSessionStep ==
  ASSUME SessionInv, S!KillSession
  PROVE  SessionInv'
<1> DEFINE used == {f \in Fixtures : status[f] # "unused"}
<1>1. /\ SessionTypes /\ RunInv /\ HostInv /\ OwnerInv /\ UniqueInv /\ InTimeInv /\ ErrorInv /\ FailedInv
      /\ UNCHANGED <<host, item, session, status>> /\ registered' = <<>> /\ session \in Nat \ {0}
      /\ failed' = failed \cup (used \X {session}) /\ faulty' = faulty \cup (used \X {session})
  BY SessionConstants DEF SessionInv, S!KillSession, SessionTypes
<1>2. run' \in SessionRuns /\ run'.pc = "over"
  BY DEF S!KillSession, SessionRuns
<1>3. sessionFaults' \in 0 .. SessionFaults
  BY <1>1, SessionConstants DEF S!KillSession, S!Fails, SessionTypes
<1>4. used \subseteq Fixtures /\ session \in 1 .. session
  BY <1>1
<1>5. /\ failed' \in SUBSET (Fixtures \X (1 .. session)) /\ faulty' \in SUBSET failed'
      /\ failed \subseteq failed' /\ faulty \subseteq faulty'
      /\ \A f, s : <<f, s>> \in failed' => <<f, s>> \in failed \/ (s = session /\ <<f, s>> \in faulty')
      /\ \A f \in used : <<f, session>> \in failed'
  BY <1>1, <1>4 DEF SessionTypes
<1> HIDE DEF used
<1>6. SessionTypes' /\ HostInv' /\ UniqueInv'
  BY <1>1, <1>2, <1>3, <1>5 DEF SessionTypes, HostInv, UniqueInv
<1>7. RunInv'
  BY <1>1, <1>2 DEF RunInv, IsRegistered
<1>8. OwnerInv'
  <2> SUFFICES ASSUME NEW i \in item
               PROVE  \E f \in Fixtures : i.kind \in S!KindsOf(f) /\ Accounted(i, f)'
    BY <1>1 DEF OwnerInv
  <2>1. PICK f \in Fixtures : i.kind \in S!KindsOf(f) /\ Accounted(i, f)
    BY <1>1 DEF OwnerInv
  <2>2. InHand(i, f) => f \in used
    BY <1>1 DEF InHand, RunInv, used
  <2>3. Accounted(i, f)'
    BY <1>5, <2>1, <2>2 DEF Accounted, InHand
  <2> QED
    BY <2>1, <2>3
<1>9. InTimeInv'
  BY <1>1, <1>2 DEF InTimeInv
<1>10. \A f : Excused(f) => Excused(f)'
  BY <1>1, <1>5, HostsStay, ExcusedStays
<1>11. ErrorInv'
  BY <1>1, <1>10 DEF ErrorInv
<1>12. FailedInv'
  <2>1. ASSUME NEW f \in Fixtures, NEW s \in 1 .. session, S!FinalizerWaits(f), <<f, s>> \in failed'
        PROVE  \E t \in 1 .. s : <<f, t>> \in faulty'
    <3>1. CASE <<f, s>> \in failed
      BY <1>1, <1>5, <2>1, <3>1 DEF FailedInv
    <3>2. CASE s = session /\ <<f, s>> \in faulty'
      BY <1>4, <3>2
    <3> QED
      BY <1>5, <2>1, <3>1, <3>2
  <2>2. ASSUME NEW f \in Fixtures, <<f, session>> \in failed' \ faulty' PROVE Excused(f)'
    BY <1>1, <1>5, <1>10, <2>2 DEF FailedInv
  <2> QED
    BY <1>1, <2>1, <2>2 DEF FailedInv
<1> QED
  BY <1>6, <1>7, <1>8, <1>9, <1>11, <1>12 DEF SessionInv

LEMMA StartSessionStep ==
  ASSUME SessionInv, S!StartSession
  PROVE  SessionInv'
<1>1. /\ SessionTypes /\ RunInv /\ HostInv /\ OwnerInv /\ UniqueInv /\ InTimeInv /\ ErrorInv /\ FailedInv
      /\ run.pc = "over" /\ registered = <<>> /\ run' = S!Idle
      /\ UNCHANGED <<host, item, registered, failed, faulty, sessionFaults>>
      /\ status' = [f \in Fixtures |-> IF status[f] = "unused" THEN "unused" ELSE "unset"]
  BY DEF SessionInv, S!StartSession, S!NoFailure, RunInv
<1>2. session' = session + 1 /\ session' \in 1 .. Sessions /\ session \in Nat \ {0}
  BY <1>1, SessionConstants DEF S!StartSession, SessionTypes
<1>3. run' \in SessionRuns /\ run'.pc = "tests"
  BY <1>1 DEF S!Idle, SessionRuns
<1>4. 1 .. session \subseteq 1 .. session' /\ session' \notin 1 .. session
  BY <1>2
<1>5. failed \in SUBSET (Fixtures \X (1 .. session')) /\ \A f : <<f, session'>> \notin failed
  BY <1>1, <1>4 DEF SessionTypes
<1>6. SessionTypes' /\ HostInv' /\ UniqueInv'
  BY <1>1, <1>2, <1>3, <1>5 DEF SessionTypes, HostInv, UniqueInv
<1>7. RunInv'
  BY <1>1, <1>3 DEF RunInv, IsRegistered
<1>8. OwnerInv'
  <2> SUFFICES ASSUME NEW i \in item
               PROVE  \E f \in Fixtures : i.kind \in S!KindsOf(f) /\ Accounted(i, f)'
    BY <1>1 DEF OwnerInv
  <2>1. PICK f \in Fixtures : i.kind \in S!KindsOf(f) /\ Accounted(i, f)
    BY <1>1 DEF OwnerInv
  <2>2. ~InHand(i, f)
    BY <1>1 DEF InHand, IsRegistered
  <2>3. Accounted(i, f)'
    BY <1>1, <2>1, <2>2 DEF Accounted
  <2> QED
    BY <2>1, <2>3
<1>9. \A i \in item : i.session \in 1 .. session' /\ i.session # session'
  BY <1>1, <1>4 DEF InTimeInv
<1>10. InTimeInv' /\ ErrorInv'
  BY <1>1, <1>9 DEF InTimeInv, ErrorInv
<1>11. FailedInv'
  <2>1. ASSUME NEW f \in Fixtures, NEW s \in 1 .. session', S!FinalizerWaits(f), <<f, s>> \in failed
        PROVE  \E t \in 1 .. s : <<f, t>> \in faulty
    <3>1. s \in 1 .. session
      BY <1>2, <1>5, <2>1
    <3> QED
      BY <1>1, <2>1, <3>1 DEF FailedInv
  <2> QED
    BY <1>1, <1>5, <2>1 DEF FailedInv
<1> QED
  BY <1>6, <1>7, <1>8, <1>10, <1>11 DEF SessionInv

-----------------------------------------------------------------------------
(* The Rancher server                                                      *)

(* An item that starts becomes an error only for a reason.                 *)
LEMMA ErrorIsExcused ==
  ASSUME SessionInv, NEW i \in item, i.state = "starting", i.session = session,
         S!PortIsUsed(i) \/ host[i.place] = "error", NEW f \in Fixtures, i.kind \in S!KindsOf(f)
  PROVE  Excused(f)
<1>1. /\ SessionTypes /\ HostInv /\ UniqueInv /\ InTimeInv /\ i.place \in Hosts /\ session \in Nat
  BY DEF SessionInv, SessionTypes, S!Item
<1>2. CASE S!PortIsUsed(i)
  <2>1. PICK j \in item : /\ j.kind = i.kind /\ j.place = i.place
                          /\ j.state \in {"running", "removing"}
    BY <1>2 DEF S!PortIsUsed
  <2>2. j.session # i.session /\ j.session \in 1 .. session
    BY <1>1, <2>1 DEF UniqueInv, InTimeInv
  <2>3. j.session \in 1 .. session - 1
    BY <1>1, <2>2
  <2> QED
    BY <2>1, <2>3, LeftoversExcuse
<1>3. CASE host[i.place] = "error"
  <2>1. i.kind = "ssh"
    BY <1>1, <1>3 DEF HostInv
  <2>2. ~S!FinalizerWaits(f)
    BY <2>1, KindsAreOwn
  <2> QED
    BY <1>1, <1>3, <2>2 DEF Excused
<1> QED
  BY <1>2, <1>3

LEMMA ServerItemStep ==
  ASSUME SessionInv, UNCHANGED <<host, session, status, registered, run, failed, faulty, sessionFaults>>,
         NEW i \in item, NEW new \in SUBSET S!Item, item' = (item \ {i}) \cup new,
         \A j \in new : /\ j.kind = i.kind /\ j.place = i.place /\ j.session = i.session
                        /\ i.state # "removing"
                        /\ j.state = "error" /\ i.session = session =>
                              \A f \in Fixtures : i.kind \in S!KindsOf(f) => Excused(f),
         \A j, k \in new : j = k
  PROVE  SessionInv'
<1>1. /\ SessionTypes /\ RunInv /\ HostInv /\ OwnerInv /\ UniqueInv /\ InTimeInv /\ ErrorInv /\ FailedInv
      /\ item \in SUBSET S!Item
  BY DEF SessionInv, SessionTypes
<1>2. SessionTypes'
  BY <1>1 DEF SessionTypes
<1>3. RunInv'
  BY <1>1 DEF RunInv, IsRegistered
<1>4. HostInv'
  BY <1>1 DEF HostInv
<1>5. OwnerInv'
  <2> SUFFICES ASSUME NEW j \in item'
               PROVE  \E f \in Fixtures : j.kind \in S!KindsOf(f) /\ Accounted(j, f)'
    BY DEF OwnerInv
  <2>1. PICK k \in item : /\ j.kind = k.kind /\ j.session = k.session
                          /\ j = k \/ k.state # "removing"
    OBVIOUS
  <2>2. PICK f \in Fixtures : k.kind \in S!KindsOf(f) /\ Accounted(k, f)
    BY <1>1 DEF OwnerInv
  <2>3. Accounted(j, f)'
    BY <2>1, <2>2 DEF Accounted, InHand, IsRegistered
  <2> QED
    BY <2>1, <2>2, <2>3
<1>6. UniqueInv'
  BY <1>1 DEF UniqueInv
<1>7. InTimeInv'
  BY <1>1 DEF InTimeInv
<1>8. ErrorInv'
  <2>1. \A f : Excused(f) => Excused(f)'
    BY <1>1, HostsStay, ExcusedStays
  <2> QED
    BY <1>1, <2>1 DEF ErrorInv
<1>9. FailedInv'
  BY <1>1 DEF FailedInv, Excused
<1> QED
  BY <1>2, <1>3, <1>4, <1>5, <1>6, <1>7, <1>8, <1>9 DEF SessionInv

LEMMA ServerStep ==
  ASSUME SessionInv, S!Server
  PROVE  SessionInv'
<1>1. /\ UNCHANGED <<session, status, registered, run, failed, faulty, sessionFaults>> /\ SessionTypes
      /\ item \in SUBSET S!Item
  BY DEF S!Server, S!NoFailure, SessionInv, SessionTypes
<1>2. ASSUME NEW i \in item, i.state = "starting", UNCHANGED host,
             item' = (item \ {i}) \cup
                {[i EXCEPT !.state = IF S!PortIsUsed(i) \/ host[i.place] = "error"
                                     THEN "error" ELSE "running"]}
      PROVE  SessionInv'
  <2> DEFINE state == IF S!PortIsUsed(i) \/ host[i.place] = "error" THEN "error" ELSE "running"
             j == [i EXCEPT !.state = state]
  <2>1. state \in {"error", "running"}
    OBVIOUS
  <2>2. state = "error" /\ i.session = session =>
           \A f \in Fixtures : i.kind \in S!KindsOf(f) => Excused(f)
    BY <1>2, ErrorIsExcused
  <2> HIDE DEF state
  <2>3. /\ j \in S!Item /\ j.state = state /\ j.kind = i.kind /\ j.place = i.place /\ j.session = i.session
    BY <1>1, <2>1 DEF S!Item
  <2>4. item' = (item \ {i}) \cup {j}
    BY <1>2 DEF state
  <2> DEFINE new == {j}
  <2>5. /\ new \in SUBSET S!Item /\ \A k, l \in new : k = l
        /\ \A k \in new : /\ k.kind = i.kind /\ k.place = i.place /\ k.session = i.session
                          /\ i.state # "removing"
                          /\ k.state = "error" /\ i.session = session =>
                                \A f \in Fixtures : i.kind \in S!KindsOf(f) => Excused(f)
    BY <1>2, <2>2, <2>3
  <2>6. item' = (item \ {i}) \cup new
    BY <2>4
  <2> HIDE DEF new
  <2> QED
    BY <1>1, <1>2, <2>5, <2>6, ServerItemStep
<1>3. ASSUME NEW i \in item, item' = item \ {i}, UNCHANGED host
      PROVE  SessionInv'
  <2>1. PICK new \in SUBSET S!Item : new = {}
    OBVIOUS
  <2>2. /\ item' = (item \ {i}) \cup new
        /\ \A k, l \in new : k = l
        /\ \A k \in new : /\ k.kind = i.kind /\ k.place = i.place /\ k.session = i.session
                          /\ i.state # "removing"
                          /\ k.state = "error" /\ i.session = session =>
                                \A f \in Fixtures : i.kind \in S!KindsOf(f) => Excused(f)
    BY <1>3, <2>1
  <2> QED
    BY <1>1, <1>3, <2>2, ServerItemStep
<1>4. ASSUME NEW h \in Hosts, host[h] = "starting", UNCHANGED item, host' = [host EXCEPT ![h] = "active"]
      PROVE  SessionInv'
  <2>1. /\ RunInv /\ HostInv /\ OwnerInv /\ UniqueInv /\ InTimeInv /\ ErrorInv /\ FailedInv
    BY DEF SessionInv
  <2>2. HostsGrow
    BY <1>1, <1>4 DEF SessionTypes, HostsGrow
  <2>3. \A f : Excused(f) => Excused(f)'
    BY <1>1, <2>2, ExcusedStays
  <2>4. SessionTypes'
    BY <1>1, <1>4, <2>2 DEF SessionTypes, HostsGrow
  <2>5. HostInv'
    <3>1. \A i \in item : i.place \in Hosts
      BY <1>1 DEF S!Item
    <3> QED
      BY <1>4, <2>1, <2>2, <3>1, SessionConstants DEF HostInv, HostsGrow
  <2>6. RunInv' /\ OwnerInv' /\ UniqueInv' /\ InTimeInv'
    BY <1>1, <1>4, <2>1 DEF RunInv, OwnerInv, Accounted, InHand, UniqueInv, InTimeInv, IsRegistered
  <2>7. ErrorInv' /\ FailedInv'
    BY <1>1, <1>4, <2>1, <2>3 DEF ErrorInv, FailedInv
  <2> QED
    BY <2>4, <2>5, <2>6, <2>7 DEF SessionInv
<1> QED
  BY <1>2, <1>3, <1>4 DEF S!Server

LEMMA SessionStep ==
  ASSUME SessionInv, [S!Next]_sessions
  PROVE  SessionInv'
<1>1. CASE UNCHANGED sessions
  <2>1. UNCHANGED <<host, item, session, status, registered, run, failed, faulty, sessionFaults>>
    BY <1>1 DEF sessions
  <2>2. SessionTypes' /\ RunInv' /\ HostInv'
    BY <2>1 DEF SessionInv, SessionTypes, RunInv, HostInv, IsRegistered
  <2>3. OwnerInv' /\ UniqueInv' /\ InTimeInv'
    BY <2>1 DEF SessionInv, OwnerInv, Accounted, InHand, UniqueInv, InTimeInv, IsRegistered
  <2>4. ErrorInv' /\ FailedInv'
    BY <2>1 DEF SessionInv, ErrorInv, FailedInv, Excused
  <2> QED
    BY <2>2, <2>3, <2>4 DEF SessionInv
<1>2. CASE S!Setup
  BY <1>2, CreateItemsStep, AwaitItemsStep, CheckOrHostsStep, CompleteFixtureStep DEF S!Setup
<1> QED
  BY <1>1, <1>2, RequestFixtureStep, EndTestsStep, KillSessionStep, DeleteItemsStep, AwaitDeletedStep,
     StartSessionStep, ServerStep DEF S!Next

LEMMA SessionFollows == SessionInv => S!TypeOK /\ S!LeftoversAreOfFailures /\ S!FailsAfterFailures
<1> SUFFICES ASSUME SessionInv PROVE S!TypeOK /\ S!LeftoversAreOfFailures /\ S!FailsAfterFailures
  OBVIOUS
<1>1. SessionTypes /\ RunInv /\ OwnerInv /\ FailedInv
  BY DEF SessionInv
<1>2. S!TypeOK
  <2>1. failed \in SUBSET (Fixtures \X (1 .. Sessions))
    <3>1. 1 .. session \subseteq 1 .. Sessions
      BY <1>1, SessionConstants DEF SessionTypes
    <3> QED
      BY <1>1, <3>1 DEF SessionTypes
  <2> QED
    BY <1>1, <2>1 DEF S!TypeOK, SessionTypes, SessionRuns
<1>3. S!LeftoversAreOfFailures
  <2> SUFFICES ASSUME run.pc = "over", NEW i \in item, i.state # "removing"
               PROVE  \E f \in Fixtures : i.kind \in S!KindsOf(f) /\ <<f, i.session>> \in failed
    BY DEF S!LeftoversAreOfFailures
  <2>1. PICK f \in Fixtures : i.kind \in S!KindsOf(f) /\ Accounted(i, f)
    BY <1>1 DEF OwnerInv
  <2>2. ~InHand(i, f)
    BY <1>1 DEF InHand, RunInv, IsRegistered
  <2> QED
    BY <2>1, <2>2 DEF Accounted
<1>4. S!FailsAfterFailures
  BY <1>1 DEF S!FailsAfterFailures, FailedInv, Excused
<1> QED
  BY <1>2, <1>3, <1>4

-----------------------------------------------------------------------------
(* The helpers that build a stack: what their steps are                    *)

Plain == R!Kinds \cup {"own", "hosts", "await"}
AnyStep == Plain \cup {"rules", "activate", "started", "awaitStack", "awaitServices", "awaitLb"}
FromStack(s) == s \in Seq(Plain) /\ Len(s) >= 1 /\ s[1] = "stack"

(* A helper that activates does so after its services, and the load        *)
(* balancer; Activation is that step.                                      *)
Activation == 4 * Balanced + 6

LEMMA Parts ==
  /\ FromStack(R!create_env) /\ Len(R!create_env) = 2
  /\ R!create_svc \in Seq(Plain) /\ Len(R!create_svc) = 2
  /\ R!create_lb \in Seq(Plain) /\ R!create_lb = <<"lb", "await">>
  /\ <<"own", "await">> \in Seq(Plain) /\ <<"dns", "await">> \in Seq(Plain)
  /\ <<"external", "await">> \in Seq(Plain) /\ R!create_con_list \in Seq(Plain)
  /\ <<"hosts">> \in Seq(Plain)
<1>1. R!create_env \in Seq(Plain) /\ Len(R!create_env) = 2 /\ R!create_env[1] = "stack"
  BY DEF R!create_env, Plain, R!Kinds
<1>2. R!create_svc \in Seq(Plain) /\ Len(R!create_svc) = 2
  BY DEF R!create_svc, Plain, R!Kinds
<1>3. R!create_lb \in Seq(Plain) /\ R!create_lb = <<"lb", "await">>
  BY DEF R!create_lb, Plain, R!Kinds
<1>4. <<"own", "await">> \in Seq(Plain) /\ <<"dns", "await">> \in Seq(Plain)
      /\ <<"external", "await">> \in Seq(Plain)
  BY DEF Plain, R!Kinds
<1>5. R!create_con_list \in Seq(Plain) /\ <<"hosts">> \in Seq(Plain)
  BY DEF R!create_con_list, Plain, R!Kinds
<1> QED
  BY <1>1, <1>2, <1>3, <1>4, <1>5 DEF FromStack

LEMMA Joined ==
  ASSUME NEW s \in Seq(Plain), NEW t \in Seq(Plain)
  PROVE  s \o t \in Seq(Plain) /\ (FromStack(s) => FromStack(s \o t))
<1>1. /\ s \o t \in Seq(Plain) /\ Len(s \o t) = Len(s) + Len(t)
      /\ \A i \in 1 .. Len(s) + Len(t) : (s \o t)[i] = IF i <= Len(s) THEN s[i] ELSE t[i - Len(s)]
  BY ConcatProperties
<1>2. Len(s) \in Nat /\ Len(t) \in Nat
  OBVIOUS
<1> QED
  BY <1>1, <1>2 DEF FromStack

LEMMA PlainHelpers ==
  ASSUME NEW h \in R!Helpers \ (R!HasRules \cup {"stack_with_service"})
  PROVE  FromStack(R!Steps(h))
<1> DEFINE both == R!create_env \o R!create_svc
           consumed == <<"own", "await">> \o R!create_svc
<1>1. FromStack(both) /\ consumed \in Seq(Plain)
  BY Parts, Joined DEF FromStack
<1>2. FromStack(both \o R!create_lb) /\ FromStack(both \o R!create_svc)
      /\ FromStack(both \o <<"external", "await">>)
  BY <1>1, Parts, Joined DEF FromStack
<1>3. FromStack(both \o consumed \o consumed \o <<"dns", "await">>)
  <2>1. FromStack(both \o consumed)
    BY <1>1, Joined DEF FromStack
  <2>2. FromStack((both \o consumed) \o consumed)
    BY <1>1, <2>1, Joined DEF FromStack
  <2> QED
    BY <2>2, Parts, Joined DEF FromStack
<1>10. FromStack(both \o <<"hosts">> \o consumed \o consumed \o <<"dns", "await">>)
  <2>1. FromStack(both \o <<"hosts">>)
    BY <1>1, Parts, Joined DEF FromStack
  <2>2. FromStack((both \o <<"hosts">>) \o consumed)
    BY <1>1, <2>1, Joined DEF FromStack
  <2>3. FromStack(((both \o <<"hosts">>) \o consumed) \o consumed)
    BY <1>1, <2>2, Joined DEF FromStack
  <2> QED
    BY <2>3, Parts, Joined DEF FromStack
<1>4. FromStack(R!create_env_with_ext_svc)
  <2>1. FromStack(both \o R!create_con_list)
    BY <1>1, Parts, Joined DEF FromStack
  <2> QED
    BY <2>1, Parts, Joined DEF FromStack, R!create_env_with_ext_svc
<1>5. FromStack(R!create_env_with_ext_svc \o R!create_lb)
  BY <1>4, Parts, Joined DEF FromStack
<1>6. h \in {"svc", "svc_and_lb", "2_svc", "2_svc_hostnetwork", "2_svc_dns", "2_svc_dns_hostnetwork",
            "ext_svc", "ext_svc_hostname", "ext_svc_and_lb"}
  BY DEF R!Helpers, R!HasRules
<1>7. CASE h \in {"svc", "svc_and_lb", "2_svc", "2_svc_hostnetwork", "ext_svc_hostname"}
  BY <1>1, <1>2, <1>7 DEF R!Steps, R!create_env_and_svc, R!create_env_with_svc_and_lb,
     R!create_env_with_2_svc, R!create_env_with_2_svc_hostnetwork, R!create_env_with_ext_svc_hostname
<1>8. CASE h = "2_svc_dns"
  BY <1>3, <1>8 DEF R!Steps, R!create_env_with_2_svc_dns, R!create_consumed_svc
<1>11. CASE h = "2_svc_dns_hostnetwork"
  BY <1>10, <1>11 DEF R!Steps, R!create_env_with_2_svc_dns_hostnetwork, R!create_consumed_svc
<1>9. CASE h \in {"ext_svc", "ext_svc_and_lb"}
  BY <1>4, <1>5, <1>9 DEF R!Steps, R!create_env_with_ext_svc_and_lb
<1> QED
  BY <1>6, <1>7, <1>8, <1>9, <1>11

LEMMA ServiceSteps ==
  /\ R!Services \in Seq(Plain) /\ Len(R!Services) = 4 * Balanced
<1>1. Balanced \in Nat \ {0}
  BY RecipeBounds DEF R!Bounds
<1>2. R!create_consumed_svc \in [1 .. 4 -> Plain]
  <2>1. <<"own", "await">> \in Seq(Plain) /\ Len(<<"own", "await">>) = 2
    BY Parts
  <2> DEFINE own == <<"own", "await">>
  <2> HIDE DEF own
  <2>3. own \o R!create_svc \in Seq(Plain) /\ Len(own \o R!create_svc) = 2 + 2
    <3>1. own \in Seq(Plain) /\ Len(own) = 2 /\ R!create_svc \in Seq(Plain) /\ Len(R!create_svc) = 2
      BY <2>1, Parts DEF own
    <3>2. own \o R!create_svc \in Seq(Plain) /\ Len(own \o R!create_svc) = Len(own) + Len(R!create_svc)
      BY <3>1, ConcatProperties, Zenon
    <3> QED
      BY <3>1, <3>2
  <2>2. R!create_consumed_svc \in Seq(Plain) /\ Len(R!create_consumed_svc) = 4
    BY <2>3 DEF R!create_consumed_svc, own
  <2> QED
    BY <2>2, LenProperties
<1>3. 4 * Balanced \in Nat
  BY <1>1
<1>4. \A i \in 1 .. 4 * Balanced : ((i - 1) % 4) + 1 \in 1 .. 4
  BY <1>3
<1>5. R!Services \in [1 .. 4 * Balanced -> Plain]
  BY <1>2, <1>4 DEF R!Services
<1> QED
  BY <1>3, <1>5, SeqDef

LEMMA ActivatingHelpers ==
  ASSUME NEW h \in R!HasRules
  PROVE  /\ Len(R!Steps(h)) = Activation + 3 /\ R!Steps(h)[1] = "stack"
         /\ \A i \in 1 .. Activation - 4 : R!Steps(h)[i] \in Plain
         /\ R!Steps(h)[Activation - 3] = "rules" /\ R!Steps(h)[Activation - 2] = "lb"
         /\ R!Steps(h)[Activation - 1] = "await" /\ R!Steps(h)[Activation] = "activate"
         /\ R!Steps(h)[Activation + 1] = "awaitStack"
         /\ R!Steps(h)[Activation + 2] = "awaitServices" /\ R!Steps(h)[Activation + 3] = "awaitLb"
<1> DEFINE n == 4 * Balanced + 2
           a == R!create_env \o R!Services
           rest == <<"rules">> \o R!create_lb
<1>1. Balanced \in Nat \ {0} /\ n \in Nat /\ n >= 2 /\ Activation = n + 4
  BY RecipeBounds DEF R!Bounds, Activation
<1>2. a \in Seq(Plain) /\ Len(a) = n /\ a[1] = "stack"
  <2>1. /\ a \in Seq(Plain) /\ Len(a) = Len(R!create_env) + Len(R!Services)
        /\ FromStack(R!create_env) => FromStack(a)
    BY Parts, ServiceSteps, Joined, ConcatProperties DEF FromStack
  <2> QED
    BY <1>1, <2>1, Parts, ServiceSteps DEF FromStack
<1>3. a \in Seq(AnyStep) /\ <<"rules">> \in Seq(AnyStep) /\ R!create_lb \in Seq(AnyStep)
      /\ R!activate_services \in Seq(AnyStep)
  <2>1. a \in Seq(AnyStep)
    BY <1>2, SeqMonotonic DEF AnyStep
  <2>2. <<"rules">> \in Seq(AnyStep)
    BY DEF AnyStep
  <2>3. R!create_lb \in Seq(AnyStep)
    BY DEF AnyStep, R!create_lb, Plain, R!Kinds
  <2>4. R!activate_services \in Seq(AnyStep)
    BY DEF AnyStep, R!activate_services
  <2> QED
    BY <2>1, <2>2, <2>3, <2>4
<1> HIDE DEF a, n
<1> DEFINE b == a \o <<"rules">>
           c == b \o R!create_lb
           d == c \o R!activate_services
<1>4. /\ b \in Seq(AnyStep) /\ Len(b) = n + 1
      /\ \A i \in 1 .. n + 1 : b[i] = IF i <= n THEN a[i] ELSE "rules"
  <2>1. Len(<<"rules">>) = 1 /\ <<"rules">>[1] = "rules"
    OBVIOUS
  <2> DEFINE r == <<"rules">>
  <2>4. r \in Seq(AnyStep) /\ Len(r) = 1
    BY <1>3, <2>1
  <2> HIDE DEF r
  <2>5. /\ a \o r \in Seq(AnyStep) /\ Len(a \o r) = n + 1
        /\ \A i \in 1 .. n + 1 : (a \o r)[i] = IF i <= n THEN a[i] ELSE r[i - n]
    <3>1. /\ a \o r \in Seq(AnyStep) /\ Len(a \o r) = Len(a) + Len(r)
          /\ \A i \in 1 .. Len(a) + Len(r) : (a \o r)[i] = IF i <= Len(a) THEN a[i] ELSE r[i - Len(a)]
      BY <1>3, <2>4, ConcatProperties, Zenon
    <3> QED
      BY <1>2, <2>4, <3>1, Zenon
  <2>2. /\ b \in Seq(AnyStep) /\ Len(b) = n + 1
        /\ \A i \in 1 .. n + 1 : b[i] = IF i <= n THEN a[i] ELSE <<"rules">>[i - n]
    BY <2>5 DEF r
  <2>3. \A i \in 1 .. n + 1 : i > n => i - n = 1
    BY <1>1
  <2> QED
    BY <2>1, <2>2, <2>3, <1>1
<1> HIDE DEF b
<1>5. /\ c \in Seq(AnyStep) /\ Len(c) = n + 3
      /\ \A i \in 1 .. n + 3 : c[i] = IF i <= n + 1 THEN b[i] ELSE R!create_lb[i - (n + 1)]
  <2>1. Len(R!create_lb) = 2
    BY DEF R!create_lb
  <2>2. n + 1 + 2 = n + 3 /\ n + 1 \in Nat
    BY <1>1
  <2>3. Len(c) = n + 1 + 2 /\ c \in Seq(AnyStep)
        /\ \A i \in 1 .. n + 1 + 2 : c[i] = IF i <= n + 1 THEN b[i] ELSE R!create_lb[i - (n + 1)]
    <3> DEFINE m == n + 1
    <3>1. Len(b) = m
      BY <1>4
    <3> HIDE DEF m
    <3>2. /\ b \o R!create_lb \in Seq(AnyStep) /\ Len(b \o R!create_lb) = m + 2
          /\ \A i \in 1 .. m + 2 : (b \o R!create_lb)[i] = IF i <= m THEN b[i] ELSE R!create_lb[i - m]
      <4>1. /\ b \o R!create_lb \in Seq(AnyStep) /\ Len(b \o R!create_lb) = Len(b) + Len(R!create_lb)
            /\ \A i \in 1 .. Len(b) + Len(R!create_lb) :
                  (b \o R!create_lb)[i] = IF i <= Len(b) THEN b[i] ELSE R!create_lb[i - Len(b)]
        BY <1>3, <1>4, ConcatProperties, Zenon
      <4> QED
        BY <2>1, <3>1, <4>1, Zenon
    <3> QED
      BY <3>2 DEF m
  <2> QED
    BY <2>2, <2>3
<1> HIDE DEF c
<1>6. /\ Len(d) = n + 7
      /\ \A i \in 1 .. n + 7 : d[i] = IF i <= n + 3 THEN c[i] ELSE R!activate_services[i - (n + 3)]
  <2>1. Len(R!activate_services) = 4
    BY DEF R!activate_services
  <2>2. n + 3 + 4 = n + 7 /\ n + 3 \in Nat
    BY <1>1
  <2>3. Len(d) = n + 3 + 4
        /\ \A i \in 1 .. n + 3 + 4 : d[i] = IF i <= n + 3 THEN c[i] ELSE R!activate_services[i - (n + 3)]
    <3> DEFINE m == n + 3
    <3>1. Len(c) = m
      BY <1>5
    <3> HIDE DEF m
    <3>2. /\ Len(c \o R!activate_services) = m + 4
          /\ \A i \in 1 .. m + 4 :
                (c \o R!activate_services)[i] = IF i <= m THEN c[i] ELSE R!activate_services[i - m]
      <4>1. /\ c \o R!activate_services \in Seq(AnyStep)
            /\ Len(c \o R!activate_services) = Len(c) + Len(R!activate_services)
            /\ \A i \in 1 .. Len(c) + Len(R!activate_services) :
                  (c \o R!activate_services)[i] =
                      IF i <= Len(c) THEN c[i] ELSE R!activate_services[i - Len(c)]
        BY <1>3, <1>5, ConcatProperties, Zenon
      <4> QED
        BY <2>1, <3>1, <4>1, Zenon
    <3> QED
      BY <3>2 DEF m
  <2> QED
    BY <2>2, <2>3
<1> HIDE DEF d
<1>7. R!Steps(h) = d
  BY DEF R!Steps, R!HasRules, R!create_env_with_multiple_svc_and_lb,
     R!create_env_with_multiple_svc_and_ssl_lb, a, b, c, d
<1>8. R!create_lb[1] = "lb" /\ R!create_lb[2] = "await"
  BY DEF R!create_lb
<1>9. /\ R!activate_services[1] = "activate" /\ R!activate_services[2] = "awaitStack"
      /\ R!activate_services[3] = "awaitServices" /\ R!activate_services[4] = "awaitLb"
  BY DEF R!activate_services
<1>10. \A i \in 1 .. n : d[i] = a[i]
  BY <1>1, <1>4, <1>5, <1>6
<1>11. d[n + 1] = "rules"
  BY <1>1, <1>4, <1>5, <1>6
<1>12. d[n + 2] = "lb" /\ d[n + 3] = "await"
  <2>1. d[n + 2] = c[n + 2] /\ d[n + 3] = c[n + 3]
    BY <1>1, <1>6
  <2>2. c[n + 2] = R!create_lb[(n + 2) - (n + 1)] /\ c[n + 3] = R!create_lb[(n + 3) - (n + 1)]
    BY <1>1, <1>5
  <2>3. (n + 2) - (n + 1) = 1 /\ (n + 3) - (n + 1) = 2
    BY <1>1
  <2> QED
    BY <2>1, <2>2, <2>3, <1>8
<1>13. /\ d[n + 4] = "activate" /\ d[n + 5] = "awaitStack"
       /\ d[n + 6] = "awaitServices" /\ d[n + 7] = "awaitLb"
  <2>2. \A k \in 1 .. 4 : d[n + 3 + k] = R!activate_services[k]
    <3> TAKE k \in 1 .. 4
    <3> DEFINE i == n + 3 + k
    <3>1. i \in 1 .. n + 7 /\ ~(i <= n + 3) /\ i - (n + 3) = k
      BY <1>1
    <3> HIDE DEF i
    <3>2. d[i] = R!activate_services[k]
      BY <1>6, <3>1
    <3> QED
      BY <3>2 DEF i
  <2>3. n + 3 + 1 = n + 4 /\ n + 3 + 2 = n + 5 /\ n + 3 + 3 = n + 6 /\ n + 3 + 4 = n + 7
    BY <1>1
  <2> QED
    BY <2>2, <2>3, <1>9
<1>14. \A i \in 1 .. n : a[i] \in Plain
  BY <1>1, <1>2
<1>15. /\ Activation + 3 = n + 7 /\ Activation - 4 = n /\ Activation - 3 = n + 1 /\ Activation - 2 = n + 2
       /\ Activation - 1 = n + 3 /\ Activation + 1 = n + 5 /\ Activation + 2 = n + 6 /\ 1 \in 1 .. n
  BY <1>1
<1> QED
  BY <1>1, <1>2, <1>6, <1>7, <1>10, <1>11, <1>12, <1>13, <1>14, <1>15

LEMMA ListingHelper ==
  LET steps == R!Steps("stack_with_service")
  IN  /\ Len(steps) = 4 /\ steps[1] = "stack" /\ steps[2] = "await"
      /\ steps[3] = "started" /\ steps[4] = "awaitServices"
<1>1. R!Steps("stack_with_service") = <<"stack", "await", "started", "awaitServices">>
  BY DEF R!Steps, R!create_stack_with_service
<1> QED
  BY <1>1

LEMMA StepsAreMany ==
  ASSUME NEW h \in R!Helpers
  PROVE  Len(R!Steps(h)) \in Nat /\ 1 <= Len(R!Steps(h))
<1>1. CASE h \in R!HasRules
  <2>1. Activation \in Nat
    BY RecipeBounds DEF R!Bounds, Activation
  <2> QED
    BY <1>1, <2>1, ActivatingHelpers
<1>2. CASE h = "stack_with_service"
  BY <1>2, ListingHelper
<1>3. CASE h \notin R!HasRules \cup {"stack_with_service"}
  BY <1>3, PlainHelpers DEF FromStack
<1> QED
  BY <1>1, <1>2, <1>3

-----------------------------------------------------------------------------
(* The helpers that build a stack: the invariant                           *)

MadeObjects == [kind : R!Kinds, main : BOOLEAN, state : R!States]
RecipeStates == [helper : R!Helpers \cup {"none"}, pc : {"called", "returned", "raised"},
                 step : Nat \ {0}, crosslinking : BOOLEAN, shared : BOOLEAN]

RecipeTypes == /\ made \in Seq(MadeObjects) /\ call \in RecipeStates
               /\ rules \in {"index", "id"} /\ calls \in 0 .. RecipeCalls
               /\ late \in BOOLEAN /\ reused \in BOOLEAN /\ fewHosts \in BOOLEAN
               /\ recipeFaults \in 0 .. RecipeFaults

MadeIndexes == 1 .. Len(made)

(* Where a helper is.                                                      *)
Activates == call.helper \in R!HasRules
Activated == Activates /\ call.step > Activation
Lists == call.helper = "stack_with_service"
HasListed == Lists /\ call.step = 4

RecipeCallInv ==
    /\ call.pc = "called" => call.helper \in R!Helpers
    /\ call.helper \in R!Helpers => call.step <= Len(R!Steps(call.helper))
    /\ call.helper \notin R!Helpers => call.step = 1
    /\ call.crosslinking => call.helper \in R!CanCrosslink
    /\ call.shared => Activates

(* The first of what is made is the stack, the only one of the test's own. *)
IsLastStack(i) == made[i].kind = "stack" /\ \A j \in i + 1 .. Len(made) : made[j].kind # "stack"
ShapeInv ==
    /\ made # <<>> => /\ made[1].kind = "stack" /\ made[1].main
                      /\ \E i \in MadeIndexes : IsLastStack(i)
    /\ \A i \in MadeIndexes : made[i].kind = "stack" /\ made[i].main => i = 1
    /\ call.pc = "called" /\ call.step > 1 => made # <<>>
    /\ Activated => made # <<>>
    /\ Lists /\ ~HasListed => \A i \in MadeIndexes : made[i].kind # "service"

(* Until the services are activated, or listed, what is made settles.      *)
StateInv ==
    /\ \A i \in MadeIndexes : /\ made[i].state = "error" => recipeFaults > 0
                              /\ made[i].state = "running" => made[i].kind = "container"
    /\ ~Activated /\ ~HasListed =>
          \A i \in MadeIndexes : made[i].state \in {"creating", R!Settled(made[i].kind), "error"}
    /\ HasListed => \A i \in MadeIndexes : made[i].kind = "service" =>
                                           made[i].state \in {"activating", "active", "error"}

(* The stack is done after its services have begun, or late says so; the   *)
(* services are waited for, then the load balancer.                        *)
OwnPart(i) == made[i].main /\ made[i].kind \in {"service", "lb"}
ActivatedInv ==
    /\ Activates /\ call.step >= Activation => \A i \in MadeIndexes : made[i].state # "creating"
    /\ Activated => /\ made[1].state \in {"activating", "active", "error"}
                    /\ made[1].state = "active" /\ ~late =>
                          \A i \in MadeIndexes : OwnPart(i) => made[i].state # "inactive"
    /\ Activates /\ call.step > Activation + 1 => made[1].state # "activating"
    /\ Activates /\ call.step > Activation + 2 /\ ~call.crosslinking =>
          \A i \in MadeIndexes : OwnPart(i) /\ made[i].kind = "service" => made[i].state = "active"
    /\ Activates /\ call.pc = "returned" =>
          /\ call.step > Activation + 2
          /\ \A i \in MadeIndexes : OwnPart(i) /\ made[i].kind = "lb" => made[i].state = "active"

(* Until the rules are overridden, changed ones are those of a call before. *)
RulesInv == call.pc = "called" /\ call.shared /\ rules = "id" /\ call.step < Activation - 2 => reused

RecipeInv == /\ RecipeTypes /\ RecipeCallInv /\ ShapeInv /\ StateInv /\ ActivatedInv /\ RulesInv
             /\ R!RaisesAreExplained

(* A helper that has returned did so at its last step. *)
LEMMA RecipeFollows == RecipeInv => R!TypeOK /\ R!RaisesAreExplained /\ R!ActivatedMeansActive
<1> SUFFICES ASSUME RecipeInv PROVE R!TypeOK /\ R!RaisesAreExplained /\ R!ActivatedMeansActive
  OBVIOUS
<1>1. RecipeTypes /\ ActivatedInv /\ R!RaisesAreExplained
  BY DEF RecipeInv
<1>2. R!TypeOK
  BY <1>1 DEF RecipeTypes, R!TypeOK, MadeObjects, RecipeStates
<1>3. Len(made) \in Nat /\ DOMAIN made = MadeIndexes /\ \A i \in MadeIndexes : made[i] \in MadeObjects
  BY <1>1 DEF RecipeTypes, MadeIndexes
<1>4. R!ActivatedMeansActive
  <2> SUFFICES ASSUME call.pc = "returned", call.helper \in R!HasRules,
                      NEW i \in MadeIndexes, made[i].main,
                      made[i].kind \in ({"lb"} \cup IF call.crosslinking THEN {} ELSE {"service"})
               PROVE  made[i].state = "active"
    BY <1>3 DEF R!ActivatedMeansActive, R!OfMain, R!Active
  <2>1. Activates /\ call.step > Activation + 2
    BY <1>1 DEF Activates, ActivatedInv
  <2>2. CASE made[i].kind = "lb"
    BY <1>1, <2>1, <2>2 DEF ActivatedInv, OwnPart
  <2>3. CASE made[i].kind = "service" /\ ~call.crosslinking
    BY <1>1, <2>1, <2>3 DEF ActivatedInv, OwnPart
  <2> QED
    BY <2>2, <2>3
<1> QED
  BY <1>1, <1>2, <1>4

LEMMA RecipeInit == R!Init => RecipeInv
<1> SUFFICES ASSUME R!Init PROVE RecipeInv
  OBVIOUS
<1>1. /\ made = <<>> /\ rules = "index" /\ calls = 0 /\ late = FALSE /\ reused = FALSE
      /\ fewHosts = FALSE /\ recipeFaults = 0
      /\ call = [helper |-> "none", pc |-> "returned", step |-> 1, crosslinking |-> FALSE, shared |-> FALSE]
  BY DEF R!Init
<1>2. RecipeTypes /\ MadeIndexes = {}
  <2>1. made \in Seq(MadeObjects) /\ MadeIndexes = {}
    BY <1>1, EmptySeq DEF MadeIndexes
  <2>2. call \in RecipeStates
    BY <1>1 DEF RecipeStates
  <2>3. 0 \in 0 .. RecipeCalls /\ 0 \in 0 .. RecipeFaults
    BY RecipeBounds DEF R!Bounds
  <2> QED
    BY <1>1, <2>1, <2>2, <2>3 DEF RecipeTypes
<1>3. ~Activates /\ ~Lists /\ call.helper \notin R!Helpers
  BY <1>1 DEF Activates, Lists, R!HasRules, R!Helpers
<1> QED
  BY <1>1, <1>2, <1>3 DEF RecipeInv, RecipeCallInv, ShapeInv, StateInv, ActivatedInv, RulesInv,
     Activated, HasListed,
     R!RaisesAreExplained

(* What a step of a helper leads to. *)
LEMMA RecipeConstants ==
  /\ Activation \in Nat /\ Activation >= 10 /\ RecipeCalls \in Nat /\ RecipeFaults \in Nat
  /\ "stack_with_service" \notin R!HasRules /\ "none" \notin R!Helpers /\ R!HasRules \subseteq R!Helpers
  /\ "stack_with_service" \notin R!CanCrosslink
  BY RecipeBounds DEF R!Bounds, Activation, R!HasRules, R!Helpers, R!CanCrosslink

LEMMA MadeFacts ==
  ASSUME RecipeTypes
  PROVE  /\ Len(made) \in Nat /\ DOMAIN made = MadeIndexes
         /\ \A i \in MadeIndexes : made[i] \in MadeObjects
         /\ made = <<>> <=> Len(made) = 0
         /\ made # <<>> => 1 \in MadeIndexes
  BY DEF RecipeTypes, MadeIndexes

LEMMA RecipeAdvances ==
  ASSUME call \in RecipeStates, R!Advance
  PROVE  /\ call' \in RecipeStates /\ call.helper' = call.helper
         /\ call.crosslinking' = call.crosslinking /\ call.shared' = call.shared
         /\ call.step = Len(R!Steps(call.helper)) => call.pc' = "returned" /\ call.step' = call.step
         /\ call.step # Len(R!Steps(call.helper)) => call.pc' = call.pc /\ call.step' = call.step + 1
  BY DEF R!Advance, RecipeStates

LEMMA RecipeRaises ==
  ASSUME call \in RecipeStates, R!Raise
  PROVE  /\ call' \in RecipeStates /\ call.helper' = call.helper /\ call.step' = call.step
         /\ call.crosslinking' = call.crosslinking /\ call.shared' = call.shared /\ call.pc' = "raised"
  BY DEF R!Raise, RecipeStates

(* What a helper does next says where it is. *)
Making == R!Kinds \cup {"own", "hosts"}
LEMMA WhereItIs ==
  ASSUME RecipeTypes, RecipeCallInv, call.pc = "called"
  PROVE  /\ Len(R!Steps(call.helper)) \in Nat /\ call.step \in 1 .. Len(R!Steps(call.helper))
         /\ Activates => Len(R!Steps(call.helper)) = Activation + 3
         /\ Lists => Len(R!Steps(call.helper)) = 4
         /\ call.step = 1 => R!Step = "stack"
         /\ R!Step \in Making \/ R!Step = "await" =>
               /\ Activates => call.step < Activation /\ call.step # Activation - 3
               /\ Lists => call.step < 3
         /\ R!Step \in Making => (Activates => call.step # Activation - 1) /\ (Lists => call.step = 1)
         /\ R!Step = "rules" => Activates /\ call.step = Activation - 3
         /\ R!Step = "activate" => Activates /\ call.step = Activation
         /\ R!Step = "started" => Lists /\ call.step = 3
         /\ R!Step = "awaitStack" => Activates /\ call.step = Activation + 1
         /\ R!Step = "awaitServices" => (Activates /\ call.step = Activation + 2) \/ (Lists /\ call.step = 4)
         /\ R!Step = "awaitLb" => Activates /\ call.step = Activation + 3
<1>1. call.helper \in R!Helpers /\ call.step \in Nat \ {0} /\ call.step <= Len(R!Steps(call.helper))
  BY DEF RecipeTypes, RecipeCallInv, RecipeStates
<1>2. CASE Activates
  <2>1. Len(R!Steps(call.helper)) = Activation + 3 /\ ~Lists
    BY <1>2, ActivatingHelpers DEF Activates, Lists, R!HasRules
  <2>2. call.step \in 1 .. Activation - 4 \/ call.step \in {Activation - 3, Activation - 2, Activation - 1,
           Activation, Activation + 1, Activation + 2, Activation + 3}
    <3>1. \A n, a \in Nat : 1 <= n /\ 10 <= a /\ n <= a + 3 =>
             n \in 1 .. a - 4 \/ n \in {a - 3, a - 2, a - 1, a, a + 1, a + 2, a + 3}
      OBVIOUS
    <3>2. 1 <= call.step /\ 10 <= Activation /\ call.step \in Nat /\ Activation \in Nat
      BY <1>1, RecipeConstants
    <3> QED
      BY <1>1, <2>1, <3>1, <3>2
  <2>3. call.step = 1 => R!Step = "stack"
    BY <1>2, ActivatingHelpers DEF Activates, R!Step
  <2>4. CASE call.step \in 1 .. Activation - 4
    <3>1. R!Step \in Plain
      BY <1>2, <2>4, ActivatingHelpers DEF Activates, R!Step
    <3>2. call.step < Activation /\ call.step # Activation - 3 /\ call.step # Activation - 1
      BY <2>4, RecipeConstants
    <3>3. R!Step \notin {"rules", "activate", "started", "awaitStack", "awaitServices", "awaitLb"}
      BY <3>1 DEF Plain, R!Kinds
    <3> QED
      BY <1>1, <2>1, <2>3, <3>2, <3>3, RecipeConstants
  <2>5. CASE call.step = Activation - 3
    BY <1>1, <1>2, <2>1, <2>3, <2>5, ActivatingHelpers, RecipeConstants
       DEF Activates, R!Step, Making, R!Kinds
  <2>6. CASE call.step = Activation - 2
    BY <1>1, <1>2, <2>1, <2>3, <2>6, ActivatingHelpers, RecipeConstants
       DEF Activates, R!Step, Making, R!Kinds
  <2>7. CASE call.step = Activation - 1
    BY <1>1, <1>2, <2>1, <2>3, <2>7, ActivatingHelpers, RecipeConstants
       DEF Activates, R!Step, Making, R!Kinds
  <2>8. CASE call.step = Activation
    BY <1>1, <1>2, <2>1, <2>3, <2>8, ActivatingHelpers, RecipeConstants
       DEF Activates, R!Step, Making, R!Kinds
  <2>9. CASE call.step = Activation + 1
    BY <1>1, <1>2, <2>1, <2>3, <2>9, ActivatingHelpers, RecipeConstants
       DEF Activates, R!Step, Making, R!Kinds
  <2>10. CASE call.step = Activation + 2
    BY <1>1, <1>2, <2>1, <2>3, <2>10, ActivatingHelpers, RecipeConstants
       DEF Activates, R!Step, Making, R!Kinds
  <2>11. CASE call.step = Activation + 3
    BY <1>1, <1>2, <2>1, <2>3, <2>11, ActivatingHelpers, RecipeConstants
       DEF Activates, R!Step, Making, R!Kinds
  <2> QED
    BY <2>2, <2>4, <2>5, <2>6, <2>7, <2>8, <2>9, <2>10, <2>11
<1>3. CASE Lists
  <2>1. /\ Len(R!Steps(call.helper)) = 4 /\ R!Steps(call.helper)[1] = "stack"
        /\ R!Steps(call.helper)[2] = "await" /\ R!Steps(call.helper)[3] = "started"
        /\ R!Steps(call.helper)[4] = "awaitServices" /\ ~Activates
    BY <1>3, ListingHelper DEF Lists, Activates, R!HasRules
  <2>2. call.step \in {1, 2, 3, 4}
    BY <1>1, <2>1
  <2> QED
    BY <1>1, <1>3, <2>1, <2>2 DEF R!Step, Making, R!Kinds
<1>4. CASE ~Activates /\ ~Lists
  <2>1. FromStack(R!Steps(call.helper))
    BY <1>1, <1>4, PlainHelpers DEF Activates, Lists
  <2>2. Len(R!Steps(call.helper)) \in Nat
    BY <2>1 DEF FromStack
  <2>3. call.step \in 1 .. Len(R!Steps(call.helper))
    BY <1>1, <2>2
  <2>4. R!Step \in Plain /\ (call.step = 1 => R!Step = "stack")
    BY <2>1, <2>3, ElementOfSeq DEF FromStack, R!Step
  <2>5. R!Step \notin {"rules", "activate", "started", "awaitStack", "awaitServices", "awaitLb"}
    BY <2>4 DEF Plain, R!Kinds
  <2> QED
    BY <1>4, <2>2, <2>3, <2>4, <2>5
<1> QED
  BY <1>2, <1>3, <1>4

(* A helper raises an exception: nothing else changes. *)
LEMMA RecipeRaiseStep ==
  ASSUME RecipeInv, R!Raise, UNCHANGED <<made, rules, calls, late, reused>>, fewHosts' \in BOOLEAN,
         recipeFaults' \in 0 .. RecipeFaults, recipeFaults' >= recipeFaults,
         recipeFaults' > 0 \/ late \/ reused \/ fewHosts'
  PROVE  RecipeInv'
<1>1. RecipeTypes /\ RecipeCallInv /\ ShapeInv /\ StateInv /\ ActivatedInv
  BY DEF RecipeInv
<1>2. /\ call' \in RecipeStates /\ call.helper' = call.helper /\ call.step' = call.step
      /\ call.crosslinking' = call.crosslinking /\ call.shared' = call.shared /\ call.pc' = "raised"
  BY <1>1, RecipeRaises DEF RecipeTypes
<1>3. RecipeTypes'
  BY <1>1, <1>2 DEF RecipeTypes
<1>4. Activates' = Activates /\ Activated' = Activated /\ Lists' = Lists /\ HasListed' = HasListed
      /\ MadeIndexes' = MadeIndexes
  BY <1>2 DEF Activates, Activated, Lists, HasListed, MadeIndexes
<1>5. RecipeCallInv'
  <2>1. R!Steps(call.helper)' = R!Steps(call.helper)
    BY <1>2 DEF R!Steps
  <2> QED
    BY <1>1, <1>2, <1>4, <2>1 DEF RecipeCallInv
<1>6. ShapeInv'
  BY <1>1, <1>2, <1>4 DEF ShapeInv, IsLastStack
<1>7. StateInv'
  <2>1. recipeFaults \in Nat /\ recipeFaults' \in Nat
    BY <1>1, <1>3, RecipeConstants DEF RecipeTypes
  <2> QED
    BY <1>1, <1>4, <2>1 DEF StateInv, R!Settled
<1>8. ActivatedInv'
  BY <1>1, <1>2, <1>4 DEF ActivatedInv, OwnPart
<1> QED
  BY <1>2, <1>3, <1>5, <1>6, <1>7, <1>8 DEF RecipeInv, RulesInv, R!RaisesAreExplained

(* A helper goes on: what it has waited for holds. *)
WaitedFor ==
    /\ Activates /\ call.step = Activation - 1 => \A i \in MadeIndexes : made[i].state # "creating"
    /\ Activates /\ call.step = Activation + 1 => made[1].state # "activating"
    /\ Activates /\ call.step = Activation + 2 /\ ~call.crosslinking =>
          \A i \in MadeIndexes : OwnPart(i) /\ made[i].kind = "service" => made[i].state = "active"
    /\ Activates /\ call.step = Activation + 3 =>
          \A i \in MadeIndexes : OwnPart(i) /\ made[i].kind = "lb" => made[i].state = "active"

LEMMA RecipePassStep ==
  ASSUME RecipeInv, call.pc = "called", R!Advance, WaitedFor, R!Step \notin {"stack", "activate", "started"},
         UNCHANGED <<made, calls, late, reused, fewHosts, recipeFaults>>,
         rules' = rules \/ (rules' = "id" /\ R!Step = "rules")
  PROVE  RecipeInv'
<1>1. RecipeTypes /\ RecipeCallInv /\ ShapeInv /\ StateInv /\ ActivatedInv /\ RulesInv
  BY DEF RecipeInv
<1> DEFINE n == Len(R!Steps(call.helper))
<1>2. /\ n \in Nat /\ call.step \in 1 .. n /\ call.step # 1
      /\ Activates => n = Activation + 3 /\ call.step # Activation
      /\ Lists => n = 4 /\ call.step # 3
      /\ R!Step = "rules" => Activates /\ call.step = Activation - 3
  <2>1. /\ n \in Nat /\ call.step \in 1 .. n /\ (call.step = 1 => R!Step = "stack")
        /\ Activates => n = Activation + 3
        /\ Lists => n = 4
        /\ R!Step = "rules" => Activates /\ call.step = Activation - 3
    BY <1>1, WhereItIs
  <2>2. Activates /\ call.step = Activation => R!Step = "activate"
    BY ActivatingHelpers DEF Activates, R!Step
  <2>3. Lists /\ call.step = 3 => R!Step = "started"
    BY ListingHelper DEF Lists, R!Step
  <2> QED
    BY <2>1, <2>2, <2>3
<1>3. /\ call' \in RecipeStates /\ call.helper' = call.helper
      /\ call.crosslinking' = call.crosslinking /\ call.shared' = call.shared
      /\ call.step = n => call.pc' = "returned" /\ call.step' = call.step
      /\ call.step # n => call.pc' = "called" /\ call.step' = call.step + 1
  BY <1>1, RecipeAdvances DEF RecipeTypes
<1> HIDE DEF n
<1>4. RecipeTypes'
  BY <1>1, <1>3 DEF RecipeTypes
<1>5. Activates' = Activates /\ Lists' = Lists /\ MadeIndexes' = MadeIndexes
  BY <1>3 DEF Activates, Lists, MadeIndexes
<1>6. Activation \in Nat /\ call.step \in Nat /\ call.step' \in Nat /\ call.step <= n
  BY <1>2, <1>3, RecipeConstants
<1>7. RecipeCallInv'
  <2>1. R!Steps(call.helper)' = R!Steps(call.helper)
    BY <1>3 DEF R!Steps
  <2>2. call.step' <= n
    BY <1>2, <1>3, <1>6
  <2> QED
    BY <1>1, <1>3, <1>5, <2>1, <2>2 DEF RecipeCallInv, n
<1>8. ~Activated /\ ~HasListed => ~Activated' /\ ~HasListed'
  <2>1. Activates /\ call.step' > Activation => call.step > Activation
    BY <1>2, <1>3, <1>6
  <2>2. Lists /\ call.step' = 4 => call.step = 4
    BY <1>2, <1>3, <1>6
  <2> QED
    BY <1>5, <2>1, <2>2 DEF Activated, HasListed
<1>9. (Activated => Activated') /\ (HasListed <=> HasListed')
  <2>1. Activates /\ call.step > Activation => call.step' > Activation
    BY <1>3, <1>6
  <2>2. Lists => (call.step' = 4 <=> call.step = 4)
    BY <1>2, <1>3, <1>6
  <2> QED
    BY <1>5, <2>1, <2>2 DEF Activated, HasListed
<1>10. made # <<>>
  BY <1>1, <1>2, <1>6 DEF ShapeInv
<1>11. ShapeInv'
  BY <1>1, <1>5, <1>9, <1>10 DEF ShapeInv, IsLastStack
<1>12. Activated' => Activated
  BY <1>8, <1>9, <1>2 DEF Activated, HasListed, Lists, Activates, R!HasRules
<1>13. StateInv'
  BY <1>1, <1>5, <1>8, <1>9, <1>12 DEF StateInv, R!Settled
<1>14. ActivatedInv'
  <2>1. Activates /\ call.step' >= Activation => \A i \in MadeIndexes : made[i].state # "creating"
    <3>1. Activates /\ call.step' >= Activation => call.step >= Activation \/ call.step = Activation - 1
      BY <1>3, <1>6
    <3> QED
      BY <1>1, <3>1 DEF ActivatedInv, WaitedFor
  <2>2. Activated' => /\ made[1].state \in {"activating", "active", "error"}
                      /\ made[1].state = "active" /\ ~late =>
                            \A i \in MadeIndexes : OwnPart(i) => made[i].state # "inactive"
    BY <1>1, <1>12 DEF ActivatedInv
  <2>3. Activates /\ call.step' > Activation + 1 => made[1].state # "activating"
    <3>1. Activates /\ call.step' > Activation + 1 => call.step > Activation + 1 \/ call.step = Activation + 1
      BY <1>3, <1>6
    <3> QED
      BY <1>1, <3>1 DEF ActivatedInv, WaitedFor
  <2>4. Activates /\ call.step' > Activation + 2 /\ ~call.crosslinking =>
          \A i \in MadeIndexes : OwnPart(i) /\ made[i].kind = "service" => made[i].state = "active"
    <3>1. Activates /\ call.step' > Activation + 2 => call.step > Activation + 2 \/ call.step = Activation + 2
      BY <1>3, <1>6
    <3> QED
      BY <1>1, <3>1 DEF ActivatedInv, WaitedFor
  <2>5. Activates /\ call.pc' = "returned" => call.step' > Activation + 2 /\ call.step = Activation + 3
    BY <1>2, <1>3, <1>6
  <2>6. Activates /\ call.pc' = "returned" =>
          \A i \in MadeIndexes : OwnPart(i) /\ made[i].kind = "lb" => made[i].state = "active"
    BY <2>5 DEF WaitedFor
  <2> QED
    BY <1>3, <1>5, <2>1, <2>2, <2>3, <2>4, <2>5, <2>6 DEF ActivatedInv, OwnPart
<1>15. RulesInv'
  <2>1. CASE rules' = rules
    <3>1. call.pc' = "called" /\ call.step' < Activation - 2 => call.step < Activation - 2
      BY <1>3, <1>6
    <3> QED
      BY <1>1, <1>3, <2>1, <3>1 DEF RulesInv
  <2>2. CASE R!Step = "rules"
    <3>1. call.pc' = "called" => ~(call.step' < Activation - 2)
      BY <1>2, <1>3, <1>6, <2>2
    <3> QED
      BY <3>1 DEF RulesInv
  <2> QED
    BY <2>1, <2>2
<1>16. R!RaisesAreExplained'
  BY <1>3 DEF R!RaisesAreExplained
<1> QED
  BY <1>4, <1>7, <1>11, <1>13, <1>14, <1>15, <1>16 DEF RecipeInv

(* A wait: it passes, or what it waited for failed, or the server did late *)
(* what it was waited for, or a fault breaks it off.                       *)
LEMMA RecipeWaitStep ==
  ASSUME RecipeInv, call.pc = "called", NEW waited, NEW fine, R!Wait(waited, fine),
         R!Step \notin {"stack", "activate", "started"},
         waited \subseteq fine => WaitedFor,
         \A i \in waited \ (fine \cup R!Transitioning) : recipeFaults > 0 \/ late
  PROVE  RecipeInv'
<1>1. RecipeTypes
  BY DEF RecipeInv
<1>2. UNCHANGED <<made, rules, calls, late, reused, fewHosts>> /\ fewHosts' \in BOOLEAN
  BY <1>1 DEF R!Wait, RecipeTypes
<1>3. CASE waited \subseteq fine /\ R!Advance /\ R!NoFailure
  BY <1>2, <1>3, RecipePassStep DEF R!NoFailure
<1>4. CASE R!Raise /\ R!NoFailure /\ \E i \in waited \ (fine \cup R!Transitioning) : TRUE
  <2>1. recipeFaults' = recipeFaults /\ recipeFaults \in Nat
    BY <1>1, <1>4, RecipeConstants DEF R!NoFailure, RecipeTypes
  <2>2. recipeFaults > 0 \/ late
    BY <1>4
  <2> QED
    BY <1>1, <1>2, <1>4, <2>1, <2>2, RecipeRaiseStep DEF RecipeTypes
<1>5. CASE R!Raise /\ R!Fails
  <2>1. recipeFaults' = recipeFaults + 1 /\ recipeFaults \in Nat /\ recipeFaults < RecipeFaults
    BY <1>1, <1>5, RecipeConstants DEF R!Fails, RecipeTypes
  <2>2. recipeFaults' \in 0 .. RecipeFaults /\ recipeFaults' >= recipeFaults /\ recipeFaults' > 0
    BY <2>1, RecipeConstants
  <2> QED
    BY <1>2, <1>5, <2>2, RecipeRaiseStep
<1> QED
  BY <1>3, <1>4, <1>5 DEF R!Wait

LEMMA AwaitCreatedStep ==
  ASSUME RecipeInv, R!AwaitCreated
  PROVE  RecipeInv'
<1>1. call.pc = "called" /\ R!Step = "await" /\ R!Wait(DOMAIN made, R!Asserted)
  BY DEF R!AwaitCreated, R!At
<1>2. RecipeTypes /\ RecipeCallInv /\ StateInv
  BY DEF RecipeInv
<1>3. /\ Activates => call.step < Activation
      /\ Lists => call.step < 3
  BY <1>1, <1>2, WhereItIs
<1>4. call.step \in Nat /\ Activation \in Nat
  BY <1>2, RecipeConstants DEF RecipeTypes, RecipeStates
<1>5. ~Activated /\ ~HasListed
  BY <1>3, <1>4 DEF Activated, HasListed
<1>6. DOMAIN made \subseteq R!Asserted => WaitedFor
  <2> SUFFICES ASSUME DOMAIN made \subseteq R!Asserted PROVE WaitedFor
    OBVIOUS
  <2>1. \A i \in MadeIndexes : made[i].state # "creating"
    BY <1>2, MadeFacts DEF R!Asserted, R!Transitioning
  <2>2. ~(Activates /\ call.step \in {Activation + 1, Activation + 2, Activation + 3})
    BY <1>3, <1>4
  <2> QED
    BY <2>1, <2>2 DEF WaitedFor
<1>7. \A i \in DOMAIN made \ (R!Asserted \cup R!Transitioning) : recipeFaults > 0 \/ late
  <2> SUFFICES ASSUME NEW i \in DOMAIN made \ (R!Asserted \cup R!Transitioning) PROVE recipeFaults > 0
    OBVIOUS
  <2>1. i \in MadeIndexes /\ made[i].state # R!Settled(made[i].kind) /\ made[i].state # "creating"
    BY <1>2, MadeFacts DEF R!Asserted, R!Transitioning
  <2> QED
    BY <1>2, <1>5, <2>1 DEF StateInv
<1> QED
  BY <1>1, <1>6, <1>7, RecipeWaitStep

LEMMA AwaitStackStep ==
  ASSUME RecipeInv, R!AwaitStack
  PROVE  RecipeInv'
<1>1. call.pc = "called" /\ R!Step = "awaitStack" /\ R!Wait(R!MainStack, DOMAIN made \ R!Transitioning)
  BY DEF R!AwaitStack, R!At
<1>2. RecipeTypes /\ RecipeCallInv /\ ShapeInv
  BY DEF RecipeInv
<1>3. Activates /\ call.step = Activation + 1 /\ Activation \in Nat /\ Activated
  BY <1>1, <1>2, WhereItIs, RecipeConstants DEF Activated
<1>4. made # <<>> /\ 1 \in R!MainStack
  BY <1>2, <1>3, MadeFacts DEF ShapeInv, R!MainStack, R!OfMain
<1>5. R!MainStack \subseteq DOMAIN made \ R!Transitioning => WaitedFor
  <2> SUFFICES ASSUME R!MainStack \subseteq DOMAIN made \ R!Transitioning PROVE WaitedFor
    OBVIOUS
  <2>1. made[1].state # "activating"
    BY <1>4 DEF R!Transitioning
  <2>2. call.step \notin {Activation - 1, Activation + 2, Activation + 3}
    BY <1>3
  <2> QED
    BY <2>1, <2>2 DEF WaitedFor
<1>6. R!MainStack \ ((DOMAIN made \ R!Transitioning) \cup R!Transitioning) = {}
  BY DEF R!MainStack, R!OfMain
<1> DEFINE fine == DOMAIN made \ R!Transitioning
<1>7. R!Wait(R!MainStack, fine) /\ (R!MainStack \subseteq fine => WaitedFor)
      /\ \A i \in R!MainStack \ (fine \cup R!Transitioning) : recipeFaults > 0 \/ late
  BY <1>1, <1>5, <1>6
<1> HIDE DEF fine
<1> QED
  BY <1>1, <1>7, RecipeWaitStep

(* What is activated and neither active nor on its way there has failed,   *)
(* or its stack was done before it had begun.                              *)
LEMMA NotActive ==
  ASSUME RecipeInv, Activates, call.step > Activation + 1, NEW i \in MadeIndexes, OwnPart(i),
         made[i].state \notin {"active", "activating"}
  PROVE  recipeFaults > 0 \/ late
<1>1. RecipeTypes /\ StateInv /\ ActivatedInv /\ ShapeInv
  BY DEF RecipeInv
<1>2. call.step > Activation /\ call.step >= Activation
  <2>1. call.step \in Nat /\ Activation \in Nat
    BY <1>1, RecipeConstants DEF RecipeTypes, RecipeStates
  <2> QED
    BY <2>1
<1>3. 1 \in MadeIndexes
  BY <1>1, <1>2, MadeFacts DEF ShapeInv, Activated
<1>4. made[i].state \in {"inactive", "running", "error"}
  BY <1>1, <1>2, MadeFacts DEF ActivatedInv, MadeObjects, R!States
<1>5. made[i].state # "running"
  BY <1>1 DEF StateInv, OwnPart
<1>6. made[i].state = "inactive" /\ ~late => made[1].state = "error"
  BY <1>1, <1>2 DEF ActivatedInv, Activated
<1> QED
  BY <1>1, <1>3, <1>4, <1>5, <1>6 DEF StateInv

LEMMA AwaitServicesStep ==
  ASSUME RecipeInv, R!AwaitServices
  PROVE  RecipeInv'
<1> DEFINE waited == IF call.crosslinking THEN {} ELSE R!OfMain({"service"})
<1>1. call.pc = "called" /\ R!Step = "awaitServices" /\ R!Wait(waited, R!Active)
  BY DEF R!AwaitServices, R!At
<1>2. RecipeTypes /\ RecipeCallInv /\ StateInv
  BY DEF RecipeInv
<1>3. (Activates /\ call.step = Activation + 2) \/ (Lists /\ call.step = 4)
  BY <1>1, <1>2, WhereItIs
<1>4. Activation \in Nat /\ ~(Activates /\ Lists) /\ MadeIndexes = DOMAIN made
  BY <1>2, RecipeConstants, MadeFacts DEF Activates, Lists
<1>5. waited \subseteq R!Active => WaitedFor
  <2> SUFFICES ASSUME waited \subseteq R!Active PROVE WaitedFor
    OBVIOUS
  <2>1. ~call.crosslinking =>
           \A i \in MadeIndexes : OwnPart(i) /\ made[i].kind = "service" => made[i].state = "active"
    BY <1>4 DEF R!OfMain, R!Active, OwnPart
  <2>2. Activates => call.step \notin {Activation - 1, Activation + 1, Activation + 3}
    BY <1>3, <1>4
  <2> QED
    BY <2>1, <2>2 DEF WaitedFor
<1>6. \A i \in waited \ (R!Active \cup R!Transitioning) : recipeFaults > 0 \/ late
  <2> SUFFICES ASSUME NEW i \in waited \ (R!Active \cup R!Transitioning) PROVE recipeFaults > 0 \/ late
    OBVIOUS
  <2>1. /\ i \in MadeIndexes /\ OwnPart(i) /\ made[i].kind = "service"
        /\ made[i].state \notin {"active", "activating"}
    BY <1>4 DEF R!OfMain, R!Active, R!Transitioning, OwnPart
  <2>2. CASE Activates
    <3>1. call.step > Activation + 1
      BY <1>3, <1>4, <2>2
    <3> QED
      BY <2>1, <2>2, <3>1, NotActive
  <2>3. CASE Lists /\ call.step = 4
    BY <1>2, <2>1, <2>3 DEF StateInv, HasListed
  <2> QED
    BY <1>3, <2>2, <2>3
<1> HIDE DEF waited
<1> QED
  BY <1>1, <1>5, <1>6, RecipeWaitStep

LEMMA AwaitLbStep ==
  ASSUME RecipeInv, R!AwaitLb
  PROVE  RecipeInv'
<1> DEFINE waited == R!OfMain({"lb"})
<1>1. call.pc = "called" /\ R!Step = "awaitLb" /\ R!Wait(waited, R!Active)
  BY DEF R!AwaitLb, R!At
<1>2. RecipeTypes /\ RecipeCallInv
  BY DEF RecipeInv
<1>3. Activates /\ call.step = Activation + 3
  BY <1>1, <1>2, WhereItIs
<1>4. Activation \in Nat /\ MadeIndexes = DOMAIN made
  BY <1>2, RecipeConstants, MadeFacts
<1>5. waited \subseteq R!Active => WaitedFor
  <2> SUFFICES ASSUME waited \subseteq R!Active PROVE WaitedFor
    OBVIOUS
  <2>1. \A i \in MadeIndexes : OwnPart(i) /\ made[i].kind = "lb" => made[i].state = "active"
    BY <1>4 DEF R!OfMain, R!Active, OwnPart
  <2>2. call.step \notin {Activation - 1, Activation + 1, Activation + 2}
    BY <1>3, <1>4
  <2> QED
    BY <2>1, <2>2 DEF WaitedFor
<1>6. \A i \in waited \ (R!Active \cup R!Transitioning) : recipeFaults > 0 \/ late
  <2> SUFFICES ASSUME NEW i \in waited \ (R!Active \cup R!Transitioning) PROVE recipeFaults > 0 \/ late
    OBVIOUS
  <2>1. i \in MadeIndexes /\ OwnPart(i) /\ made[i].state \notin {"active", "activating"}
    BY <1>4 DEF R!OfMain, R!Active, R!Transitioning, OwnPart
  <2>2. call.step > Activation + 1
    BY <1>3, <1>4
  <2> QED
    BY <1>3, <2>1, <2>2, NotActive
<1> HIDE DEF waited
<1> QED
  BY <1>1, <1>5, <1>6, RecipeWaitStep

LEMMA OverrideStep ==
  ASSUME RecipeInv, R!Override
  PROVE  RecipeInv'
<1>1. /\ call.pc = "called" /\ R!Step = "rules" /\ UNCHANGED <<made, calls, late, reused, fewHosts, recipeFaults>>
  BY DEF R!Override, R!At
<1>2. RecipeTypes /\ RecipeCallInv /\ RulesInv
  BY DEF RecipeInv
<1>3. Activates /\ call.step = Activation - 3 /\ Activation \in Nat
  BY <1>1, <1>2, WhereItIs, RecipeConstants
<1>4. WaitedFor
  <2>1. call.step \notin {Activation - 1, Activation + 1, Activation + 2, Activation + 3}
    BY <1>3
  <2> QED
    BY <2>1 DEF WaitedFor
<1>5. CASE R!Advance
  <2>1. rules' = rules \/ (rules' = "id" /\ R!Step = "rules")
    BY <1>1 DEF R!Override
  <2> QED
    BY <1>1, <1>4, <1>5, <2>1, RecipePassStep
<1>6. CASE R!Raise /\ rules' = rules /\ call.shared /\ rules = "id"
  <2>1. call.step < Activation - 2
    BY <1>3
  <2>2. reused /\ recipeFaults' \in 0 .. RecipeFaults /\ recipeFaults' >= recipeFaults
        /\ fewHosts' \in BOOLEAN
    <3>1. recipeFaults \in 0 .. RecipeFaults /\ fewHosts \in BOOLEAN
      BY <1>2 DEF RecipeTypes
    <3> QED
      BY <1>1, <1>2, <1>6, <2>1, <3>1, RecipeConstants DEF RulesInv
  <2> QED
    BY <1>1, <1>6, <2>2, RecipeRaiseStep
<1> QED
  BY <1>5, <1>6 DEF R!Override

LEMMA RecipeFailStep ==
  ASSUME RecipeInv, R!Raise, R!Fails, UNCHANGED <<made, rules, calls, late, reused, fewHosts>>
  PROVE  RecipeInv'
<1>1. recipeFaults' = recipeFaults + 1 /\ recipeFaults \in Nat /\ recipeFaults < RecipeFaults
  BY RecipeConstants DEF R!Fails, RecipeTypes, RecipeInv
<1>2. recipeFaults' \in 0 .. RecipeFaults /\ recipeFaults' >= recipeFaults /\ recipeFaults' > 0
  BY <1>1, RecipeConstants
<1>3. fewHosts' \in BOOLEAN
  BY DEF RecipeTypes, RecipeInv
<1> QED
  BY <1>2, <1>3, RecipeRaiseStep

(* Something is made: it is the last of what is made. *)
LEMMA OneMore ==
  ASSUME RecipeTypes, NEW o \in MadeObjects, made' = Append(made, o)
  PROVE  /\ made' \in Seq(MadeObjects) /\ made' # <<>> /\ Len(made) \in Nat /\ Len(made') = Len(made) + 1
         /\ MadeIndexes' = MadeIndexes \cup {Len(made) + 1} /\ made'[Len(made) + 1] = o
         /\ \A i \in MadeIndexes : made'[i] = made[i]
<1>1. made \in Seq(MadeObjects) /\ Len(made) \in Nat
  BY DEF RecipeTypes
<1>2. made' \in Seq(MadeObjects) /\ Len(made') = Len(made) + 1
  BY <1>1
<1>3. MadeIndexes' = MadeIndexes \cup {Len(made) + 1}
  BY <1>1, <1>2 DEF MadeIndexes
<1>4. made'[Len(made) + 1] = o /\ \A i \in MadeIndexes : made'[i] = made[i]
  BY <1>1 DEF MadeIndexes
<1>5. made' # <<>>
  BY <1>1, <1>2
<1> QED
  BY <1>1, <1>2, <1>3, <1>4, <1>5

Created(o) == o.state = "creating" /\ (Lists => call.step = 1 /\ o.kind = "stack")
Listed(o) == Lists /\ call.step = 3 /\ o.kind = "service" /\ o.state \in {"activating", "active"}

LEMMA RecipeMakeStep ==
  ASSUME RecipeInv, call.pc = "called", NEW o \in MadeObjects, made' = Append(made, o), R!Advance,
         UNCHANGED <<rules, calls, late, reused, fewHosts, recipeFaults>>,
         o.kind = "stack" /\ o.main => made = <<>>,
         made = <<>> => o.kind = "stack" /\ o.main,
         Activates => call.step < Activation /\ call.step # Activation - 1,
         Created(o) \/ Listed(o)
  PROVE  RecipeInv'
<1>1. RecipeTypes /\ RecipeCallInv /\ ShapeInv /\ StateInv /\ ActivatedInv /\ RulesInv
  BY DEF RecipeInv
<1> DEFINE n == Len(R!Steps(call.helper))
           new == Len(made) + 1
<1>2. n \in Nat /\ call.step \in 1 .. n /\ (Activates => n = Activation + 3) /\ (Lists => n = 4)
  BY <1>1, WhereItIs
<1>3. /\ call' \in RecipeStates /\ call.helper' = call.helper
      /\ call.crosslinking' = call.crosslinking /\ call.shared' = call.shared
      /\ call.step = n => call.pc' = "returned" /\ call.step' = call.step
      /\ call.step # n => call.pc' = "called" /\ call.step' = call.step + 1
  BY <1>1, RecipeAdvances DEF RecipeTypes
<1>4. /\ made' \in Seq(MadeObjects) /\ made' # <<>> /\ Len(made) \in Nat /\ Len(made') = new
      /\ MadeIndexes' = MadeIndexes \cup {new} /\ made'[new] = o
      /\ \A i \in MadeIndexes : made'[i] = made[i]
  BY <1>1, OneMore
<1> HIDE DEF n
<1>5. RecipeTypes'
  BY <1>1, <1>3, <1>4 DEF RecipeTypes
<1>6. Activates' = Activates /\ Lists' = Lists
  BY <1>3 DEF Activates, Lists
<1>7. Activation \in Nat /\ call.step \in Nat /\ call.step' \in Nat /\ call.step <= n
  BY <1>2, <1>3, RecipeConstants
<1>8. RecipeCallInv'
  <2>1. R!Steps(call.helper)' = R!Steps(call.helper)
    BY <1>3 DEF R!Steps
  <2>2. call.step' <= n
    BY <1>2, <1>3, <1>7
  <2> QED
    BY <1>1, <1>3, <1>6, <2>1, <2>2 DEF RecipeCallInv, n
<1>9. Activates => ~(call.step' >= Activation) /\ ~(call.step' > Activation) /\ call.pc' # "returned"
                   /\ ~(call.step' > Activation + 1) /\ ~(call.step' > Activation + 2)
                   /\ ~(call.step > Activation)
  BY <1>2, <1>3, <1>7
<1>10. ~Activated /\ ~Activated'
  BY <1>6, <1>9 DEF Activated
<1>11. Lists => call.step # 4 /\ (Created(o) => call.step' # 4) /\ (Listed(o) => call.step' = 4)
  BY <1>2, <1>3, <1>7 DEF Created, Listed
<1>12. Created(o) => ~HasListed /\ ~HasListed'
  BY <1>6, <1>11 DEF HasListed
<1>13. Listed(o) => ~HasListed /\ HasListed'
  BY <1>6, <1>11 DEF HasListed, Listed
<1>14. ShapeInv'
  <2>1. made'[1].kind = "stack" /\ made'[1].main
    <3>1. CASE made = <<>>
      <4>1. new = 1
        BY <3>1
      <4> QED
        BY <1>4, <3>1, <4>1
    <3>2. CASE made # <<>>
      BY <1>1, <1>4, <3>2, MadeFacts DEF ShapeInv
    <3> QED
      BY <3>1, <3>2
  <2>2. \E i \in MadeIndexes' : IsLastStack(i)'
    <3>1. CASE o.kind = "stack"
      <4>1. new + 1 .. new = {}
        BY <1>4
      <4> QED
        BY <1>4, <3>1, <4>1 DEF IsLastStack
    <3>2. CASE o.kind # "stack"
      <4>1. PICK i \in MadeIndexes : IsLastStack(i)
        BY <1>1, <3>2 DEF ShapeInv
      <4>2. \A j \in i + 1 .. new : j = new \/ (j \in MadeIndexes /\ j \in i + 1 .. Len(made))
        BY <1>4 DEF MadeIndexes
      <4>3. \A j \in i + 1 .. new : made'[j].kind # "stack"
        BY <1>4, <3>2, <4>1, <4>2 DEF IsLastStack
      <4> QED
        BY <1>4, <4>1, <4>3 DEF IsLastStack
    <3> QED
      BY <3>1, <3>2
  <2>3. \A i \in MadeIndexes' : made'[i].kind = "stack" /\ made'[i].main => i = 1
    <3> SUFFICES ASSUME NEW i \in MadeIndexes', made'[i].kind = "stack", made'[i].main PROVE i = 1
      OBVIOUS
    <3>1. made = <<>> => new = 1
      OBVIOUS
    <3>2. CASE i \in MadeIndexes
      <4>1. made'[i] = made[i]
        BY <1>4, <3>2
      <4> QED
        BY <1>1, <3>2, <4>1 DEF ShapeInv
    <3>3. CASE i = new
      <4>1. made'[i] = o
        BY <1>4, <3>3
      <4> QED
        BY <3>1, <3>3, <4>1
    <3> QED
      BY <1>4, <3>2, <3>3
  <2>4. Lists' /\ ~HasListed' => \A i \in MadeIndexes' : made'[i].kind # "service"
    <3> SUFFICES ASSUME Lists, ~HasListed' PROVE \A i \in MadeIndexes' : made'[i].kind # "service"
      BY <1>6
    <3>1. Created(o) /\ o.kind = "stack" /\ ~HasListed
      BY <1>12, <1>13 DEF Created
    <3> QED
      BY <1>1, <1>4, <3>1 DEF ShapeInv
  <2> QED
    BY <1>4, <2>1, <2>2, <2>3, <2>4 DEF ShapeInv
<1>15. StateInv'
  <2>1. \A i \in MadeIndexes' : /\ made'[i].state = "error" => recipeFaults > 0
                                /\ made'[i].state = "running" => made'[i].kind = "container"
    <3> SUFFICES ASSUME NEW i \in MadeIndexes'
                 PROVE  /\ made'[i].state = "error" => recipeFaults > 0
                        /\ made'[i].state = "running" => made'[i].kind = "container"
      OBVIOUS
    <3>1. CASE i \in MadeIndexes
      <4>1. made'[i] = made[i]
        BY <1>4, <3>1
      <4> QED
        BY <1>1, <3>1, <4>1 DEF StateInv
    <3>2. CASE i = new
      <4>1. made'[i] = o /\ o.state \in {"creating", "activating", "active"}
        BY <1>4, <3>2 DEF Created, Listed
      <4> QED
        BY <4>1
    <3> QED
      BY <1>4, <3>1, <3>2
  <2>2. CASE Created(o)
    <3>1. \A i \in MadeIndexes' : made'[i].state \in {"creating", R!Settled(made'[i].kind), "error"}
      <4> SUFFICES ASSUME NEW i \in MadeIndexes'
                   PROVE  made'[i].state \in {"creating", R!Settled(made'[i].kind), "error"}
        OBVIOUS
      <4>1. CASE i \in MadeIndexes
        <5>1. made'[i] = made[i]
          BY <1>4, <4>1
        <5>2. made[i].state \in {"creating", R!Settled(made[i].kind), "error"}
          BY <1>1, <1>10, <1>12, <2>2, <4>1 DEF StateInv
        <5> QED
          BY <5>1, <5>2
      <4>2. CASE i = new
        <5>1. made'[i].state = "creating"
          BY <1>4, <2>2, <4>2 DEF Created
        <5> QED
          BY <5>1
      <4> QED
        BY <1>4, <4>1, <4>2
    <3>2. \A i \in MadeIndexes' : R!Settled(made'[i].kind) = R!Settled(made[i].kind)'
      BY DEF R!Settled
    <3> QED
      BY <1>12, <2>1, <2>2, <3>1, <3>2 DEF StateInv
  <2>3. CASE Listed(o)
    <3>1. Lists /\ ~HasListed
      BY <1>13, <2>3 DEF Listed
    <3>2. \A i \in MadeIndexes' : made'[i].kind = "service" => i = new
      BY <1>1, <1>4, <3>1 DEF ShapeInv
    <3> QED
      BY <1>4, <1>13, <2>1, <2>3, <3>2 DEF StateInv, Listed
  <2> QED
    BY <2>2, <2>3
<1>16. ActivatedInv'
  BY <1>6, <1>9, <1>10 DEF ActivatedInv
<1>17. RulesInv'
  <2>1. call.pc' = "called" /\ call.step' < Activation - 2 => call.step < Activation - 2
    BY <1>3, <1>7
  <2> QED
    BY <1>1, <1>3, <2>1 DEF RulesInv
<1>18. R!RaisesAreExplained'
  BY <1>3 DEF R!RaisesAreExplained
<1> QED
  BY <1>5, <1>8, <1>14, <1>15, <1>16, <1>17, <1>18 DEF RecipeInv

LEMMA RecipeCreateStep ==
  ASSUME RecipeInv, R!Create
  PROVE  RecipeInv'
<1>1. /\ call.pc = "called" /\ R!Step \in Making /\ R!Step \in R!Kinds \cup {"own"}
      /\ UNCHANGED <<rules, calls, late, reused, fewHosts>>
  BY DEF R!Create, R!At, Making
<1>2. RecipeTypes /\ RecipeCallInv /\ ShapeInv
  BY DEF RecipeInv
<1>3. /\ Activates => call.step < Activation /\ call.step # Activation - 3 /\ call.step # Activation - 1
      /\ Lists => call.step = 1
      /\ call.step = 1 => R!Step = "stack"
  BY <1>1, <1>2, WhereItIs
<1>4. call.step \in Nat \ {0} /\ Activation \in Nat
  BY <1>2, RecipeConstants DEF RecipeTypes, RecipeStates
<1> DEFINE kind == IF R!Step = "own" THEN "stack" ELSE R!Step
           o == [kind |-> kind, main |-> R!InMain(kind), state |-> "creating"]
<1>5. CASE made' = Append(made, o) /\ R!Advance /\ R!NoFailure
  <2>1. kind \in R!Kinds
    BY <1>1 DEF R!Kinds
  <2>2. kind = "stack" => R!InMain(kind) = (made = <<>>)
    BY DEF R!InMain
  <2>3. made = <<>> => kind = "stack"
    BY <1>1, <1>2, <1>3, <1>4 DEF ShapeInv
  <2>4. R!InMain(kind) \in BOOLEAN
    <3>1. CASE kind = "service"
      <4>1. PICK i \in MadeIndexes : IsLastStack(i)
        BY <1>2, <2>3, <3>1 DEF ShapeInv
      <4>2. i \in DOMAIN made /\ made[i].kind = "stack" /\ \A j \in i + 1 .. Len(made) : made[j].kind # "stack"
        BY <1>2, <4>1, MadeFacts DEF IsLastStack
      <4>3. R!LastStack \in DOMAIN made
        BY <4>2 DEF R!LastStack
      <4>4. made[R!LastStack].main \in BOOLEAN
        BY <1>2, <4>3, MadeFacts DEF MadeObjects
      <4> QED
        BY <3>1, <4>4 DEF R!InMain
    <3>2. CASE kind # "service"
      BY <3>2 DEF R!InMain
    <3> QED
      BY <3>1, <3>2
  <2>5. o \in MadeObjects /\ o.kind = kind /\ o.main = R!InMain(kind) /\ o.state = "creating"
    BY <2>1, <2>4 DEF MadeObjects, R!States
  <2>6. Lists => kind = "stack"
    BY <1>3
  <2> HIDE DEF o
  <2>7. Created(o)
    BY <1>3, <2>5, <2>6 DEF Created
  <2> QED
    BY <1>1, <1>3, <1>5, <2>2, <2>3, <2>5, <2>7, RecipeMakeStep DEF R!NoFailure
<1>6. CASE R!Step = "own" /\ R!Advance /\ made' = made /\ R!NoFailure
  <2>1. call.step \notin {Activation - 1, Activation + 1, Activation + 2, Activation + 3} \/ ~Activates
    BY <1>3, <1>4
  <2>2. WaitedFor
    BY <2>1 DEF WaitedFor
  <2> QED
    BY <1>1, <1>6, <2>2, RecipePassStep DEF R!NoFailure
<1>7. CASE R!Raise /\ R!Fails /\ made' = made
  BY <1>1, <1>7, RecipeFailStep
<1> QED
  BY <1>5, <1>6, <1>7 DEF R!Create

LEMMA ListHostsStep ==
  ASSUME RecipeInv, R!ListHosts
  PROVE  RecipeInv'
<1>1. call.pc = "called" /\ R!Step = "hosts" /\ UNCHANGED <<made, rules, calls, late, reused>>
  BY DEF R!ListHosts, R!At
<1>2. RecipeTypes /\ RecipeCallInv /\ R!Step \in Making
  BY <1>1 DEF RecipeInv, Making
<1>3. Activates => call.step < Activation /\ call.step # Activation - 1
  BY <1>1, <1>2, WhereItIs
<1>4. call.step \in Nat \ {0} /\ Activation \in Nat
  BY <1>2, RecipeConstants DEF RecipeTypes, RecipeStates
<1>5. CASE R!Advance /\ R!NoFailure /\ fewHosts' = fewHosts
  <2>1. call.step \notin {Activation - 1, Activation + 1, Activation + 2, Activation + 3} \/ ~Activates
    BY <1>3, <1>4
  <2>2. WaitedFor
    BY <2>1 DEF WaitedFor
  <2> QED
    BY <1>1, <1>5, <2>2, RecipePassStep DEF R!NoFailure
<1>6. CASE R!Raise /\ R!NoFailure /\ fewHosts' = TRUE
  <2>1. recipeFaults' \in 0 .. RecipeFaults /\ recipeFaults' >= recipeFaults
    BY <1>2, <1>6, RecipeConstants DEF RecipeTypes, R!NoFailure
  <2> QED
    BY <1>1, <1>6, <2>1, RecipeRaiseStep
<1>7. CASE R!Raise /\ R!Fails /\ fewHosts' = fewHosts
  BY <1>1, <1>7, RecipeFailStep
<1> QED
  BY <1>5, <1>6, <1>7 DEF R!ListHosts

LEMMA ListServicesStep ==
  ASSUME RecipeInv, R!ListServices
  PROVE  RecipeInv'
<1>1. /\ call.pc = "called" /\ R!Step = "started" /\ R!Advance
      /\ UNCHANGED <<rules, calls, late, reused, fewHosts, recipeFaults>>
  BY DEF R!ListServices, R!At
<1>2. RecipeTypes /\ RecipeCallInv /\ ShapeInv
  BY DEF RecipeInv
<1>3. Lists /\ call.step = 3 /\ ~Activates
  BY <1>1, <1>2, WhereItIs, RecipeConstants DEF Lists, Activates
<1>4. PICK state \in {"activating", "active"} :
         made' = Append(made, [kind |-> "service", main |-> TRUE, state |-> state])
  BY DEF R!ListServices
<1> DEFINE o == [kind |-> "service", main |-> TRUE, state |-> state]
<1>5. o \in MadeObjects /\ o.kind = "service" /\ o.state = state
  BY DEF MadeObjects, R!Kinds, R!States
<1>6. made # <<>>
  BY <1>1, <1>2, <1>3 DEF ShapeInv
<1>7. made' = Append(made, o)
  BY <1>4
<1> HIDE DEF o
<1>8. Listed(o)
  BY <1>3, <1>5 DEF Listed
<1> QED
  BY <1>1, <1>3, <1>5, <1>6, <1>7, <1>8, RecipeMakeStep

(* What is made stays what it is, whatever its state becomes. *)
SameThings == /\ made' \in Seq(MadeObjects) /\ MadeIndexes' = MadeIndexes /\ Len(made') = Len(made)
              /\ \A i \in MadeIndexes : made'[i].kind = made[i].kind /\ made'[i].main = made[i].main

LEMMA ShapeStays ==
  ASSUME RecipeTypes, ShapeInv, SameThings,
         Activates' = Activates, Lists' = Lists, HasListed' => HasListed, HasListed => HasListed',
         call.pc' = "called" /\ call.step' > 1 => made # <<>>, Activated' => made # <<>>
  PROVE  ShapeInv'
<1>1. made = <<>> <=> made' = <<>>
  BY DEF SameThings, RecipeTypes
<1>2. made # <<>> => 1 \in MadeIndexes
  BY MadeFacts
<1>3. \A i \in MadeIndexes : IsLastStack(i) => IsLastStack(i)'
  <2> SUFFICES ASSUME NEW i \in MadeIndexes, IsLastStack(i) PROVE IsLastStack(i)'
    OBVIOUS
  <2>1. \A j \in i + 1 .. Len(made) : j \in MadeIndexes
    BY MadeFacts DEF MadeIndexes
  <2> QED
    BY <2>1 DEF SameThings, IsLastStack
<1>4. made' # <<>> => made'[1].kind = "stack" /\ made'[1].main /\ \E i \in MadeIndexes' : IsLastStack(i)'
  <2> SUFFICES ASSUME made' # <<>>
               PROVE  made'[1].kind = "stack" /\ made'[1].main /\ \E i \in MadeIndexes' : IsLastStack(i)'
    OBVIOUS
  <2>1. made[1].kind = "stack" /\ made[1].main /\ \E i \in MadeIndexes : IsLastStack(i)
    BY <1>1 DEF ShapeInv
  <2> QED
    BY <1>1, <1>2, <1>3, <2>1 DEF SameThings
<1>5. \A i \in MadeIndexes' : made'[i].kind = "stack" /\ made'[i].main => i = 1
  BY DEF SameThings, ShapeInv
<1>6. Lists' /\ ~HasListed' => \A i \in MadeIndexes' : made'[i].kind # "service"
  BY DEF SameThings, ShapeInv
<1> QED
  BY <1>1, <1>4, <1>5, <1>6 DEF ShapeInv

LEMMA ActivateStep ==
  ASSUME RecipeInv, R!Activate
  PROVE  RecipeInv'
<1>1. call.pc = "called" /\ R!Step = "activate" /\ UNCHANGED <<rules, calls, late, reused, fewHosts>>
  BY DEF R!Activate, R!At
<1>2. RecipeTypes /\ RecipeCallInv /\ ShapeInv /\ StateInv /\ ActivatedInv
  BY DEF RecipeInv
<1> DEFINE n == Len(R!Steps(call.helper))
<1>3. Activates /\ call.step = Activation /\ n = Activation + 3 /\ Activation \in Nat /\ Activation >= 10
  BY <1>1, <1>2, WhereItIs, RecipeConstants
<1>4. ~Lists
  BY <1>3, RecipeConstants DEF Lists, Activates
<1>5. CASE R!Raise /\ R!Fails /\ made' = made
  BY <1>1, <1>5, RecipeFailStep
<1>6. CASE /\ made' = [i \in DOMAIN made |-> IF i \in R!MainStack
                                             THEN [made[i] EXCEPT !.state = "activating"] ELSE made[i]]
           /\ R!Advance /\ R!NoFailure
  <2>1. /\ call' \in RecipeStates /\ call.helper' = call.helper
        /\ call.crosslinking' = call.crosslinking /\ call.shared' = call.shared
        /\ call.pc' = "called" /\ call.step' = Activation + 1
    <3>1. call.step # n
      BY <1>3
    <3>2. /\ call' \in RecipeStates /\ call.helper' = call.helper
          /\ call.crosslinking' = call.crosslinking /\ call.shared' = call.shared
          /\ call.pc' = call.pc /\ call.step' = call.step + 1
      BY <1>2, <1>6, <3>1, RecipeAdvances DEF RecipeTypes
    <3> QED
      BY <1>1, <1>3, <3>2
  <2> HIDE DEF n
  <2>2. \A i \in MadeIndexes : /\ made'[i] \in MadeObjects /\ made'[i].kind = made[i].kind
                               /\ made'[i].main = made[i].main
                               /\ made'[i].state = (IF i \in R!MainStack THEN "activating" ELSE made[i].state)
    <3> SUFFICES ASSUME NEW i \in MadeIndexes
                 PROVE  /\ made'[i] \in MadeObjects /\ made'[i].kind = made[i].kind
                        /\ made'[i].main = made[i].main
                        /\ made'[i].state = (IF i \in R!MainStack THEN "activating" ELSE made[i].state)
      OBVIOUS
    <3>1. i \in DOMAIN made /\ made[i] \in MadeObjects
      BY <1>2, MadeFacts
    <3>2. CASE i \in R!MainStack
      <4>1. made'[i] = [made[i] EXCEPT !.state = "activating"]
        BY <1>6, <3>1, <3>2
      <4> QED
        BY <3>1, <3>2, <4>1 DEF MadeObjects, R!States
    <3>3. CASE i \notin R!MainStack
      BY <1>6, <3>1, <3>3
    <3> QED
      BY <3>2, <3>3
  <2>3. SameThings
    <3>1. made' = [i \in MadeIndexes |-> made'[i]]
      BY <1>2, <1>6, MadeFacts
    <3>2. made' \in [1 .. Len(made) -> MadeObjects] /\ Len(made) \in Nat
      BY <1>2, <2>2, <3>1, MadeFacts DEF MadeIndexes
    <3>3. made' \in Seq(MadeObjects) /\ Len(made') = Len(made)
      BY <3>2, SeqDef
    <3> QED
      BY <2>2, <3>3 DEF SameThings, MadeIndexes
  <2>4. RecipeTypes'
    BY <1>1, <1>2, <1>6, <2>1, <2>3 DEF RecipeTypes, SameThings, R!NoFailure
  <2>5. Activates' /\ ~Lists' /\ Activated' /\ ~HasListed' /\ ~HasListed
    BY <1>3, <1>4, <2>1 DEF Activates, Lists, Activated, HasListed
  <2>6. RecipeCallInv'
    <3>1. R!Steps(call.helper)' = R!Steps(call.helper)
      BY <2>1 DEF R!Steps
    <3>2. call.step' <= n
      BY <1>3, <2>1 DEF n
    <3> QED
      BY <1>2, <1>3, <2>1, <2>5, <3>1, <3>2 DEF RecipeCallInv, n
  <2>7. made # <<>> /\ 1 \in MadeIndexes /\ 1 \in R!MainStack
    BY <1>1, <1>2, <1>3, MadeFacts DEF ShapeInv, R!MainStack, R!OfMain
  <2>8. ShapeInv'
    <3>1. Activates' = Activates /\ Lists' = Lists
      BY <2>1 DEF Activates, Lists
    <3> QED
      BY <1>2, <2>3, <2>5, <2>7, <3>1, ShapeStays
  <2>9. StateInv'
    <3>1. ASSUME NEW i \in MadeIndexes
          PROVE  /\ made'[i].state = "error" => recipeFaults > 0
                 /\ made'[i].state = "running" => made'[i].kind = "container"
      <4>1. made'[i].state = "activating" \/ made'[i].state = made[i].state
        BY <2>2
      <4> QED
        BY <1>2, <2>2, <4>1 DEF StateInv
    <3> QED
      BY <1>6, <2>3, <2>5, <3>1 DEF StateInv, SameThings, R!NoFailure
  <2>10. ActivatedInv'
    <3>1. \A i \in MadeIndexes' : made'[i].state # "creating"
      <4>1. call.step >= Activation
        BY <1>3
      <4> QED
        BY <1>2, <1>3, <2>2, <2>3, <4>1 DEF ActivatedInv, SameThings
    <3>2. made'[1].state = "activating"
      BY <2>2, <2>7
    <3>3. ~(call.step' > Activation + 1) /\ ~(call.step' > Activation + 2)
      BY <1>3, <2>1
    <3> QED
      BY <2>1, <3>1, <3>2, <3>3 DEF ActivatedInv
  <2>11. RulesInv' /\ R!RaisesAreExplained'
    <3>1. ~(call.step' < Activation - 2)
      BY <1>3, <2>1
    <3> QED
      BY <2>1, <3>1 DEF RulesInv, R!RaisesAreExplained
  <2> QED
    BY <2>4, <2>6, <2>8, <2>9, <2>10, <2>11 DEF RecipeInv
<1> QED
  BY <1>5, <1>6 DEF R!Activate

LEMMA Becoming ==
  ASSUME RecipeTypes, NEW i \in MadeIndexes, NEW state \in R!States, R!Becomes(i, state)
  PROVE  /\ SameThings /\ made'[i].state = state
         /\ \A j \in MadeIndexes \ {i} : made'[j] = made[j]
<1> DEFINE o == [made[i] EXCEPT !.state = state]
<1>1. made[i] \in MadeObjects /\ Len(made) \in Nat /\ made \in Seq(MadeObjects)
  BY MadeFacts DEF RecipeTypes
<1>2. o \in MadeObjects /\ o.kind = made[i].kind /\ o.main = made[i].main /\ o.state = state
  BY <1>1 DEF MadeObjects
<1>3. made' = [made EXCEPT ![i] = o]
  BY DEF R!Becomes
<1> HIDE DEF o
<1>4. /\ made' \in Seq(MadeObjects) /\ Len(made') = Len(made)
      /\ \A j \in 1 .. Len(made) : made'[j] = IF j = i THEN o ELSE made[j]
  BY <1>1, <1>2, <1>3, ExceptSeq DEF MadeIndexes
<1> QED
  BY <1>2, <1>4 DEF SameThings, MadeIndexes

(* Only the helpers that activate have such a step. *)
LEMMA ActivateIsLate ==
  ASSUME NEW h \in R!Helpers, NEW s \in 1 .. Len(R!Steps(h)), R!Steps(h)[s] = "activate"
  PROVE  h \in R!HasRules /\ s = Activation
<1>1. CASE h \in R!HasRules
  <2>1. Len(R!Steps(h)) = Activation + 3 /\ Activation \in Nat /\ Activation >= 10
    BY <1>1, ActivatingHelpers, RecipeConstants
  <2>2. s \in 1 .. Activation - 4 \/ s \in {Activation - 3, Activation - 2, Activation - 1,
           Activation, Activation + 1, Activation + 2, Activation + 3}
    BY <2>1
  <2>3. s \notin 1 .. Activation - 4
    BY <1>1, ActivatingHelpers DEF Plain, R!Kinds
  <2> QED
    BY <1>1, <2>2, <2>3, ActivatingHelpers
<1>2. CASE h = "stack_with_service"
  <2>1. s \in {1, 2, 3, 4}
    BY <1>2, ListingHelper
  <2> QED
    BY <1>2, <2>1, ListingHelper
<1>3. CASE h \notin R!HasRules \cup {"stack_with_service"}
  <2>1. R!Steps(h)[s] \in Plain
    BY <1>3, PlainHelpers, ElementOfSeq DEF FromStack
  <2> QED
    BY <2>1 DEF Plain, R!Kinds
<1> QED
  BY <1>1, <1>2, <1>3

(* The server: an object settles, a service begins, an object is done, or fails. *)
Settles(i) == made[i].state = "creating" /\ R!Becomes(i, R!Settled(made[i].kind))
              /\ UNCHANGED <<late, recipeFaults>>
Begins(i) == /\ OwnPart(i) /\ made[i].state = "inactive" /\ Activated
             /\ R!Becomes(i, "activating") /\ UNCHANGED <<late, recipeFaults>>
LateNow(i) == made[i].kind = "stack" /\ \E s \in MadeIndexes : OwnPart(s) /\ made[s].state = "inactive"
Finishes(i) == /\ made[i].state = "activating" /\ R!Becomes(i, "active") /\ recipeFaults' = recipeFaults
               /\ late' = (late \/ LateNow(i))
Errs(i) == /\ made[i].state \in {"creating", "activating"} /\ R!Becomes(i, "error")
           /\ recipeFaults < RecipeFaults /\ recipeFaults' = recipeFaults + 1 /\ late' = late

LEMMA RecipeServerStep ==
  ASSUME RecipeInv, R!Server
  PROVE  RecipeInv'
<1>1. UNCHANGED <<call, rules, calls, reused, fewHosts>>
  BY DEF R!Server
<1>2. /\ RecipeTypes /\ RecipeCallInv /\ ShapeInv /\ StateInv /\ ActivatedInv /\ RulesInv
      /\ R!RaisesAreExplained
  BY DEF RecipeInv
<1>3. DOMAIN made = MadeIndexes /\ \A i \in MadeIndexes : made[i] \in MadeObjects
  BY <1>2, MadeFacts
<1>4. call.step \in Nat \ {0} /\ Activation \in Nat /\ recipeFaults \in Nat /\ RecipeFaults \in Nat
  BY <1>2, RecipeConstants DEF RecipeTypes, RecipeStates
<1>5. Activates' = Activates /\ Lists' = Lists /\ Activated' = Activated /\ HasListed' = HasListed
  BY <1>1 DEF Activates, Lists, Activated, HasListed
<1>6. PICK i \in MadeIndexes : Settles(i) \/ Begins(i) \/ Finishes(i) \/ Errs(i)
  <2>1. ASSUME call.step > 1, "activate" \in {R!Steps(call.helper)[s] : s \in 1 .. call.step - 1}
        PROVE  Activated
    <3>1. PICK s \in 1 .. call.step - 1 : R!Steps(call.helper)[s] = "activate"
      BY <2>1
    <3>2. call.helper \in R!Helpers /\ call.step <= Len(R!Steps(call.helper))
      BY <1>2, <2>1 DEF RecipeCallInv
    <3>3. Len(R!Steps(call.helper)) \in Nat
      BY <3>2, StepsAreMany
    <3>4. s \in 1 .. Len(R!Steps(call.helper)) /\ s < call.step
      BY <1>4, <3>2, <3>3
    <3>5. call.helper \in R!HasRules /\ s = Activation
      BY <3>1, <3>2, <3>4, ActivateIsLate
    <3> QED
      BY <1>4, <3>4, <3>5 DEF Activated, Activates
  <2>2. \A s : s \in R!OfMain({"service", "lb"}) <=> s \in MadeIndexes /\ OwnPart(s)
    BY <1>3 DEF R!OfMain, OwnPart
  <2>3. PICK i \in MadeIndexes :
          \/ /\ made[i].state = "creating" /\ R!NoFailure /\ UNCHANGED late
             /\ R!Becomes(i, R!Settled(made[i].kind))
          \/ /\ i \in R!OfMain({"service", "lb"}) /\ made[i].state = "inactive"
             /\ call.step > 1 /\ "activate" \in {R!Steps(call.helper)[s] : s \in 1 .. call.step - 1}
             /\ R!Becomes(i, "activating") /\ R!NoFailure /\ UNCHANGED late
          \/ /\ made[i].state = "activating" /\ R!Becomes(i, "active") /\ R!NoFailure
             /\ late' = (late \/ (made[i].kind = "stack" /\
                                     \E s \in R!OfMain({"service", "lb"}) : made[s].state = "inactive"))
          \/ /\ made[i].state \in {"creating", "activating"} /\ R!Becomes(i, "error") /\ R!Fails
             /\ UNCHANGED late
    BY <1>3 DEF R!Server
  <2>4. (\E s \in R!OfMain({"service", "lb"}) : made[s].state = "inactive")
        <=> \E s \in MadeIndexes : OwnPart(s) /\ made[s].state = "inactive"
    BY <2>2
  <2> QED
    BY <2>1, <2>2, <2>3, <2>4 DEF Settles, Begins, Finishes, LateNow, Errs, R!NoFailure, R!Fails
<1>7. PICK state \in R!States : R!Becomes(i, state)
  <2>1. R!Settled(made[i].kind) \in R!States
    BY DEF R!Settled, R!States
  <2> QED
    BY <1>6, <2>1 DEF Settles, Begins, Finishes, Errs, R!States
<1>8. SameThings /\ made'[i].state = state /\ \A j \in MadeIndexes \ {i} : made'[j] = made[j]
  BY <1>2, <1>7, Becoming
<1>9. /\ Settles(i) => made'[i].state = R!Settled(made[i].kind)
      /\ Begins(i) => made'[i].state = "activating"
      /\ Finishes(i) => made'[i].state = "active"
      /\ Errs(i) => made'[i].state = "error"
  <2>1. R!Settled(made[i].kind) \in R!States /\ {"activating", "active", "error"} \subseteq R!States
    BY DEF R!Settled, R!States
  <2> QED
    BY <1>2, <2>1, Becoming DEF Settles, Begins, Finishes, Errs
<1>10. recipeFaults' \in 0 .. RecipeFaults /\ (recipeFaults > 0 => recipeFaults' > 0)
       /\ (Errs(i) => recipeFaults' > 0) /\ late' \in BOOLEAN /\ (late => late')
  <2>1. recipeFaults \in 0 .. RecipeFaults /\ late \in BOOLEAN
    BY <1>2 DEF RecipeTypes
  <2>2. late' \in BOOLEAN /\ (late => late')
    BY <1>6, <2>1 DEF Settles, Begins, Finishes, Errs
  <2>3. recipeFaults' = recipeFaults \/ (recipeFaults < RecipeFaults /\ recipeFaults' = recipeFaults + 1)
    BY <1>6 DEF Settles, Begins, Finishes, Errs
  <2>4. Errs(i) => recipeFaults' = recipeFaults + 1
    BY DEF Errs
  <2> QED
    BY <1>4, <2>1, <2>2, <2>3, <2>4
<1>11. RecipeTypes' /\ RecipeCallInv' /\ RulesInv' /\ R!RaisesAreExplained'
  <2>1. RecipeTypes'
    BY <1>1, <1>2, <1>8, <1>10 DEF RecipeTypes, SameThings
  <2>2. RecipeCallInv'
    <3>1. R!Steps(call.helper)' = R!Steps(call.helper)
      BY <1>1 DEF R!Steps
    <3> QED
      BY <1>1, <1>2, <1>5, <3>1 DEF RecipeCallInv
  <2> QED
    BY <1>1, <1>2, <1>10, <2>1, <2>2 DEF RulesInv, R!RaisesAreExplained
<1>12. ShapeInv'
  BY <1>1, <1>2, <1>5, <1>8, ShapeStays DEF ShapeInv
<1>13. \A j \in MadeIndexes : OwnPart(j)' = OwnPart(j)
  BY <1>8 DEF OwnPart, SameThings
<1>14. \A j \in MadeIndexes : made'[j].kind = made[j].kind /\ (j # i => made'[j].state = made[j].state)
  BY <1>8 DEF SameThings
<1>15. StateInv'
  <2>1. ASSUME NEW j \in MadeIndexes
        PROVE  /\ made'[j].state = "error" => recipeFaults' > 0
               /\ made'[j].state = "running" => made'[j].kind = "container"
    <3>1. CASE j # i
      BY <1>2, <1>10, <1>14, <3>1 DEF StateInv
    <3>2. CASE j = i
      BY <1>6, <1>9, <1>10, <1>14, <3>2 DEF R!Settled
    <3> QED
      BY <3>1, <3>2
  <2>2. ASSUME ~Activated, ~HasListed, NEW j \in MadeIndexes
        PROVE  made'[j].state \in {"creating", R!Settled(made'[j].kind), "error"}
    <3>1. \A k \in MadeIndexes : made[k].state \in {"creating", R!Settled(made[k].kind), "error"}
      BY <1>2, <2>2 DEF StateInv
    <3>2. CASE j # i
      BY <1>14, <3>1, <3>2
    <3>3. CASE j = i
      <4>1. made[i].state # "activating"
        BY <3>1 DEF R!Settled
      <4>2. Settles(i) \/ Errs(i)
        BY <1>6, <2>2, <4>1 DEF Begins, Finishes
      <4> QED
        BY <1>9, <1>14, <3>3, <4>2
    <3> QED
      BY <3>2, <3>3
  <2>3. ASSUME HasListed, NEW j \in MadeIndexes, made[j].kind = "service"
        PROVE  made'[j].state \in {"activating", "active", "error"}
    <3>1. made[j].state \in {"activating", "active", "error"}
      BY <1>2, <2>3 DEF StateInv
    <3>2. CASE j # i
      BY <1>14, <3>1, <3>2
    <3>3. CASE j = i
      <4>1. ~Settles(i)
        BY <3>1, <3>3 DEF Settles
      <4> QED
        BY <1>6, <1>9, <3>3, <4>1
    <3> QED
      BY <3>2, <3>3
  <2>4. MadeIndexes' = MadeIndexes /\ \A j \in MadeIndexes : R!Settled(made[j].kind)' = R!Settled(made'[j].kind)
    BY <1>8 DEF SameThings, R!Settled
  <2> QED
    BY <1>5, <1>14, <2>1, <2>2, <2>3, <2>4 DEF StateInv
<1>16. ActivatedInv'
  <2>1. ASSUME Activates, call.step >= Activation, NEW j \in MadeIndexes
        PROVE  made'[j].state # "creating" /\ ~Settles(i)
    <3>1. \A k \in MadeIndexes : made[k].state # "creating"
      BY <1>2, <2>1 DEF ActivatedInv
    <3>2. ~Settles(i)
      BY <3>1 DEF Settles
    <3> QED
      BY <1>6, <1>9, <1>14, <3>1, <3>2
  <2>2. ASSUME Activated
        PROVE  /\ made'[1].state \in {"activating", "active", "error"}
               /\ made[1].state # "activating" => made'[1].state # "activating"
               /\ made'[1].state = "active" /\ ~late' =>
                     \A j \in MadeIndexes : OwnPart(j) => made'[j].state # "inactive"
    <3>1. 1 \in MadeIndexes /\ made[1].kind = "stack" /\ ~OwnPart(1)
      BY <1>2, <2>2, MadeFacts DEF ShapeInv, OwnPart
    <3>2. ~Settles(i)
      <4>1. Activates /\ call.step >= Activation
        BY <1>4, <2>2 DEF Activated
      <4> QED
        BY <2>1, <4>1
    <3>3. /\ made[1].state \in {"activating", "active", "error"}
          /\ made[1].state = "active" /\ ~late =>
                 \A j \in MadeIndexes : OwnPart(j) => made[j].state # "inactive"
      BY <1>2, <2>2 DEF ActivatedInv
    <3>4. /\ made'[1].state \in {"activating", "active", "error"}
          /\ made[1].state # "activating" => made'[1].state # "activating"
      <4>1. CASE i = 1
        <5>1. ~Begins(i)
          BY <3>1, <4>1 DEF Begins
        <5> QED
          BY <1>6, <1>9, <3>2, <4>1, <5>1
      <4>2. CASE i # 1
        BY <1>14, <3>1, <3>3, <4>2
      <4> QED
        BY <4>1, <4>2
    <3>5. ASSUME made'[1].state = "active", ~late', NEW j \in MadeIndexes, OwnPart(j)
          PROVE  made'[j].state # "inactive"
      <4>1. made[j].state # "inactive"
        <5>1. CASE i = 1
          <6>1. Finishes(i) \/ Begins(i)
            BY <1>6, <1>9, <3>2, <3>5, <5>1
          <6>2. Finishes(i) /\ ~LateNow(i)
            BY <3>1, <3>5, <5>1, <6>1 DEF Begins, Finishes
          <6> QED
            BY <3>1, <3>5, <5>1, <6>2 DEF LateNow
        <5>2. CASE i # 1
          BY <1>10, <1>14, <3>1, <3>3, <3>5, <5>2
        <5> QED
          BY <5>1, <5>2
      <4> QED
        BY <1>6, <1>9, <1>14, <3>2, <4>1
    <3> QED
      BY <3>4, <3>5
  <2>3. ASSUME NEW j \in MadeIndexes, made[j].state = "active"
        PROVE  made'[j].state = "active"
    <3>1. CASE j = i
      BY <1>6, <2>3, <3>1 DEF Settles, Begins, Finishes, Errs
    <3> QED
      BY <1>14, <2>3, <3>1
  <2>4. Activates /\ call.step > Activation + 1 => made'[1].state # "activating"
    <3>1. Activates /\ call.step > Activation + 1 => Activated /\ made[1].state # "activating"
      BY <1>2, <1>4 DEF ActivatedInv, Activated
    <3> QED
      BY <2>2, <3>1
  <2>5. Activates /\ call.step > Activation + 2 /\ ~call.crosslinking =>
          \A j \in MadeIndexes : OwnPart(j) /\ made[j].kind = "service" => made'[j].state = "active"
    BY <1>2, <2>3 DEF ActivatedInv
  <2>6. Activates /\ call.pc = "returned" =>
          /\ call.step > Activation + 2
          /\ \A j \in MadeIndexes : OwnPart(j) /\ made[j].kind = "lb" => made'[j].state = "active"
    BY <1>2, <2>3 DEF ActivatedInv
  <2>7. MadeIndexes' = MadeIndexes
    BY <1>8 DEF SameThings
  <2> QED
    BY <1>1, <1>5, <1>13, <1>14, <2>1, <2>2, <2>4, <2>5, <2>6, <2>7 DEF ActivatedInv
<1> QED
  BY <1>11, <1>12, <1>15, <1>16 DEF RecipeInv

LEMMA CallRecipeStep ==
  ASSUME RecipeInv, R!CallHelper
  PROVE  RecipeInv'
<1>1. RecipeTypes
  BY DEF RecipeInv
<1>2. PICK h \in R!Helpers, crosslinking \in BOOLEAN, shared \in BOOLEAN :
          /\ crosslinking => h \in R!CanCrosslink
          /\ shared => h \in R!HasRules
          /\ call' = [helper |-> h, pc |-> "called", step |-> 1,
                      crosslinking |-> crosslinking, shared |-> shared]
          /\ reused' = (shared /\ rules = "id")
  BY DEF R!CallHelper
<1>3. made' = <<>> /\ late' = FALSE /\ fewHosts' = FALSE /\ rules' = rules /\ recipeFaults' = recipeFaults
      /\ calls < RecipeCalls /\ calls' = calls + 1
  BY DEF R!CallHelper
<1>4. RecipeTypes'
  <2>1. call' \in RecipeStates
    BY <1>2 DEF RecipeStates
  <2>2. calls' \in 0 .. RecipeCalls
    BY <1>1, <1>3, RecipeConstants DEF RecipeTypes
  <2>3. made' \in Seq(MadeObjects)
    BY <1>3, EmptySeq
  <2>4. reused' \in BOOLEAN /\ late' \in BOOLEAN /\ fewHosts' \in BOOLEAN
    BY <1>2, <1>3
  <2> QED
    BY <1>1, <1>3, <2>1, <2>2, <2>3, <2>4 DEF RecipeTypes
<1>5. MadeIndexes' = {} /\ ~Activated' /\ ~HasListed'
  BY <1>2, <1>3, RecipeConstants DEF MadeIndexes, Activated, HasListed
<1>6. RecipeCallInv'
  <2>1. R!Steps(call.helper)' = R!Steps(h)
    BY <1>2 DEF R!Steps
  <2>2. Len(R!Steps(h)) \in Nat /\ 1 <= Len(R!Steps(h))
    BY StepsAreMany
  <2> QED
    BY <1>2, <2>1, <2>2 DEF RecipeCallInv, Activates
<1>7. ~(call.step' >= Activation) /\ ~(call.step' > Activation + 1) /\ ~(call.step' > Activation + 2)
      /\ call.pc' = "called" /\ ~(call.step' > 1)
  BY <1>2, RecipeConstants
<1> QED
  BY <1>2, <1>3, <1>4, <1>5, <1>6, <1>7 DEF RecipeInv, ShapeInv, StateInv, ActivatedInv, RulesInv,
     R!RaisesAreExplained

LEMMA RecipeStep ==
  ASSUME RecipeInv, [R!Next]_recipes
  PROVE  RecipeInv'
<1>1. CASE R!CallHelper
  BY <1>1, CallRecipeStep
<1>2. CASE R!Create
  BY <1>2, RecipeCreateStep
<1>3. CASE R!AwaitCreated
  BY <1>3, AwaitCreatedStep
<1>4. CASE R!Override
  BY <1>4, OverrideStep
<1>5. CASE R!Activate
  BY <1>5, ActivateStep
<1>6. CASE R!ListServices
  BY <1>6, ListServicesStep
<1>7. CASE R!AwaitStack
  BY <1>7, AwaitStackStep
<1>8. CASE R!AwaitServices
  BY <1>8, AwaitServicesStep
<1>9. CASE R!AwaitLb
  BY <1>9, AwaitLbStep
<1>10. CASE R!Server
  BY <1>10, RecipeServerStep
<1>12. CASE R!ListHosts
  BY <1>12, ListHostsStep
<1>11. CASE UNCHANGED recipes
  <2>1. UNCHANGED <<made, call, rules, calls, late, reused, fewHosts, recipeFaults>>
    BY <1>11 DEF recipes
  <2>2. /\ Activates' = Activates /\ Activated' = Activated /\ Lists' = Lists /\ HasListed' = HasListed
        /\ MadeIndexes' = MadeIndexes /\ R!Steps(call.helper)' = R!Steps(call.helper)
    BY <2>1 DEF Activates, Activated, Lists, HasListed, MadeIndexes, R!Steps
  <2>3. RecipeTypes' /\ RecipeCallInv' /\ RulesInv' /\ R!RaisesAreExplained'
    BY <2>1, <2>2 DEF RecipeInv, RecipeTypes, RecipeCallInv, RulesInv, R!RaisesAreExplained
  <2>4. ShapeInv'
    BY <2>1, <2>2 DEF RecipeInv, ShapeInv, IsLastStack
  <2>5. StateInv'
    BY <2>1, <2>2 DEF RecipeInv, StateInv, R!Settled
  <2>6. ActivatedInv'
    BY <2>1, <2>2 DEF RecipeInv, ActivatedInv, OwnPart
  <2> QED
    BY <2>3, <2>4, <2>5, <2>6 DEF RecipeInv
<1> QED
  BY <1>1, <1>2, <1>3, <1>4, <1>5, <1>6, <1>7, <1>8, <1>9, <1>10, <1>11, <1>12 DEF R!Next

-----------------------------------------------------------------------------
(* The fixtures of a service and its load balancer                         *)

ServicePlaces == {"called", "acted", "active", "maps", "read", "inspect", "running",
                  "access", "first", "again", "returned", "raised"}
ServiceOps == {"none", "activate", "scale", "stop", "delete", "restart", "deactivate", "balancer"}
ServiceCalls == [op : ServiceOps, pc : ServicePlaces, todo : SUBSET F!All, seen : SUBSET F!All,
                 order : Seq(F!All), sent : 0 .. Extra]
ContainerStates == {"none", "starting", "running", "stopping", "stopped", "removing"}

ServiceTypes ==
    /\ service \in {"inactive", "activating", "active", "updating", "deactivating"}
    /\ con \in [F!All -> ContainerStates]
    /\ backends \in Seq(F!All) /\ turn \in Nat \ {0} /\ reloaded \in BOOLEAN
    /\ helper \in ServiceCalls

(* The server creates no more containers than the scale asks for.          *)
NoMoreThanScale == Cardinality(F!Mapped(Containers)) <= Scale

(* What a helper waits for is not stopped: no other deactivates.           *)
Restoring == helper.op \in F!Ops \cup {"scale"}
NotStopped == Restoring => service # "deactivating"

(* The containers that run already, or are still to be found running, are  *)
(* as many as the scale: those that run go on.                             *)
AsManyAsScale ==
    /\ helper.op \in F!Ops /\ helper.pc = "called" => helper.todo \subseteq F!Running(Containers)
    /\ helper.op \in F!Ops => helper.seen \subseteq Containers
    /\ helper.op \in F!Ops /\ helper.pc = "read" => helper.todo \subseteq Containers
    /\ helper.op \in F!Ops /\ helper.pc = "inspect" =>
          /\ helper.todo \subseteq Containers
          /\ Cardinality(F!Running(Containers) \cup helper.todo) >= Scale
    /\ helper.op \in F!Ops /\ helper.pc = "returned" => Cardinality(F!Running(Containers)) >= Scale
    /\ helper.op = "scale" /\ helper.pc = "running" => Cardinality(F!Running(F!All) \cup helper.todo) >= Scale
    /\ helper.op = "scale" /\ helper.pc = "returned" => Cardinality(F!Running(F!All)) >= Scale

(* The load balancer takes its containers in turn, each of them once.      *)
TurnIsOne ==
    /\ backends # <<>> => turn \in 1 .. Len(backends)
    /\ \A i, j \in 1 .. Len(backends) : backends[i] = backends[j] => i = j
After(i) == IF i < Len(backends) THEN i + 1 ELSE 1
Takes == {backends[i] : i \in 1 .. Len(backends)}
Answered == {helper.order[i] : i \in 1 .. Len(helper.order)}
Balancing(pc) == helper.op = "balancer" /\ helper.pc = pc

(* Those that answered did so one after the other, up to the turn; the     *)
(* request that repeats the first answer has come round to where the       *)
(* answers began, so that all have answered.                               *)
OneAfterTheOther ==
    /\ Answered \subseteq Takes
    /\ \A i \in 1 .. Len(backends) :
          backends[i] \in Answered => After(i) = turn \/ backends[After(i)] \in Answered
RoundRobin ==
    /\ Balancing("called") => helper.order = <<>> /\ helper.sent = 0
    /\ Balancing("access") => /\ helper.order = <<>> /\ helper.sent = 0
                              /\ Cardinality(helper.todo) >= Scale
    /\ Balancing("first") => /\ helper.sent = 0
                             /\ Cardinality(helper.todo \cup Answered) >= Scale
                             /\ ~reloaded => OneAfterTheOther
    /\ Balancing("again") => /\ Cardinality(Answered) >= Scale
                             /\ ~reloaded => IF helper.sent = 0 THEN OneAfterTheOther ELSE Answered = Takes
    /\ Balancing("returned") => /\ Cardinality(Answered) >= Scale
                                /\ ~reloaded => Answered = Takes

ServiceInv == /\ ServiceTypes /\ NoMoreThanScale /\ NotStopped /\ AsManyAsScale /\ TurnIsOne /\ RoundRobin

LEMMA ServiceConstants ==
  /\ Scale \in Nat \ {0} /\ Extra \in Nat \ {0} /\ IsFiniteSet(F!All) /\ F!All = Containers \cup Unmanaged
  /\ \A X : F!Cardinality(X) = Cardinality(X)
<1>1. IsFiniteSet(F!All)
  BY ServiceBounds DEF F!Bounds, F!All, F!IsFiniteSet, IsFiniteSet
<1>2. \A X : F!Cardinality(X) = Cardinality(X)
  BY DEF F!Cardinality, Cardinality, F!IsFiniteSet, IsFiniteSet
<1> QED
  BY <1>1, <1>2, ServiceBounds DEF F!Bounds, F!All

LEMMA Counts ==
  ASSUME NEW X \in SUBSET F!All
  PROVE  IsFiniteSet(X) /\ Cardinality(X) \in Nat
  BY ServiceConstants, FS_Subset, FS_CardinalityType

LEMMA AsMany ==
  ASSUME NEW X, NEW Y \in SUBSET F!All, X \subseteq Y
  PROVE  /\ Cardinality(X) <= Cardinality(Y)
         /\ Cardinality(X) >= Scale => Cardinality(Y) >= Scale
<1>1. X \in SUBSET F!All
  OBVIOUS
<1>2. Cardinality(X) <= Cardinality(Y)
  BY Counts, FS_Subset
<1>3. Cardinality(X) \in Nat /\ Cardinality(Y) \in Nat /\ Scale \in Nat
  BY <1>1, Counts, ServiceConstants
<1> QED
  BY <1>2, <1>3

LEMMA ListsAreKnown ==
  ASSUME NEW X \in SUBSET F!All
  PROVE  F!Running(X) \in SUBSET X /\ F!Mapped(X) \in SUBSET X /\ F!Running(X) \in SUBSET F!Mapped(X)
  BY DEF F!Running, F!Mapped

LEMMA ServiceGoto ==
  ASSUME ServiceTypes, NEW pc \in ServicePlaces, F!Goto(pc)
  PROVE  /\ helper' \in ServiceCalls /\ helper.op' = helper.op /\ helper.pc' = pc
         /\ helper.todo' = helper.todo /\ helper.seen' = helper.seen
         /\ helper.order' = helper.order /\ helper.sent' = helper.sent
  BY DEF ServiceTypes, ServiceCalls, F!Goto

(* A helper goes on and changes nothing of the cluster. *)
LEMMA OnlyHelper ==
  ASSUME ServiceInv, F!ServerOnly, helper' \in ServiceCalls, helper.op' = helper.op
  PROVE  /\ ServiceTypes' /\ NoMoreThanScale' /\ NotStopped' /\ TurnIsOne'
         /\ \A X : F!Running(X)' = F!Running(X) /\ F!Mapped(X)' = F!Mapped(X)
<1>1. ServiceTypes /\ NoMoreThanScale /\ NotStopped /\ TurnIsOne
  BY DEF ServiceInv
<1>2. service' = service /\ con' = con /\ backends' = backends /\ turn' = turn /\ reloaded' = reloaded
  BY DEF F!ServerOnly
<1>3. \A X : F!Running(X)' = F!Running(X) /\ F!Mapped(X)' = F!Mapped(X)
  BY <1>2 DEF F!Running, F!Mapped
<1>4. ServiceTypes'
  BY <1>1, <1>2 DEF ServiceTypes
<1> QED
  BY <1>1, <1>2, <1>3, <1>4 DEF NoMoreThanScale, NotStopped, TurnIsOne, Restoring

(* It gives up, or goes to a place where nothing is said of what it found. *)
LEMMA ServiceIdle ==
  ASSUME ServiceInv, F!ServerOnly, NEW pc \in {"raised", "acted", "active", "maps"}, F!Goto(pc)
  PROVE  ServiceInv'
<1>1. /\ helper' \in ServiceCalls /\ helper.op' = helper.op /\ helper.pc' = pc /\ helper.seen' = helper.seen
  BY ServiceGoto DEF ServiceInv, ServicePlaces
<1>2. AsManyAsScale' /\ RoundRobin'
  BY <1>1 DEF ServiceInv, AsManyAsScale, RoundRobin, Balancing
<1> QED
  BY <1>1, <1>2, OnlyHelper DEF ServiceInv

(* A helper that neither restores the service nor asks the balancer. *)
LEMMA OtherServiceStep ==
  ASSUME ServiceInv, helper.op \notin F!Ops \cup {"scale", "balancer"},
         UNCHANGED <<con, backends, turn, reloaded>>,
         service' \in {"inactive", "activating", "active", "updating", "deactivating"},
         NEW pc \in ServicePlaces, F!Goto(pc)
  PROVE  ServiceInv'
<1>1. ServiceTypes /\ NoMoreThanScale /\ TurnIsOne
  BY DEF ServiceInv
<1>2. /\ helper' \in ServiceCalls /\ helper.op' = helper.op /\ helper.pc' = pc
  BY <1>1, ServiceGoto
<1>3. ServiceTypes'
  BY <1>1, <1>2 DEF ServiceTypes
<1>4. NoMoreThanScale' /\ TurnIsOne'
  BY <1>1 DEF NoMoreThanScale, TurnIsOne, F!Mapped
<1>5. NotStopped' /\ AsManyAsScale' /\ RoundRobin'
  BY <1>2 DEF NotStopped, Restoring, AsManyAsScale, RoundRobin, Balancing
<1> QED
  BY <1>3, <1>4, <1>5 DEF ServiceInv

LEMMA ActivateSvcStep ==
  ASSUME ServiceInv, F!activate_svc \/ F!Deactivate \/ F!wait_until_instances_get_stopped
  PROVE  ServiceInv'
<1>1. helper.op \notin F!Ops \cup {"scale", "balancer"} /\ UNCHANGED <<con, backends, turn, reloaded>>
  BY DEF F!activate_svc, F!Deactivate, F!wait_until_instances_get_stopped, F!At, F!Wait, F!ServerOnly, F!Ops
<1>2. service' \in {"inactive", "activating", "active", "updating", "deactivating"}
  BY DEF F!activate_svc, F!Deactivate, F!wait_until_instances_get_stopped, F!Wait, F!ServerOnly,
         ServiceInv, ServiceTypes
<1>3. \E pc \in {"acted", "returned", "raised"} : F!Goto(pc)
  BY DEF F!activate_svc, F!Deactivate, F!wait_until_instances_get_stopped, F!Wait
<1> QED
  BY <1>1, <1>2, <1>3, OtherServiceStep DEF ServicePlaces

-----------------------------------------------------------------------------
LEMMA WaitScaleStep ==
  ASSUME ServiceInv, F!WaitScale
  PROVE  ServiceInv'
<1>1. helper.op = "scale" /\ helper.op \notin F!Ops /\ F!ServerOnly
  BY DEF F!WaitScale, F!At, F!Wait, F!Ops
<1>2. CASE \E pc \in {"raised", "acted", "maps"} : F!Goto(pc)
  BY <1>1, <1>2, ServiceIdle
<1>3. ASSUME NEW X \in {Containers, F!All}, F!Adjusted(X)
      PROVE  ServiceInv'
  <2>1. X \in SUBSET F!All
    BY <1>3, ServiceConstants
  <2>2. F!Mapped(X) \in SUBSET F!All /\ Cardinality(F!Mapped(X)) = Scale
    BY <1>3, <2>1, ListsAreKnown, ServiceConstants DEF F!Adjusted
  <2>3. helper' = [helper EXCEPT !.pc = "running", !.todo = F!Mapped(X)]
    BY <1>3 DEF F!Adjusted
  <2>4. /\ helper' \in ServiceCalls /\ helper.op' = helper.op /\ helper.pc' = "running"
        /\ helper.todo' = F!Mapped(X)
    BY <2>2, <2>3 DEF ServiceInv, ServiceTypes, ServiceCalls, ServicePlaces
  <2>5. \A Y : F!Running(Y)' = F!Running(Y)
    BY <1>1, <2>4, OnlyHelper
  <2>6. Cardinality(F!Running(F!All) \cup F!Mapped(X)) >= Scale
    <3>1. F!Running(F!All) \cup F!Mapped(X) \in SUBSET F!All
      BY <2>2, ListsAreKnown
    <3>2. F!Mapped(X) \subseteq F!Running(F!All) \cup F!Mapped(X) /\ Cardinality(F!Mapped(X)) >= Scale
      BY <2>2, ServiceConstants
    <3> QED
      BY <3>1, <3>2, AsMany
  <2>7. AsManyAsScale'
    BY <1>1, <2>4, <2>5, <2>6 DEF AsManyAsScale
  <2>8. RoundRobin'
    BY <1>1, <2>4 DEF RoundRobin, Balancing
  <2> QED
    BY <1>1, <2>4, <2>7, <2>8, OnlyHelper DEF ServiceInv
<1> QED
  BY <1>2, <1>3 DEF F!WaitScale, F!Wait

LEMMA WaitRunningStep ==
  ASSUME ServiceInv, F!WaitRunning
  PROVE  ServiceInv'
<1>1. helper.op = "scale" /\ helper.op \notin F!Ops /\ helper.pc = "running" /\ F!ServerOnly
  BY DEF F!WaitRunning, F!At, F!Ops
<1>2. ServiceTypes /\ Cardinality(F!Running(F!All) \cup helper.todo) >= Scale
  BY <1>1 DEF ServiceInv, AsManyAsScale
<1>3. CASE F!Goto("raised")
  BY <1>1, <1>3, ServiceIdle
<1>4. ASSUME NEW c \in helper.todo, con[c] = "running", helper' = [helper EXCEPT !.todo = @ \ {c}]
      PROVE  ServiceInv'
  <2>1. c \in F!All
    BY <1>2 DEF ServiceTypes, ServiceCalls
  <2>2. /\ helper' \in ServiceCalls /\ helper.op' = helper.op /\ helper.pc' = "running"
        /\ helper.todo' = helper.todo \ {c}
    BY <1>1, <1>2, <1>4 DEF ServiceTypes, ServiceCalls
  <2>3. \A Y : F!Running(Y)' = F!Running(Y)
    BY <1>1, <2>2, OnlyHelper
  <2>4. F!Running(F!All) \cup (helper.todo \ {c}) = F!Running(F!All) \cup helper.todo
    BY <1>4, <2>1 DEF F!Running
  <2>5. AsManyAsScale'
    BY <1>1, <1>2, <2>2, <2>3, <2>4 DEF AsManyAsScale
  <2>6. RoundRobin'
    BY <1>1, <2>2 DEF RoundRobin, Balancing
  <2> QED
    BY <1>1, <2>2, <2>5, <2>6, OnlyHelper DEF ServiceInv
<1>5. CASE helper.todo = {} /\ F!Goto("returned")
  <2>1. helper' \in ServiceCalls /\ helper.op' = helper.op /\ helper.pc' = "returned"
    BY <1>2, <1>5, ServiceGoto DEF ServicePlaces
  <2>2. \A Y : F!Running(Y)' = F!Running(Y)
    BY <1>1, <2>1, OnlyHelper
  <2>3. F!Running(F!All) \cup helper.todo = F!Running(F!All)
    BY <1>5
  <2>4. AsManyAsScale'
    BY <1>1, <1>2, <2>1, <2>2, <2>3 DEF AsManyAsScale
  <2>5. RoundRobin'
    BY <1>1, <2>1 DEF RoundRobin, Balancing
  <2> QED
    BY <1>1, <2>1, <2>4, <2>5, OnlyHelper DEF ServiceInv
<1> QED
  BY <1>3, <1>4, <1>5 DEF F!WaitRunning

-----------------------------------------------------------------------------
LEMMA AwaitInstanceStep ==
  ASSUME ServiceInv, F!AwaitInstance
  PROVE  ServiceInv'
<1>1. helper.op \in F!Ops /\ helper.op \notin {"scale", "balancer"} /\ F!ServerOnly
  BY DEF F!AwaitInstance, F!At, F!Ops
<1>2. CASE F!Goto("raised")
  BY <1>1, <1>2, ServiceIdle
<1>3. CASE helper' = [helper EXCEPT !.pc = "active", !.todo = {}]
  <2>1. /\ helper' \in ServiceCalls /\ helper.op' = helper.op /\ helper.pc' = "active"
        /\ helper.seen' = helper.seen
    BY <1>3 DEF ServiceInv, ServiceTypes, ServiceCalls, ServicePlaces
  <2>2. AsManyAsScale' /\ RoundRobin'
    BY <1>1, <2>1 DEF ServiceInv, AsManyAsScale, RoundRobin, Balancing
  <2> QED
    BY <1>1, <2>1, <2>2, OnlyHelper DEF ServiceInv
<1> QED
  BY <1>2, <1>3 DEF F!AwaitInstance

LEMMA ListContainersStep ==
  ASSUME ServiceInv, F!ListContainers
  PROVE  ServiceInv'
<1>1. helper.op \in F!Ops /\ helper.op \notin {"scale", "balancer"} /\ F!ServerOnly
  BY DEF F!ListContainers, F!At, F!Wait, F!Ops
<1>2. CASE \E pc \in {"raised", "maps"} : F!Goto(pc)
  BY <1>1, <1>2, ServiceIdle
<1>3. CASE helper.pc = "maps" /\ helper' = [helper EXCEPT !.pc = "read", !.todo = F!Mapped(Containers)]
  <2>1. F!Mapped(Containers) \in SUBSET Containers /\ Containers \in SUBSET F!All
    BY ServiceConstants DEF F!Mapped
  <2>2. /\ helper' \in ServiceCalls /\ helper.op' = helper.op /\ helper.pc' = "read"
        /\ helper.todo' = F!Mapped(Containers) /\ helper.seen' = helper.seen
    BY <1>3, <2>1 DEF ServiceInv, ServiceTypes, ServiceCalls, ServicePlaces
  <2>3. AsManyAsScale' /\ RoundRobin'
    BY <1>1, <2>1, <2>2 DEF ServiceInv, AsManyAsScale, RoundRobin, Balancing
  <2> QED
    BY <1>1, <2>2, <2>3, OnlyHelper DEF ServiceInv
<1> QED
  BY <1>2, <1>3 DEF F!ListContainers, F!Wait, F!At

LEMMA ReadContainerStep ==
  ASSUME ServiceInv, F!ReadContainer
  PROVE  ServiceInv'
<1>1. helper.op \in F!Ops /\ helper.op \notin {"scale", "balancer"} /\ helper.pc = "read" /\ F!ServerOnly
  <2>1. F!At(F!Ops, "read") /\ F!ServerOnly
    BY Zenon DEF F!ReadContainer
  <2> QED
    BY <2>1 DEF F!At, F!Ops
<1>2. ServiceTypes /\ helper.todo \subseteq Containers /\ helper.seen \subseteq Containers
      /\ Containers \in SUBSET F!All
  BY <1>1, ServiceConstants DEF ServiceInv, AsManyAsScale
<1>3. CASE F!Goto("raised")
  BY <1>1, <1>3, ServiceIdle
<1>4. ASSUME NEW c \in helper.todo, helper' = [helper EXCEPT !.todo = @ \ {c}, !.seen = @ \cup {c}]
      PROVE  ServiceInv'
  <2>1. /\ helper' \in ServiceCalls /\ helper.op' = helper.op /\ helper.pc' = "read"
        /\ helper.todo' = helper.todo \ {c} /\ helper.seen' = helper.seen \cup {c}
    BY <1>1, <1>2, <1>4 DEF ServiceTypes, ServiceCalls
  <2>2. AsManyAsScale' /\ RoundRobin'
    BY <1>1, <1>2, <2>1 DEF AsManyAsScale, RoundRobin, Balancing
  <2> QED
    BY <1>1, <2>1, <2>2, OnlyHelper DEF ServiceInv
<1>5. CASE /\ F!Cardinality(helper.seen) = Scale
           /\ helper' = [helper EXCEPT !.pc = "inspect", !.todo = helper.seen]
  <2>1. /\ helper' \in ServiceCalls /\ helper.op' = helper.op /\ helper.pc' = "inspect"
        /\ helper.todo' = helper.seen /\ helper.seen' = helper.seen
    BY <1>2, <1>5 DEF ServiceTypes, ServiceCalls, ServicePlaces
  <2>2. \A Y : F!Running(Y)' = F!Running(Y)
    BY <1>1, <2>1, OnlyHelper
  <2>3. Cardinality(F!Running(Containers) \cup helper.seen) >= Scale
    <3>1. F!Running(Containers) \cup helper.seen \in SUBSET F!All
      BY <1>2 DEF F!Running
    <3>2. helper.seen \subseteq F!Running(Containers) \cup helper.seen /\ Cardinality(helper.seen) >= Scale
      BY <1>5, ServiceConstants
    <3> QED
      BY <3>1, <3>2, AsMany
  <2>4. AsManyAsScale' /\ RoundRobin'
    BY <1>1, <1>2, <2>1, <2>2, <2>3 DEF AsManyAsScale, RoundRobin, Balancing
  <2> QED
    BY <1>1, <2>1, <2>4, OnlyHelper DEF ServiceInv
<1>6. \/ \E c \in helper.todo : \/ helper' = [helper EXCEPT !.todo = @ \ {c}, !.seen = @ \cup {c}]
                                 \/ F!Goto("raised")
      \/ IF F!Cardinality(helper.seen) = Scale
         THEN helper' = [helper EXCEPT !.pc = "inspect", !.todo = helper.seen]
         ELSE F!Goto("raised")
  BY Zenon DEF F!ReadContainer
<1>7. CASE \E c \in helper.todo : helper' = [helper EXCEPT !.todo = @ \ {c}, !.seen = @ \cup {c}]
  BY <1>4, <1>7, Zenon
<1> QED
  BY <1>3, <1>5, <1>6, <1>7, Zenon

LEMMA InspectContainerStep ==
  ASSUME ServiceInv, F!InspectContainer
  PROVE  ServiceInv'
<1>1. helper.op \in F!Ops /\ helper.op \notin {"scale", "balancer"} /\ helper.pc = "inspect" /\ F!ServerOnly
  BY DEF F!InspectContainer, F!At, F!Ops
<1>2. ServiceTypes /\ helper.todo \subseteq Containers /\ helper.seen \subseteq Containers
      /\ Cardinality(F!Running(Containers) \cup helper.todo) >= Scale
  BY <1>1 DEF ServiceInv, AsManyAsScale
<1>3. CASE F!Goto("raised")
  BY <1>1, <1>3, ServiceIdle
<1>4. ASSUME NEW c \in helper.todo, con[c] = "running", helper' = [helper EXCEPT !.todo = @ \ {c}]
      PROVE  ServiceInv'
  <2>1. /\ helper' \in ServiceCalls /\ helper.op' = helper.op /\ helper.pc' = "inspect"
        /\ helper.todo' = helper.todo \ {c} /\ helper.seen' = helper.seen
    BY <1>1, <1>2, <1>4 DEF ServiceTypes, ServiceCalls
  <2>2. \A Y : F!Running(Y)' = F!Running(Y)
    BY <1>1, <2>1, OnlyHelper
  <2>3. F!Running(Containers) \cup (helper.todo \ {c}) = F!Running(Containers) \cup helper.todo
    BY <1>2, <1>4 DEF F!Running
  <2>4. AsManyAsScale' /\ RoundRobin'
    BY <1>1, <1>2, <2>1, <2>2, <2>3 DEF AsManyAsScale, RoundRobin, Balancing
  <2> QED
    BY <1>1, <2>1, <2>4, OnlyHelper DEF ServiceInv
<1>5. CASE helper.todo = {} /\ F!Goto("returned")
  <2>1. /\ helper' \in ServiceCalls /\ helper.op' = helper.op /\ helper.pc' = "returned"
        /\ helper.seen' = helper.seen
    BY <1>2, <1>5, ServiceGoto DEF ServicePlaces
  <2>2. \A Y : F!Running(Y)' = F!Running(Y)
    BY <1>1, <2>1, OnlyHelper
  <2>3. F!Running(Containers) \cup helper.todo = F!Running(Containers)
    BY <1>5
  <2>4. AsManyAsScale' /\ RoundRobin'
    BY <1>1, <1>2, <2>1, <2>2, <2>3 DEF AsManyAsScale, RoundRobin, Balancing
  <2> QED
    BY <1>1, <2>1, <2>4, OnlyHelper DEF ServiceInv
<1> QED
  BY <1>3, <1>4, <1>5 DEF F!InspectContainer

-----------------------------------------------------------------------------
(* Containers: what runs goes on, unless the service is stopped, or a      *)
(* helper stops it.                                                        *)
LEMMA ActOnInstanceStep ==
  ASSUME ServiceInv, F!ActOnInstance
  PROVE  ServiceInv'
<1>1. /\ helper.op \in F!Ops /\ helper.op \notin {"scale", "balancer"} /\ helper.pc = "called"
      /\ F!Goto("acted")
      /\ UNCHANGED <<service, backends, turn, reloaded>>
  BY DEF F!ActOnInstance, F!At, F!Ops
<1>2. /\ ServiceTypes /\ NoMoreThanScale /\ NotStopped /\ TurnIsOne
      /\ helper.todo \subseteq F!Running(Containers) /\ helper.seen \subseteq Containers
  BY <1>1 DEF ServiceInv, AsManyAsScale
<1>3. PICK c \in helper.todo, state \in {"removing", "stopping"} : con' = [con EXCEPT ![c] = state]
  BY DEF F!ActOnInstance
<1>4. c \in Containers /\ c \in F!All /\ con[c] = "running"
  BY <1>2, ServiceConstants DEF F!Running
<1>5. con' \in [F!All -> ContainerStates] /\ \A d \in F!All : con'[d] = IF d = c THEN state ELSE con[d]
  BY <1>2, <1>3, <1>4 DEF ServiceTypes, ContainerStates
<1>6. /\ helper' \in ServiceCalls /\ helper.op' = helper.op /\ helper.pc' = "acted"
      /\ helper.seen' = helper.seen
  BY <1>1, <1>2, ServiceGoto DEF ServicePlaces
<1>7. ServiceTypes'
  BY <1>1, <1>2, <1>5, <1>6 DEF ServiceTypes
<1>8. NoMoreThanScale'
  <2>1. F!Mapped(Containers)' \subseteq F!Mapped(Containers)
    BY <1>4, <1>5, ServiceConstants DEF F!Mapped
  <2>2. F!Mapped(Containers) \in SUBSET F!All
    BY ServiceConstants DEF F!Mapped
  <2>3. Cardinality(F!Mapped(Containers)') <= Cardinality(F!Mapped(Containers))
    BY <2>1, <2>2, AsMany
  <2>4. Cardinality(F!Mapped(Containers)') \in Nat /\ Cardinality(F!Mapped(Containers)) \in Nat
    BY <2>1, <2>2, Counts
  <2>5. Cardinality(F!Mapped(Containers)') <= Scale
    BY <1>2, <2>3, <2>4, ServiceConstants DEF NoMoreThanScale
  <2> QED
    BY <2>5 DEF NoMoreThanScale
<1>9. NotStopped' /\ TurnIsOne'
  BY <1>1, <1>2, <1>6 DEF NotStopped, Restoring, TurnIsOne
<1>10. AsManyAsScale' /\ RoundRobin'
  BY <1>1, <1>2, <1>6 DEF AsManyAsScale, RoundRobin, Balancing
<1> QED
  BY <1>7, <1>8, <1>9, <1>10 DEF ServiceInv

LEMMA ContainerServerStep ==
  ASSUME ServiceInv, F!ContainerStep
  PROVE  ServiceInv'
<1>1. UNCHANGED <<service, backends, turn, helper, reloaded>>
  BY DEF F!ContainerStep
<1>2. /\ ServiceTypes /\ NoMoreThanScale /\ NotStopped /\ AsManyAsScale /\ TurnIsOne /\ RoundRobin
  BY DEF ServiceInv
<1>3. PICK c \in Containers, state \in ContainerStates :
         /\ con' = [con EXCEPT ![c] = state]
         /\ con[c] = "none" => state = "starting" /\ F!Lacking
         /\ con[c] = "removing" => state = "none"
         /\ con[c] = "running" => service = "deactivating"
  BY DEF F!ContainerStep, ContainerStates
<1>4. c \in F!All /\ Containers \in SUBSET F!All
  BY ServiceConstants
<1>5. con' \in [F!All -> ContainerStates] /\ \A d \in F!All : con'[d] = IF d = c THEN state ELSE con[d]
  BY <1>2, <1>3, <1>4 DEF ServiceTypes, ContainerStates
<1>6. ServiceTypes'
  BY <1>1, <1>2, <1>5 DEF ServiceTypes
<1>7. NoMoreThanScale'
  <2> DEFINE M == F!Mapped(Containers)
  <2>1. M \in SUBSET F!All /\ IsFiniteSet(M) /\ Cardinality(M) \in Nat
    <3>1. M \in SUBSET F!All
      BY <1>4 DEF F!Mapped
    <3> QED
      BY <3>1, Counts
  <2>2. CASE con[c] = "none"
    <3>1. Cardinality(M) < Scale
      BY <1>3, <2>2, ServiceConstants DEF F!Lacking
    <3>2. F!Mapped(Containers)' \subseteq M \cup {c}
      BY <1>4, <1>5 DEF F!Mapped
    <3>3. c \notin M
      BY <2>2 DEF F!Mapped
    <3> HIDE DEF M
    <3>4. Cardinality(M \cup {c}) = Cardinality(M) + 1 /\ M \cup {c} \in SUBSET F!All
      BY <1>4, <2>1, <3>3, FS_AddElement
    <3>5. Cardinality(F!Mapped(Containers)') <= Cardinality(M \cup {c})
      BY <3>2, <3>4, AsMany
    <3>6. F!Mapped(Containers)' \in SUBSET F!All
      BY <3>2, <3>4
    <3>7. Cardinality(F!Mapped(Containers)') \in Nat
      BY <3>6, Counts
    <3>8. Cardinality(F!Mapped(Containers)') <= Scale
      BY <2>1, <3>1, <3>4, <3>5, <3>7, ServiceConstants
    <3> QED
      BY <3>8 DEF NoMoreThanScale
  <2>3. CASE con[c] # "none"
    <3>1. F!Mapped(Containers)' \subseteq M
      BY <1>3, <1>4, <1>5, <2>3 DEF F!Mapped
    <3>2. F!Mapped(Containers)' \in SUBSET F!All
      BY <2>1, <3>1
    <3> HIDE DEF M
    <3>3. Cardinality(F!Mapped(Containers)') <= Cardinality(M) /\ Cardinality(F!Mapped(Containers)') \in Nat
      BY <2>1, <3>1, <3>2, AsMany, Counts
    <3>4. Cardinality(M) <= Scale
      BY <1>2 DEF NoMoreThanScale, M
    <3>5. Cardinality(F!Mapped(Containers)') <= Scale
      BY <2>1, <3>3, <3>4, ServiceConstants
    <3> QED
      BY <3>5 DEF NoMoreThanScale
  <2> QED
    BY <2>2, <2>3
<1>8. ASSUME Restoring, NEW X \in SUBSET F!All
      PROVE  F!Running(X) \subseteq F!Running(X)' /\ F!Running(X)' \in SUBSET F!All
  BY <1>2, <1>3, <1>5, <1>8 DEF F!Running, NotStopped
<1>9. AsManyAsScale'
  <2>1. helper.todo \in SUBSET F!All
    BY <1>2 DEF ServiceTypes, ServiceCalls
  <2>2. ASSUME helper.op \in F!Ops \/ helper.op = "scale", NEW X \in {Containers, F!All}
        PROVE  /\ Cardinality(F!Running(X)) >= Scale => Cardinality(F!Running(X)') >= Scale
               /\ Cardinality(F!Running(X) \cup helper.todo) >= Scale
                     => Cardinality(F!Running(X)' \cup helper.todo) >= Scale
               /\ F!Running(X) \subseteq F!Running(X)'
    <3>1. Restoring /\ X \in SUBSET F!All
      BY <1>4, <2>2 DEF Restoring
    <3>2. F!Running(X) \subseteq F!Running(X)' /\ F!Running(X)' \in SUBSET F!All
      BY <1>8, <3>1
    <3>3. /\ F!Running(X) \cup helper.todo \subseteq F!Running(X)' \cup helper.todo
          /\ F!Running(X)' \cup helper.todo \in SUBSET F!All
      BY <2>1, <3>2
    <3> QED
      BY <3>2, <3>3, AsMany
  <2> QED
    BY <1>1, <1>2, <2>2 DEF AsManyAsScale
<1>10. NotStopped' /\ TurnIsOne' /\ RoundRobin'
  <2>1. Answered' = Answered /\ Takes' = Takes
    BY <1>1 DEF Answered, Takes
  <2> QED
    BY <1>1, <1>2, <2>1 DEF NotStopped, Restoring, TurnIsOne, RoundRobin, Balancing, OneAfterTheOther, After
<1> QED
  BY <1>6, <1>7, <1>9, <1>10 DEF ServiceInv

LEMMA ServiceServerStep ==
  ASSUME ServiceInv, F!ServiceStep
  PROVE  ServiceInv'
<1>1. UNCHANGED <<con, backends, turn, helper, reloaded>> /\ service' \in {"updating", "active", "inactive"}
  BY DEF F!ServiceStep
<1>2. /\ ServiceTypes /\ NoMoreThanScale /\ AsManyAsScale /\ TurnIsOne /\ RoundRobin
  BY DEF ServiceInv
<1>3. ServiceTypes'
  BY <1>1, <1>2 DEF ServiceTypes
<1>4. NoMoreThanScale' /\ NotStopped' /\ AsManyAsScale' /\ TurnIsOne'
  BY <1>1, <1>2 DEF NoMoreThanScale, NotStopped, Restoring, AsManyAsScale, TurnIsOne, F!Running, F!Mapped
<1>5. Answered' = Answered /\ Takes' = Takes
  BY <1>1 DEF Answered, Takes
<1>6. RoundRobin'
  BY <1>1, <1>2, <1>5 DEF RoundRobin, Balancing, OneAfterTheOther, After
<1> QED
  BY <1>3, <1>4, <1>6 DEF ServiceInv

(* The load balancer gets its containers: what is asked since then is of no account. *)
LEMMA ReloadStep ==
  ASSUME ServiceInv, F!Reload
  PROVE  ServiceInv'
<1>1. UNCHANGED <<service, con, helper>> /\ turn' = 1 /\ reloaded' = TRUE
  BY DEF F!Reload
<1>2. /\ ServiceTypes /\ NoMoreThanScale /\ NotStopped /\ AsManyAsScale /\ TurnIsOne /\ RoundRobin
  BY DEF ServiceInv
<1> DEFINE running == F!Running(F!All)
           n == Cardinality(running)
<1>3. running \in SUBSET F!All /\ n \in Nat /\ F!Cardinality(running) = n
  <2>1. running \in SUBSET F!All
    BY DEF F!Running
  <2> QED
    BY <2>1, Counts, ServiceConstants
<1>4. /\ backends' \in [1 .. n -> running]
      /\ {backends'[i] : i \in DOMAIN backends'} = running
  BY <1>3 DEF F!Reload
<1> HIDE DEF running, n
<1>5. backends' \in Seq(F!All) /\ Len(backends') \in Nat
  <2>1. backends' \in [1 .. n -> F!All]
    BY <1>3, <1>4
  <2>2. backends' \in Seq(F!All)
    BY <1>3, <2>1, SeqDef
  <2> QED
    BY <2>2
<1>6. ServiceTypes'
  BY <1>1, <1>2, <1>5 DEF ServiceTypes
<1>7. NoMoreThanScale' /\ NotStopped' /\ AsManyAsScale'
  BY <1>1, <1>2 DEF NoMoreThanScale, NotStopped, Restoring, AsManyAsScale, F!Running, F!Mapped
<1>8. TurnIsOne'
  <2>1. \A x \in running : \E i \in 1 .. n : backends'[i] = x
    BY <1>4
  <2>2. backends' \in Surjection(1 .. n, running)
    BY <1>4, <2>1 DEF Surjection
  <2>3. IsFiniteSet(1 .. n) /\ Cardinality(1 .. n) = Cardinality(running)
    BY <1>3, FS_Interval DEF n
  <2>4. backends' \in Injection(1 .. n, running)
    BY <2>2, <2>3, FS_SurjSameCardinalityImpliesInj
  <2>5. Len(backends') = n
    BY <1>3, <1>4, <1>5
  <2>6. \A i, j \in 1 .. Len(backends') : backends'[i] = backends'[j] => i = j
    BY <1>4, <2>4, <2>5 DEF Injection, IsInjective
  <2>7. backends' # <<>> => 1 \in 1 .. Len(backends')
    BY <1>5
  <2> QED
    BY <1>1, <2>6, <2>7 DEF TurnIsOne
<1>9. RoundRobin'
  <2>1. Answered' = Answered
    BY <1>1 DEF Answered
  <2> QED
    BY <1>1, <1>2, <2>1 DEF RoundRobin, Balancing
<1> QED
  BY <1>6, <1>7, <1>8, <1>9 DEF ServiceInv

LEMMA CallServiceStep ==
  ASSUME ServiceInv, F!CallHelper
  PROVE  ServiceInv'
<1>1. UNCHANGED <<service, con, backends, turn>> /\ reloaded' = FALSE
  BY DEF F!CallHelper
<1>2. /\ ServiceTypes /\ NoMoreThanScale /\ TurnIsOne
  BY DEF ServiceInv
<1>3. PICK op \in ServiceOps, todo \in SUBSET Containers :
         /\ helper' = F!Call(op, todo)
         /\ op \in F!Ops \cup {"scale"} => service # "deactivating"
         /\ op \in F!Ops => todo \subseteq F!Running(Containers)
  <2>1. ASSUME NEW c \in Containers, con[c] = "running"
        PROVE  {c} \subseteq F!Running(Containers)
    BY <2>1 DEF F!Running
  <2>2. CASE service = "inactive" /\ helper' = F!Call("activate", {})
    BY <2>2 DEF ServiceOps, F!Ops
  <2>3. ASSUME service \in {"active", "updating"}, NEW op \in {"scale", "deactivate", "balancer"},
               helper' = F!Call(op, {})
        PROVE  \E o \in ServiceOps, todo \in SUBSET Containers :
                  /\ helper' = F!Call(o, todo)
                  /\ o \in F!Ops \cup {"scale"} => service # "deactivating"
                  /\ o \in F!Ops => todo \subseteq F!Running(Containers)
    <3>1. op \in ServiceOps /\ {} \in SUBSET Containers /\ {} \subseteq F!Running(Containers)
      BY DEF ServiceOps
    <3> QED
      BY <2>3, <3>1
  <2>4. ASSUME service \in {"active", "updating"}, NEW c \in Containers, NEW op \in {"stop", "delete", "restart"},
               con[c] = "running", helper' = F!Call(op, {c})
        PROVE  \E o \in ServiceOps, todo \in SUBSET Containers :
                  /\ helper' = F!Call(o, todo)
                  /\ o \in F!Ops \cup {"scale"} => service # "deactivating"
                  /\ o \in F!Ops => todo \subseteq F!Running(Containers)
    <3>1. op \in ServiceOps /\ {c} \in SUBSET Containers /\ {c} \subseteq F!Running(Containers)
      BY <2>1, <2>4 DEF ServiceOps
    <3> QED
      BY <2>4, <3>1
  <2> QED
    BY <2>2, <2>3, <2>4 DEF F!CallHelper
<1>4. todo \in SUBSET F!All
  BY ServiceConstants
<1>5. /\ helper' \in ServiceCalls /\ helper.op' = op /\ helper.pc' = "called" /\ helper.todo' = todo
      /\ helper.seen' = {} /\ helper.order' = <<>> /\ helper.sent' = 0
  <2>1. 0 \in 0 .. Extra
    BY ServiceConstants
  <2>2. <<>> \in Seq(F!All)
    BY EmptySeq
  <2> QED
    BY <1>3, <1>4, <2>1, <2>2 DEF F!Call, ServiceCalls, ServicePlaces
<1>6. ServiceTypes'
  BY <1>1, <1>2, <1>5 DEF ServiceTypes
<1>7. NoMoreThanScale' /\ TurnIsOne'
  BY <1>1, <1>2 DEF NoMoreThanScale, F!Mapped, TurnIsOne
<1>8. NotStopped'
  BY <1>1, <1>3, <1>5 DEF NotStopped, Restoring
<1>9. F!Running(Containers)' = F!Running(Containers)
  BY <1>1 DEF F!Running
<1>10. AsManyAsScale' /\ RoundRobin'
  BY <1>3, <1>5, <1>9 DEF AsManyAsScale, RoundRobin, Balancing
<1> QED
  BY <1>6, <1>7, <1>8, <1>10 DEF ServiceInv

-----------------------------------------------------------------------------
(* The load balancer *)

LEMMA AnswersAreKnown ==
  ASSUME ServiceTypes
  PROVE  /\ Answered \in SUBSET F!All /\ Takes \in SUBSET F!All
         /\ Len(helper.order) \in Nat /\ Len(backends) \in Nat
         /\ backends # <<>> <=> Len(backends) # 0
         /\ DOMAIN helper.order = 1 .. Len(helper.order) /\ DOMAIN backends = 1 .. Len(backends)
  BY DEF ServiceTypes, ServiceCalls, Answered, Takes

LEMMA ListNamesStep ==
  ASSUME ServiceInv, F!ListNames
  PROVE  ServiceInv'
<1>1. /\ helper.op = "balancer" /\ helper.op \notin F!Ops \cup {"scale"} /\ helper.pc = "called"
      /\ F!ServerOnly
  BY DEF F!ListNames, F!At, F!Ops
<1>2. ServiceTypes /\ helper.order = <<>> /\ helper.sent = 0
  BY <1>1 DEF ServiceInv, RoundRobin, Balancing
<1> DEFINE names == F!Running(F!All)
           others == F!Running(Unmanaged)
<1>3. CASE F!Goto("raised")
  BY <1>1, <1>3, ServiceIdle
<1>4. CASE /\ F!Cardinality(names) = Scale + F!Cardinality(others)
           /\ helper' = [helper EXCEPT !.pc = "access", !.todo = names]
  <2>1. names \in SUBSET F!All /\ others \in SUBSET F!All
    BY ServiceConstants DEF F!Running
  <2>2. Cardinality(names) >= Scale
    <3>1. Cardinality(others) \in Nat
      BY <2>1, Counts
    <3>2. Cardinality(names) = Scale + Cardinality(others)
      BY <1>4, ServiceConstants
    <3> HIDE DEF names, others
    <3> QED
      BY <3>1, <3>2, ServiceConstants
  <2> HIDE DEF names
  <2>3. /\ helper' \in ServiceCalls /\ helper.op' = helper.op /\ helper.pc' = "access"
        /\ helper.todo' = names
        /\ helper.order' = helper.order /\ helper.sent' = helper.sent
    BY <1>2, <1>4, <2>1 DEF ServiceTypes, ServiceCalls, ServicePlaces
  <2>4. AsManyAsScale' /\ RoundRobin'
    BY <1>1, <1>2, <2>2, <2>3 DEF AsManyAsScale, RoundRobin, Balancing
  <2> QED
    BY <1>1, <2>3, <2>4, OnlyHelper DEF ServiceInv
<1> QED
  BY <1>3, <1>4 DEF F!ListNames

LEMMA LbIsActiveStep ==
  ASSUME ServiceInv, F!wait_until_lb_is_active
  PROVE  ServiceInv'
<1>1. /\ helper.op = "balancer" /\ helper.op \notin F!Ops \cup {"scale"} /\ helper.pc = "access"
      /\ F!ServerOnly
  BY DEF F!wait_until_lb_is_active, F!At, F!Wait, F!Ops, F!check_for_no_access
<1>2. /\ ServiceTypes /\ helper.order = <<>> /\ helper.sent = 0 /\ Cardinality(helper.todo) >= Scale
  BY <1>1 DEF ServiceInv, RoundRobin, Balancing
<1>3. CASE F!Goto("raised")
  BY <1>1, <1>3, ServiceIdle
<1>4. CASE F!Goto("first")
  <2>1. /\ helper' \in ServiceCalls /\ helper.op' = helper.op /\ helper.pc' = "first"
        /\ helper.todo' = helper.todo
        /\ helper.order' = helper.order /\ helper.sent' = helper.sent
    BY <1>2, <1>4, ServiceGoto DEF ServicePlaces
  <2>2. Answered' = {}
    BY <1>2, <2>1 DEF Answered
  <2>3. OneAfterTheOther'
    BY <2>2 DEF OneAfterTheOther
  <2>4. helper.todo \cup {} = helper.todo
    OBVIOUS
  <2>5. RoundRobin'
    BY <1>1, <1>2, <2>1, <2>2, <2>3, <2>4 DEF RoundRobin, Balancing
  <2>6. AsManyAsScale'
    BY <1>1, <2>1 DEF AsManyAsScale
  <2> QED
    BY <1>1, <2>1, <2>5, <2>6, OnlyHelper DEF ServiceInv
<1> QED
  BY <1>3, <1>4 DEF F!wait_until_lb_is_active, F!Wait

(* A request: the turn is the next one's. *)
LEMMA AskStep ==
  ASSUME ServiceInv, F!Ask, helper' \in ServiceCalls, helper.op' = helper.op, helper.op = "balancer"
  PROVE  /\ ServiceTypes' /\ NoMoreThanScale' /\ NotStopped' /\ AsManyAsScale' /\ TurnIsOne'
         /\ turn' = After(turn) /\ Takes' = Takes /\ \A i : After(i)' = After(i)
<1>1. ServiceTypes /\ NoMoreThanScale /\ TurnIsOne
  BY DEF ServiceInv
<1>2. /\ service' = service /\ con' = con /\ backends' = backends /\ reloaded' = reloaded
      /\ turn' = After(turn)
  BY DEF F!Ask, F!NextTurn, After
<1>3. After(turn) \in Nat \ {0} /\ (backends # <<>> => After(turn) \in 1 .. Len(backends))
  BY <1>1, AnswersAreKnown DEF After, TurnIsOne, ServiceTypes
<1>4. ServiceTypes'
  BY <1>1, <1>2, <1>3 DEF ServiceTypes
<1>5. NoMoreThanScale' /\ TurnIsOne'
  BY <1>1, <1>2, <1>3 DEF NoMoreThanScale, F!Mapped, TurnIsOne
<1>6. NotStopped' /\ AsManyAsScale'
  BY DEF NotStopped, Restoring, AsManyAsScale, F!Ops
<1> QED
  BY <1>2, <1>4, <1>5, <1>6 DEF Takes, After

LEMMA FirstRequestsStep ==
  ASSUME ServiceInv, F!FirstRequests
  PROVE  ServiceInv'
<1>1. helper.op = "balancer" /\ helper.op \notin F!Ops \cup {"scale"} /\ helper.pc = "first"
  BY DEF F!FirstRequests, F!At, F!Ops
<1>2. /\ ServiceTypes /\ TurnIsOne /\ helper.sent = 0
      /\ Cardinality(helper.todo \cup Answered) >= Scale
      /\ ~reloaded => OneAfterTheOther
  BY <1>1 DEF ServiceInv, RoundRobin, Balancing
<1>3. CASE helper.todo = {} /\ F!Goto("again") /\ F!ServerOnly
  <2>1. /\ helper' \in ServiceCalls /\ helper.op' = helper.op /\ helper.pc' = "again"
        /\ helper.order' = helper.order /\ helper.sent' = helper.sent
    BY <1>2, <1>3, ServiceGoto DEF ServicePlaces
  <2>2. /\ Answered' = Answered /\ Takes' = Takes /\ backends' = backends /\ turn' = turn
        /\ reloaded' = reloaded
    BY <1>3, <2>1 DEF Answered, Takes, F!ServerOnly
  <2>3. helper.todo \cup Answered = Answered
    BY <1>3
  <2>4. RoundRobin'
    BY <1>1, <1>2, <2>1, <2>2, <2>3 DEF RoundRobin, Balancing, OneAfterTheOther, After
  <2>5. AsManyAsScale'
    BY <1>1, <2>1 DEF AsManyAsScale
  <2> QED
    BY <1>3, <2>1, <2>4, <2>5, OnlyHelper DEF ServiceInv
<1>4. CASE F!Goto("raised") /\ F!Ask
  <2>1. helper' \in ServiceCalls /\ helper.op' = helper.op /\ helper.pc' = "raised"
    BY <1>2, <1>4, ServiceGoto DEF ServicePlaces
  <2>2. RoundRobin'
    BY <2>1 DEF RoundRobin, Balancing
  <2> QED
    BY <1>1, <1>4, <2>1, <2>2, AskStep DEF ServiceInv
<1>5. CASE /\ F!Served # {} /\ F!Served \subseteq helper.todo /\ F!Ask
           /\ helper' = [helper EXCEPT !.todo = @ \ F!Served, !.order = Append(@, backends[turn])]
  <2> DEFINE c == backends[turn]
  <2>1. backends # <<>> /\ F!Served = {c}
    BY <1>5 DEF F!Served
  <2>2. turn \in 1 .. Len(backends) /\ c \in F!All
    <3>1. turn \in 1 .. Len(backends)
      BY <1>2, <2>1 DEF TurnIsOne
    <3> QED
      BY <1>2, <3>1 DEF ServiceTypes
  <2>3. c \in helper.todo /\ helper.order \in Seq(F!All) /\ helper.todo \in SUBSET F!All
    BY <1>2, <1>5, <2>1 DEF ServiceTypes, ServiceCalls
  <2>4. helper' = [helper EXCEPT !.todo = helper.todo \ {c}, !.order = Append(helper.order, c)]
    BY <1>5, <2>1
  <2>5. turn' = After(turn) /\ backends' = backends /\ reloaded' = reloaded
    BY <1>5 DEF F!Ask, F!NextTurn, After
  <2>6. c \in Takes
    BY <2>2 DEF Takes
  <2>7. \A i \in 1 .. Len(backends) : i = turn => backends[i] = c
    OBVIOUS
  <2> HIDE DEF c
  <2>8. Append(helper.order, c) \in Seq(F!All)
    BY <2>2, <2>3
  <2>9. /\ helper' \in ServiceCalls /\ helper.op' = helper.op /\ helper.pc' = "first"
        /\ helper.sent' = helper.sent
        /\ helper.todo' = helper.todo \ {c} /\ helper.order' = Append(helper.order, c)
    BY <1>1, <1>2, <2>2, <2>3, <2>4, <2>8 DEF ServiceTypes, ServiceCalls
  <2>10. Answered' = Answered \cup {c}
    <3>1. Len(helper.order) \in Nat /\ Len(Append(helper.order, c)) = Len(helper.order) + 1
      BY <2>2, <2>3
    <3>2. \A i \in 1 .. Len(helper.order) : Append(helper.order, c)[i] = helper.order[i]
      BY <2>2, <2>3
    <3>3. Append(helper.order, c)[Len(helper.order) + 1] = c
      BY <2>2, <2>3
    <3>4. 1 .. Len(helper.order) + 1 = (1 .. Len(helper.order)) \cup {Len(helper.order) + 1}
      BY <3>1
    <3> QED
      BY <2>9, <3>1, <3>2, <3>3, <3>4 DEF Answered
  <2>11. (helper.todo \ {c}) \cup (Answered \cup {c}) = helper.todo \cup Answered
    BY <2>3
  <2>12. Takes' = Takes /\ \A i : After(i)' = After(i)
    BY <2>5 DEF Takes, After
  <2>13. ~reloaded' => OneAfterTheOther'
    <3> SUFFICES ASSUME ~reloaded PROVE OneAfterTheOther'
      BY <2>5
    <3>1. OneAfterTheOther
      BY <1>2
    <3>2. Answered' \subseteq Takes'
      BY <2>6, <2>10, <2>12, <3>1 DEF OneAfterTheOther
    <3>3. ASSUME NEW i \in 1 .. Len(backends), backends[i] \in Answered'
          PROVE  After(i) = turn' \/ backends[After(i)] \in Answered'
      <4>1. CASE backends[i] \in Answered
        BY <2>7, <2>10, <2>2, <3>1, <4>1 DEF OneAfterTheOther, c
      <4>2. CASE backends[i] = c
        <5>1. i = turn
          BY <1>2, <2>2, <4>2 DEF TurnIsOne, c
        <5> QED
          BY <2>5, <5>1
      <4> QED
        BY <2>10, <3>3, <4>1, <4>2
    <3> QED
      BY <2>5, <2>12, <3>2, <3>3 DEF OneAfterTheOther
  <2>14. RoundRobin'
    BY <1>1, <1>2, <2>9, <2>10, <2>11, <2>13 DEF RoundRobin, Balancing
  <2> QED
    BY <1>1, <1>5, <2>9, <2>14, AskStep DEF ServiceInv
<1> QED
  BY <1>3, <1>4, <1>5 DEF F!FirstRequests

(* The answers that came in turn, and have come round, are of all.         *)
LEMMA AllInTurn ==
  ASSUME ServiceTypes, TurnIsOne, OneAfterTheOther, backends # <<>>, backends[turn] \in Answered
  PROVE  Answered = Takes
<1> DEFINE n == Len(backends)
           served == {i \in 1 .. n : backends[i] \in Answered}
<1>1. n \in Nat \ {0} /\ turn \in served
  BY AnswersAreKnown DEF TurnIsOne
<1>2. \A i \in served : After(i) \in served
  <2> SUFFICES ASSUME NEW i \in served PROVE After(i) \in served
    OBVIOUS
  <2>1. After(i) = turn \/ backends[After(i)] \in Answered
    BY DEF OneAfterTheOther
  <2>2. After(i) \in 1 .. n
    BY <1>1 DEF After
  <2> QED
    BY <1>1, <2>1, <2>2
<1>3. n \in served
  <2> DEFINE T == {n - i : i \in served}
  <2>1. T \in SUBSET Nat /\ T # {}
    BY <1>1
  <2> HIDE DEF T
  <2>2. PICK m \in T : \A k \in T : m <= k
    BY <2>1, LeastNumber
  <2>3. PICK i \in served : m = n - i
    BY <2>2 DEF T
  <2>4. CASE i < n
    <3>1. i + 1 \in served
      BY <1>2, <2>4 DEF After
    <3>2. n - (i + 1) \in T
      BY <3>1 DEF T
    <3>3. n - i <= n - (i + 1)
      BY <2>2, <2>3, <3>2
    <3>4. i \in Nat
      OBVIOUS
    <3> QED
      BY <1>1, <3>3, <3>4
  <2> QED
    BY <1>1, <2>4
<1>4. 1 \in served
  <2>1. After(n) = 1
    BY <1>1 DEF After
  <2> QED
    BY <1>2, <1>3, <2>1
<1>5. \A j \in 1 .. n : j \in served
  <2> DEFINE T == {j \in 1 .. n : j \notin served}
  <2> SUFFICES ASSUME T # {} PROVE FALSE
    OBVIOUS
  <2>1. T \in SUBSET Nat
    OBVIOUS
  <2>2. PICK j \in T : \A k \in T : j <= k
    <3> HIDE DEF T
    <3> QED
      BY <2>1, LeastNumber
  <2>3. j \in 1 .. n /\ j \notin served /\ j # 1
    BY <1>4
  <2>4. j - 1 \in 1 .. n /\ ~(j <= j - 1)
    BY <1>1, <2>3
  <2>5. j - 1 \in served
    BY <2>2, <2>4
  <2>6. After(j - 1) = j
    BY <1>1, <2>3, <2>4 DEF After
  <2> QED
    BY <1>2, <2>3, <2>5, <2>6
<1>6. Takes \subseteq Answered
  BY <1>5 DEF Takes
<1> QED
  BY <1>6 DEF OneAfterTheOther

LEMMA RepeatedRequestsStep ==
  ASSUME ServiceInv, F!RepeatedRequests
  PROVE  ServiceInv'
<1>1. helper.op = "balancer" /\ helper.op \notin F!Ops \cup {"scale"} /\ helper.pc = "again"
  BY DEF F!RepeatedRequests, F!At, F!Ops
<1>2. /\ ServiceTypes /\ TurnIsOne /\ Cardinality(Answered) >= Scale
      /\ ~reloaded => IF helper.sent = 0 THEN OneAfterTheOther ELSE Answered = Takes
  BY <1>1 DEF ServiceInv, RoundRobin, Balancing
<1>3. CASE helper.sent = Extra /\ F!Goto("returned") /\ F!ServerOnly
  <2>1. /\ helper' \in ServiceCalls /\ helper.op' = helper.op /\ helper.pc' = "returned"
        /\ helper.order' = helper.order /\ helper.sent' = helper.sent
    BY <1>2, <1>3, ServiceGoto DEF ServicePlaces
  <2>2. Answered' = Answered /\ Takes' = Takes /\ reloaded' = reloaded
    BY <1>3, <2>1 DEF Answered, Takes, F!ServerOnly
  <2>3. helper.sent # 0
    BY <1>3, ServiceConstants
  <2>4. RoundRobin'
    BY <1>1, <1>2, <2>1, <2>2, <2>3 DEF RoundRobin, Balancing
  <2>5. AsManyAsScale'
    BY <1>1, <2>1 DEF AsManyAsScale
  <2> QED
    BY <1>3, <2>1, <2>4, <2>5, OnlyHelper DEF ServiceInv
<1>4. CASE F!Goto("raised") /\ F!Ask
  <2>1. helper' \in ServiceCalls /\ helper.op' = helper.op /\ helper.pc' = "raised"
    BY <1>2, <1>4, ServiceGoto DEF ServicePlaces
  <2>2. RoundRobin'
    BY <2>1 DEF RoundRobin, Balancing
  <2> QED
    BY <1>1, <1>4, <2>1, <2>2, AskStep DEF ServiceInv
<1>5. CASE /\ helper.sent < Extra /\ F!Ask /\ F!Served = {F!Expected}
           /\ helper' = [helper EXCEPT !.sent = @ + 1]
  <2>1. helper.sent \in 0 .. Extra /\ Extra \in Nat
    BY <1>2, ServiceConstants DEF ServiceTypes, ServiceCalls
  <2>2. helper.sent + 1 \in 0 .. Extra /\ helper.sent + 1 # 0
    BY <1>5, <2>1
  <2>3. /\ helper' \in ServiceCalls /\ helper.op' = helper.op /\ helper.pc' = "again"
        /\ helper.order' = helper.order /\ helper.sent' # 0
    BY <1>1, <1>2, <1>5, <2>2 DEF ServiceTypes, ServiceCalls
  <2>4. Answered' = Answered /\ Takes' = Takes /\ reloaded' = reloaded
    BY <1>5, <2>3 DEF Answered, Takes, F!Ask
  <2>5. ~reloaded => Answered = Takes
    <3> SUFFICES ASSUME ~reloaded, helper.sent = 0 PROVE Answered = Takes
      BY <1>2
    <3>1. backends # <<>> /\ backends[turn] = F!Expected
      BY <1>5 DEF F!Served
    <3>2. Len(helper.order) # 0
      <4> SUFFICES ASSUME Len(helper.order) = 0 PROVE FALSE
        OBVIOUS
      <4>1. Answered = {}
        BY DEF Answered
      <4>2. Cardinality(Answered) = 0
        BY <4>1, FS_EmptySet
      <4> QED
        BY <1>2, <4>2, ServiceConstants
    <3>3. 0 % Len(helper.order) = 0
      <4>1. \A m \in Nat \ {0} : 0 % m = 0
        OBVIOUS
      <4> QED
        BY <1>2, <3>2, <4>1, AnswersAreKnown
    <3>4. F!Expected = helper.order[1] /\ 1 \in 1 .. Len(helper.order)
      BY <1>2, <3>2, <3>3, AnswersAreKnown DEF F!Expected
    <3>5. backends[turn] \in Answered
      BY <3>1, <3>4 DEF Answered
    <3> QED
      BY <1>2, <3>1, <3>5, AllInTurn
  <2>6. RoundRobin'
    BY <1>1, <1>2, <2>3, <2>4, <2>5 DEF RoundRobin, Balancing
  <2> QED
    BY <1>1, <1>5, <2>3, <2>6, AskStep DEF ServiceInv
<1> QED
  BY <1>3, <1>4, <1>5 DEF F!RepeatedRequests

-----------------------------------------------------------------------------
LEMMA ServiceStep ==
  ASSUME ServiceInv, [F!Next]_services
  PROVE  ServiceInv'
<1>1. CASE F!CallHelper
  BY <1>1, CallServiceStep
<1>2. CASE F!Helper
  BY <1>2, ActivateSvcStep, WaitScaleStep, WaitRunningStep, ActOnInstanceStep, AwaitInstanceStep,
     ListContainersStep, ReadContainerStep, InspectContainerStep, ListNamesStep, LbIsActiveStep,
     FirstRequestsStep, RepeatedRequestsStep DEF F!Helper
<1>3. CASE F!ServiceStep
  BY <1>3, ServiceServerStep
<1>4. CASE F!ContainerStep
  BY <1>4, ContainerServerStep
<1>5. CASE F!Reload
  BY <1>5, ReloadStep
<1>6. CASE UNCHANGED services
  <2>1. UNCHANGED <<service, con, backends, turn, helper, reloaded>>
    BY <1>6 DEF services
  <2>2. Answered' = Answered /\ Takes' = Takes
    BY <2>1 DEF Answered, Takes
  <2>3. ServiceTypes' /\ NoMoreThanScale' /\ NotStopped' /\ AsManyAsScale' /\ TurnIsOne'
    BY <2>1 DEF ServiceInv, ServiceTypes, NoMoreThanScale, NotStopped, Restoring, AsManyAsScale, TurnIsOne,
       F!Running, F!Mapped
  <2>4. RoundRobin'
    BY <2>1, <2>2 DEF ServiceInv, RoundRobin, Balancing, OneAfterTheOther, After
  <2> QED
    BY <2>3, <2>4 DEF ServiceInv
<1> QED
  BY <1>1, <1>2, <1>3, <1>4, <1>5, <1>6 DEF F!Next

LEMMA ServiceInit == F!Init => ServiceInv
<1> SUFFICES ASSUME F!Init PROVE ServiceInv
  OBVIOUS
<1>1. PICK there \in SUBSET Unmanaged : con = [c \in F!All |-> IF c \in there THEN "running" ELSE "none"]
  BY DEF F!Init
<1>2. service = "inactive" /\ backends = <<>> /\ turn = 1 /\ reloaded = FALSE
  BY DEF F!Init
<1>7. helper = [F!Call("none", {}) EXCEPT !.pc = "returned"]
  BY DEF F!Init
<1>3. helper \in ServiceCalls /\ helper.op = "none"
  <2>1. 0 \in 0 .. Extra
    BY ServiceConstants
  <2>2. <<>> \in Seq(F!All)
    BY EmptySeq
  <2> QED
    BY <1>7, <2>1, <2>2 DEF F!Call, ServiceCalls, ServicePlaces, ServiceOps
<1>4. ServiceTypes
  <2>1. backends \in Seq(F!All)
    BY <1>2, EmptySeq
  <2>2. con \in [F!All -> ContainerStates]
    BY <1>1 DEF ContainerStates
  <2>3. turn \in Nat \ {0}
    BY <1>2
  <2>4. service \in {"inactive", "activating", "active", "updating", "deactivating"} /\ reloaded \in BOOLEAN
    BY <1>2
  <2> QED
    BY <1>3, <2>1, <2>2, <2>3, <2>4 DEF ServiceTypes
<1>5. NoMoreThanScale
  <2>1. F!Mapped(Containers) = {}
    BY <1>1, ServiceBounds, ServiceConstants DEF F!Mapped, F!Bounds
  <2>2. Cardinality(F!Mapped(Containers)) = 0
    BY <2>1, FS_EmptySet
  <2> QED
    BY <2>2, ServiceConstants DEF NoMoreThanScale
<1>6. TurnIsOne
  <2>1. Len(backends) = 0
    BY <1>2
  <2> QED
    BY <1>2, <2>1 DEF TurnIsOne
<1> QED
  BY <1>2, <1>3, <1>4, <1>5, <1>6
     DEF ServiceInv, NotStopped, Restoring, AsManyAsScale, RoundRobin, Balancing, F!Ops

LEMMA ServiceFollows == ServiceInv => F!TypeOK /\ F!ScaleIsReached /\ F!BalancerServesAll
<1> SUFFICES ASSUME ServiceInv PROVE F!TypeOK /\ F!ScaleIsReached /\ F!BalancerServesAll
  OBVIOUS
<1>1. ServiceTypes /\ NoMoreThanScale /\ AsManyAsScale /\ RoundRobin
  BY DEF ServiceInv
<1>2. F!TypeOK
  BY <1>1 DEF ServiceTypes, F!TypeOK, ServiceCalls, ServiceOps, ServicePlaces, ContainerStates
<1>3. ASSUME Cardinality(F!Running(Containers)) >= Scale
      PROVE  F!Cardinality(F!Running(Containers)) = Scale
  <2>1. F!Mapped(Containers) \in SUBSET F!All /\ F!Running(Containers) \in SUBSET F!Mapped(Containers)
    BY ServiceConstants DEF F!Mapped, F!Running
  <2>2. Cardinality(F!Running(Containers)) <= Cardinality(F!Mapped(Containers))
    BY <2>1, AsMany
  <2>3. Cardinality(F!Running(Containers)) \in Nat /\ Cardinality(F!Mapped(Containers)) \in Nat
    BY <2>1, Counts
  <2>4. Cardinality(F!Running(Containers)) = Scale
    BY <1>1, <1>3, <2>2, <2>3, ServiceConstants DEF NoMoreThanScale
  <2> QED
    BY <2>4, ServiceConstants
<1>4. F!Running(Unmanaged) = {} => F!Running(F!All) = F!Running(Containers)
  BY ServiceConstants DEF F!Running
<1>5. F!ScaleIsReached
  BY <1>1, <1>3, <1>4 DEF F!ScaleIsReached, AsManyAsScale
<1>6. F!BalancerServesAll
  <2>1. /\ {helper.order[i] : i \in DOMAIN helper.order} = Answered
        /\ {backends[i] : i \in DOMAIN backends} = Takes
    BY <1>1, AnswersAreKnown DEF Answered, Takes
  <2>2. Balancing("returned") <=> F!At({"balancer"}, "returned")
    BY DEF Balancing, F!At
  <2> QED
    BY <1>1, <2>1, <2>2, ServiceConstants DEF F!BalancerServesAll, RoundRobin
<1> QED
  BY <1>2, <1>5, <1>6

-----------------------------------------------------------------------------
(* The helpers that drive kubectl                                          *)

KubeOps == {"none", "create_ns", "teardown_ns", "cleanup_k8s", "create_k8_service",
            "waitfor_delete", "create_ingress", "delete_ingress"}
KubePlaces == {"returned", "raised", "create", "verify", "list", "delete", "gone", "service",
               "pods", "names", "ips"}
Arguments == Namespaces \cup Pods \cup {0}
KubeTests == [op : KubeOps, pc : KubePlaces, n : Arguments, polls : 0 .. Rounds - 1,
              left : SUBSET Namespaces, names : SUBSET Pods,
              ips : 0 .. ing_scale + Cardinality(Addresses)]

ClusterTypes == /\ namespace \in [Namespaces -> {"none", "Active", "Terminating"}]
                /\ pod \in [Pods -> {"none", "Pending", "Running", "Deleting"}]
                /\ wanted \in BOOLEAN /\ ingress \in {"none", "there", "deleting"}
                /\ address \in SUBSET Addresses
HistoryTypes == blind \in BOOLEAN /\ slow \in BOOLEAN /\ kubeFaults \in 0 .. KubeFaults

TearingDown == test.op \in {"teardown_ns", "cleanup_k8s"}
CleaningUp == test.op = "cleanup_k8s" /\ test.pc \in {"delete", "gone"}

CallTypes == /\ test \in KubeTests
             /\ test.op \in {"create_ns", "teardown_ns"} \/ CleaningUp => test.n \in Namespaces
             /\ test.op = "waitfor_delete" => test.n \in Pods
             /\ test.op # "cleanup_k8s" => test.left = {}
             /\ test.pc \in {"create", "ips"} => test.ips < ing_scale

(* What a helper has deleted is gone when it returns, and cleanup_k8s has  *)
(* the rest before it.                                                     *)
GoneInv ==
    ~blind =>
       /\ CleaningUp => K!ToCleanUp \subseteq test.left \cup {test.n}
       /\ test.pc = "returned" =>
             /\ test.op = "teardown_ns" => namespace[test.n] = "none"
             /\ test.op = "cleanup_k8s" => K!ToCleanUp = {}
             /\ test.op = "waitfor_delete" => pod[test.n] = "none"
             /\ test.op = "delete_ingress" => ingress = "none"

(* As long as no command fails and no deletion is slow, a namespace is     *)
(* terminating only while a helper waits for it.                           *)
InOrder ==
    kubeFaults = 0 /\ ~slow =>
       /\ \A m \in Namespaces : namespace[m] = "Terminating" =>
                                 TearingDown /\ test.pc = "gone" /\ m = test.n
       /\ test.op = "cleanup_k8s" /\ test.pc = "delete" =>
             namespace[test.n] = "Active" /\ test.n \notin Protected
       /\ CleaningUp => /\ test.n \notin test.left /\ test.left \cap Protected = {}
                        /\ \A m \in test.left : namespace[m] = "Active"
       /\ test.op = "cleanup_k8s" /\ test.pc = "raised" =>
             \E m \in Containing[test.n] \ {test.n} : namespace[m] = "Active"

KubeInv == ClusterTypes /\ CallTypes /\ HistoryTypes /\ GoneInv /\ InOrder

LEMMA KubeConstants ==
  /\ Namespaces \subseteq Nat /\ Protected \subseteq Namespaces
  /\ Containing \in [Namespaces -> SUBSET Namespaces]
  /\ \A n \in Namespaces : n \in Containing[n]
  /\ PodScale \in Nat \ {0} /\ ing_scale \in Nat \ {0} /\ Rounds \in Nat \ {0} /\ KubeFaults \in Nat
  /\ IsFiniteSet(Addresses) /\ Cardinality(Addresses) \in Nat
  /\ \A X : K!Cardinality(X) = Cardinality(X)
<1>1. IsFiniteSet(Addresses)
  BY KubectlBounds DEF K!Bounds, K!IsFiniteSet, IsFiniteSet
<1>2. \A X : K!Cardinality(X) = Cardinality(X)
  BY DEF K!Cardinality, Cardinality, K!IsFiniteSet, IsFiniteSet
<1> QED
  BY <1>1, <1>2, FS_CardinalityType, KubectlBounds DEF K!Bounds

LEMMA KubeInit == K!Init => KubeInv
<1> SUFFICES ASSUME K!Init PROVE KubeInv
  OBVIOUS
<1>1. /\ namespace \in [Namespaces -> {"none", "Active"}] /\ test = K!Call("none", "returned", 0)
      /\ blind = FALSE /\ slow = FALSE /\ kubeFaults = 0
  BY DEF K!Init
<1>2. ClusterTypes
  BY <1>1 DEF K!Init, ClusterTypes
<1>3. CallTypes
  BY <1>1, KubeConstants DEF CallTypes, CleaningUp, K!Call, KubeTests, KubeOps, KubePlaces, Arguments
<1>4. HistoryTypes
  <2>1. 0 \in 0 .. KubeFaults
    BY KubeConstants
  <2>2. kubeFaults \in 0 .. KubeFaults
    BY <1>1, <2>1
  <2> QED
    BY <1>1, <2>2, Zenon DEF HistoryTypes
<1>5. GoneInv /\ InOrder
  BY <1>1 DEF GoneInv, InOrder, CleaningUp, TearingDown, K!Call
<1> QED
  BY <1>2, <1>3, <1>4, <1>5 DEF KubeInv

LEMMA KubeGoto ==
  ASSUME test \in KubeTests, NEW pc \in KubePlaces, K!Goto(pc)
  PROVE  /\ test' \in KubeTests /\ test'.pc = pc
         /\ UNCHANGED <<test.op, test.n, test.left, test.names, test.ips>>
<1>1. 0 \in 0 .. Rounds - 1
  BY KubeConstants
<1> QED
  BY <1>1 DEF K!Goto, KubeTests

LEMMA KubeAgain ==
  ASSUME test \in KubeTests, K!Again
  PROVE  /\ test' \in KubeTests /\ UNCHANGED <<test.op, test.n, test.left, test.ips>>
         /\ test'.pc = test.pc \/ (test.polls + 1 = Rounds /\ test'.pc = "raised")
<1>1. CASE test.polls + 1 < Rounds /\ test' = [test EXCEPT !.polls = @ + 1]
  <2>1. test.polls + 1 \in 0 .. Rounds - 1
    BY <1>1, KubeConstants DEF KubeTests
  <2> QED
    BY <1>1, <2>1 DEF KubeTests
<1>2. CASE test.polls + 1 = Rounds /\ K!Goto("raised")
  BY <1>2, KubeGoto DEF KubePlaces
<1> QED
  BY <1>1, <1>2 DEF K!Again

(* What a command counts: it succeeds, or it is one more that failed.      *)
Counted == /\ HistoryTypes' /\ slow' = slow
           /\ ~blind' => ~blind
           /\ kubeFaults' = 0 => kubeFaults = 0

LEMMA CommandCounts ==
  ASSUME HistoryTypes, K!Succeeds \/ K!Fails
  PROVE  Counted
<1>1. CASE K!Succeeds
  BY <1>1 DEF K!Succeeds, Counted, HistoryTypes
<1>2. CASE K!Fails
  <2>1. kubeFaults' \in 0 .. KubeFaults /\ kubeFaults' # 0
    BY <1>2, KubeConstants DEF K!Fails, HistoryTypes
  <2> QED
    BY <1>2, <2>1 DEF K!Fails, Counted, HistoryTypes
<1> QED
  BY <1>1, <1>2

LEMMA FailureIsSeen ==
  ASSUME HistoryTypes, K!Fails
  PROVE  blind' = TRUE /\ kubeFaults' # 0
BY KubeConstants DEF K!Fails, HistoryTypes

(* A step of a helper that deletes no namespace.                           *)
LEMMA OtherHelperStep ==
  ASSUME KubeInv, ClusterTypes', CallTypes', Counted, ~TearingDown, test'.op = test.op,
         \A m \in Namespaces : namespace'[m] = "Terminating" => namespace[m] = "Terminating",
         ~blind' /\ test'.pc = "returned" =>
            /\ test.op = "waitfor_delete" => pod'[test'.n] = "none"
            /\ test.op = "delete_ingress" => ingress' = "none"
  PROVE  KubeInv'
<1>1. GoneInv'
  BY DEF GoneInv, TearingDown, CleaningUp
<1>2. InOrder'
  BY DEF InOrder, TearingDown, CleaningUp, KubeInv, Counted
<1> QED
  BY <1>1, <1>2 DEF KubeInv, Counted

(* One that leaves the cluster as it is.                                   *)
LEMMA WatchingStep ==
  ASSUME KubeInv, UNCHANGED K!cluster, Counted, ~TearingDown,
         test' \in KubeTests, UNCHANGED <<test.op, test.n, test.left>>,
         test'.pc \in {"create", "ips"} => test'.ips < ing_scale,
         ~blind' /\ test'.pc = "returned" =>
            /\ test.op = "waitfor_delete" => pod[test.n] = "none"
            /\ test.op = "delete_ingress" => ingress = "none"
  PROVE  KubeInv'
<1>1. UNCHANGED <<namespace, pod, wanted, ingress, address>>
  BY DEF K!cluster
<1>2. ClusterTypes'
  BY <1>1 DEF KubeInv, ClusterTypes
<1>3. CallTypes'
  BY DEF KubeInv, CallTypes, CleaningUp, TearingDown
<1> QED
  BY <1>1, <1>2, <1>3, OtherHelperStep

LEMMA RefusedStep ==
  ASSUME KubeInv, NEW allowed, K!Refused(allowed), ~TearingDown
  PROVE  KubeInv'
<1>1. K!Goto("raised") /\ UNCHANGED K!cluster /\ (K!Succeeds \/ K!Fails)
  BY DEF K!Refused, K!Fails
<1>2. test \in KubeTests /\ HistoryTypes
  BY DEF KubeInv, CallTypes
<1>3. /\ test' \in KubeTests /\ test'.pc = "raised"
      /\ UNCHANGED <<test.op, test.n, test.left>>
  BY <1>1, <1>2, KubeGoto DEF KubePlaces
<1>4. Counted
  BY <1>1, <1>2, CommandCounts
<1> QED
  BY <1>1, <1>3, <1>4, WatchingStep

(* A command that does something, after which the helper goes on at pc.    *)
LEMMA DoneStep ==
  ASSUME KubeInv, ~TearingDown, NEW pc \in {"verify", "names", "pods", "gone", "ips"}, K!Goto(pc),
         K!Succeeds, ClusterTypes', pc = "ips" => test.ips < ing_scale,
         \A m \in Namespaces : namespace'[m] = "Terminating" => namespace[m] = "Terminating"
  PROVE  KubeInv'
<1>1. test \in KubeTests /\ HistoryTypes
  BY DEF KubeInv, CallTypes
<1>2. /\ test' \in KubeTests /\ test'.pc = pc
      /\ UNCHANGED <<test.op, test.n, test.left, test.ips>>
  BY <1>1, KubeGoto DEF KubePlaces
<1>3. Counted
  BY <1>1, CommandCounts
<1>4. CallTypes'
  BY <1>2 DEF KubeInv, CallTypes, CleaningUp, TearingDown
<1> QED
  BY <1>2, <1>3, <1>4, OtherHelperStep

LEMMA AwaitGoneStep ==
  ASSUME KubeInv, NEW listed, K!AwaitGone(listed), ~TearingDown, test.pc = "gone",
         test.op = "waitfor_delete" => (~listed => pod[test.n] = "none"),
         test.op = "delete_ingress" => (~listed => ingress = "none")
  PROVE  KubeInv'
<1>1. test \in KubeTests /\ HistoryTypes
  BY DEF KubeInv, CallTypes
<1>2. CASE listed /\ K!Again /\ K!Succeeds /\ UNCHANGED K!cluster
  <2>1. /\ test' \in KubeTests /\ UNCHANGED <<test.op, test.n, test.left>>
        /\ test'.pc \in {"gone", "raised"}
    BY <1>1, <1>2, KubeAgain
  <2> QED
    BY <1>1, <1>2, <2>1, CommandCounts, WatchingStep
<1>3. CASE ~listed /\ K!Goto("returned") /\ K!Succeeds /\ UNCHANGED K!cluster
  <2>1. /\ test' \in KubeTests /\ UNCHANGED <<test.op, test.n, test.left>>
        /\ test'.pc = "returned"
    BY <1>1, <1>3, KubeGoto DEF KubePlaces
  <2> QED
    BY <1>1, <1>3, <2>1, CommandCounts, WatchingStep
<1>4. CASE K!Goto("returned") /\ K!Fails
  <2>1. /\ test' \in KubeTests /\ UNCHANGED <<test.op, test.n, test.left>>
        /\ test'.pc = "returned"
    BY <1>1, <1>4, KubeGoto DEF KubePlaces
  <2>2. UNCHANGED K!cluster /\ blind' = TRUE
    BY <1>4 DEF K!Fails
  <2> QED
    BY <1>1, <1>4, <2>1, <2>2, CommandCounts, WatchingStep
<1> QED
  BY <1>2, <1>3, <1>4 DEF K!AwaitGone

LEMMA CreateStep ==
  ASSUME KubeInv, K!CreateNamespace \/ K!VerifyNamespace
  PROVE  KubeInv'
<1>1. ~TearingDown /\ test.op = "create_ns"
  BY DEF K!CreateNamespace, K!VerifyNamespace, K!At, TearingDown
<1>2. ASSUME K!Goto("verify"), K!Succeeds, namespace' = [namespace EXCEPT ![test.n] = "Active"],
             UNCHANGED <<pod, wanted, ingress, address>>
      PROVE  KubeInv'
  <2>1. ClusterTypes' /\ \A m \in Namespaces : namespace'[m] = "Terminating" => namespace[m] = "Terminating"
    BY <1>1, <1>2 DEF KubeInv, ClusterTypes
  <2> QED
    BY <1>1, <1>2, <2>1, DoneStep
<1>3. ASSUME K!Goto("returned"), K!Succeeds, UNCHANGED K!cluster
      PROVE  KubeInv'
  <2>1. test \in KubeTests /\ HistoryTypes
    BY DEF KubeInv, CallTypes
  <2>2. /\ test' \in KubeTests /\ test'.pc = "returned"
        /\ UNCHANGED <<test.op, test.n, test.left>>
    BY <1>3, <2>1, KubeGoto DEF KubePlaces
  <2> QED
    BY <1>1, <1>3, <2>1, <2>2, CommandCounts, WatchingStep
<1>4. CASE K!CreateNamespace
  <2>1. CASE K!Refused(namespace[test.n] = "none")
    BY <1>1, <2>1, RefusedStep
  <2> QED
    BY <1>2, <1>4, <2>1 DEF K!CreateNamespace
<1>5. CASE K!VerifyNamespace
  <2>1. CASE K!Refused(namespace[test.n] = "Active")
    BY <1>1, <2>1, RefusedStep
  <2> QED
    BY <1>3, <1>5, <2>1 DEF K!VerifyNamespace
<1> QED
  BY <1>4, <1>5

LEMMA CreateServiceStep ==
  ASSUME KubeInv, K!CreateService
  PROVE  KubeInv'
<1>1. ~TearingDown
  BY DEF K!CreateService, K!At, TearingDown
<1>2. ASSUME K!Goto("pods"), K!Succeeds, wanted' = TRUE, UNCHANGED <<namespace, pod, ingress, address>>
      PROVE  KubeInv'
  <2>1. ClusterTypes'
    BY <1>2 DEF KubeInv, ClusterTypes
  <2> QED
    BY <1>1, <1>2, <2>1, DoneStep
<1>3. CASE K!Refused(~wanted)
  <2> DEFINE allowed == ~wanted
  <2>1. K!Refused(allowed)
    BY <1>3
  <2> HIDE DEF allowed
  <2> QED
    BY <1>1, <2>1, RefusedStep
<1>4. \/ /\ K!Goto("pods") /\ K!Succeeds
         /\ wanted' = TRUE /\ UNCHANGED <<namespace, pod, ingress, address>>
      \/ K!Refused(~wanted)
  BY Zenon DEF K!CreateService
<1> QED
  BY <1>2, <1>3, <1>4, Zenon

LEMMA WaitForPodsStep ==
  ASSUME KubeInv, K!waitfor_pods
  PROVE  KubeInv'
<1>1. /\ ~TearingDown /\ test.op = "create_k8_service" /\ test.pc = "pods"
      /\ test \in KubeTests /\ HistoryTypes
  BY DEF K!waitfor_pods, K!At, TearingDown, KubeInv, CallTypes
<1>2. /\ UNCHANGED K!cluster /\ (K!Succeeds \/ K!Fails)
      /\ K!Goto("names") \/ K!Again \/ K!Goto("raised")
  BY DEF K!waitfor_pods, K!Fails
<1>3. Counted
  BY <1>1, <1>2, CommandCounts
<1>4. ASSUME NEW pc \in {"names", "raised"}, K!Goto(pc)
      PROVE  KubeInv'
  <2>1. /\ test' \in KubeTests /\ test'.pc = pc
        /\ UNCHANGED <<test.op, test.n, test.left>>
    BY <1>1, <1>4, KubeGoto DEF KubePlaces
  <2> QED
    BY <1>1, <1>2, <1>3, <2>1, WatchingStep
<1>5. CASE K!Again
  <2>1. /\ test' \in KubeTests /\ test'.pc \in {"pods", "raised"}
        /\ UNCHANGED <<test.op, test.n, test.left>>
    BY <1>1, <1>5, KubeAgain
  <2> QED
    BY <1>1, <1>2, <1>3, <2>1, WatchingStep
<1> QED
  BY <1>2, <1>4, <1>5

LEMMA PodNamesStep ==
  ASSUME KubeInv, K!get_pod_names_for_selector
  PROVE  KubeInv'
<1>1. /\ ~TearingDown /\ test.op = "create_k8_service" /\ test.pc = "names"
      /\ test \in KubeTests /\ HistoryTypes
  BY DEF K!get_pod_names_for_selector, K!At, TearingDown, KubeInv, CallTypes
<1>2. ASSUME test' = [test EXCEPT !.pc = "returned", !.names = K!PodsListed],
             K!Succeeds, UNCHANGED K!cluster
      PROVE  KubeInv'
  <2>1. K!PodsListed \in SUBSET Pods
    BY DEF K!PodsListed
  <2>2. /\ test' \in KubeTests /\ test'.pc = "returned"
        /\ UNCHANGED <<test.op, test.n, test.left>>
    BY <1>1, <1>2, <2>1 DEF KubeTests, KubePlaces
  <2> QED
    BY <1>1, <1>2, <2>2, CommandCounts, WatchingStep
<1>3. CASE K!Refused(K!Cardinality(K!PodsListed) = PodScale)
  BY <1>1, <1>3, RefusedStep
<1> QED
  BY <1>2, <1>3 DEF K!get_pod_names_for_selector

LEMMA DeletePodStep ==
  ASSUME KubeInv, K!DeletePod \/ K!waitfor_delete
  PROVE  KubeInv'
<1>1. ~TearingDown /\ test.op = "waitfor_delete"
  BY DEF K!DeletePod, K!waitfor_delete, K!At, TearingDown
<1>2. ASSUME K!Goto("gone"), K!Succeeds, pod' = [pod EXCEPT ![test.n] = "Deleting"],
             UNCHANGED <<namespace, wanted, ingress, address>>
      PROVE  KubeInv'
  <2>1. ClusterTypes'
    BY <1>2 DEF KubeInv, ClusterTypes
  <2> QED
    BY <1>1, <1>2, <2>1, DoneStep
<1>3. CASE K!waitfor_delete
  BY <1>1, <1>3, AwaitGoneStep DEF K!waitfor_delete, K!At
<1> QED
  BY <1>1, <1>2, <1>3, RefusedStep DEF K!DeletePod

LEMMA CreateIngressStep ==
  ASSUME KubeInv, K!CreateIngress
  PROVE  KubeInv'
<1>1. ~TearingDown /\ test.pc = "create"
  BY DEF K!CreateIngress, K!At, TearingDown
<1>2. ASSUME K!Goto("ips"), K!Succeeds, ingress' = "there",
             UNCHANGED <<namespace, pod, wanted, address>>
      PROVE  KubeInv'
  <2>1. ClusterTypes' /\ test.ips < ing_scale
    BY <1>1, <1>2 DEF KubeInv, ClusterTypes, CallTypes
  <2> QED
    BY <1>1, <1>2, <2>1, DoneStep
<1> QED
  BY <1>1, <1>2, RefusedStep DEF K!CreateIngress

LEMMA AwaitIngressStep ==
  ASSUME KubeInv, K!wait_for_ingress_to_become_active
  PROVE  KubeInv'
<1> DEFINE ips == test.ips + Cardinality(address)
<1>1. /\ ~TearingDown /\ test.op = "create_ingress" /\ test.pc = "ips" /\ test.ips < ing_scale
      /\ test \in KubeTests /\ HistoryTypes
  BY DEF K!wait_for_ingress_to_become_active, K!At, TearingDown, KubeInv, CallTypes
<1>2. Cardinality(address) \in Nat /\ Cardinality(address) <= Cardinality(Addresses)
  BY KubeConstants, FS_Subset, FS_CardinalityType DEF KubeInv, ClusterTypes
<1>3. ips \in 0 .. ing_scale + Cardinality(Addresses)
  BY <1>1, <1>2, KubeConstants DEF KubeTests
<1>4. /\ UNCHANGED K!cluster /\ (K!Succeeds \/ K!Fails)
      /\ \/ test' = [test EXCEPT !.pc = "returned", !.ips = ips]
         \/ /\ ips < ing_scale /\ test.polls + 1 < Rounds
            /\ test' = [test EXCEPT !.polls = @ + 1, !.ips = ips]
         \/ K!Goto("raised")
  BY KubeConstants DEF K!wait_for_ingress_to_become_active, K!Fails
<1>5. Counted
  BY <1>1, <1>4, CommandCounts
<1> HIDE DEF ips
<1>6. CASE test' = [test EXCEPT !.pc = "returned", !.ips = ips]
  <2>1. /\ test' \in KubeTests /\ test'.pc = "returned"
        /\ UNCHANGED <<test.op, test.n, test.left>>
    BY <1>1, <1>3, <1>6 DEF KubeTests, KubePlaces
  <2> QED
    BY <1>1, <1>4, <1>5, <2>1, WatchingStep
<1>7. CASE /\ ips < ing_scale /\ test.polls + 1 < Rounds
           /\ test' = [test EXCEPT !.polls = @ + 1, !.ips = ips]
  <2>1. test.polls + 1 \in 0 .. Rounds - 1
    BY <1>1, <1>7, KubeConstants DEF KubeTests
  <2>2. /\ test' \in KubeTests /\ test'.pc = "ips" /\ test'.ips < ing_scale
        /\ UNCHANGED <<test.op, test.n, test.left>>
    BY <1>1, <1>3, <1>7, <2>1 DEF KubeTests, KubePlaces
  <2> QED
    BY <1>1, <1>4, <1>5, <2>2, WatchingStep
<1>8. CASE K!Goto("raised")
  <2>1. /\ test' \in KubeTests /\ test'.pc = "raised"
        /\ UNCHANGED <<test.op, test.n, test.left>>
    BY <1>1, <1>8, KubeGoto DEF KubePlaces
  <2> QED
    BY <1>1, <1>4, <1>5, <2>1, WatchingStep
<1> QED
  BY <1>4, <1>6, <1>7, <1>8

LEMMA DeleteIngressStep ==
  ASSUME KubeInv, K!delete_ingress \/ K!PollIngress
  PROVE  KubeInv'
<1>1. ~TearingDown /\ test.op = "delete_ingress"
  BY DEF K!delete_ingress, K!PollIngress, K!At, TearingDown
<1>2. ASSUME K!Goto("gone"), K!Succeeds, ingress' = "deleting",
             UNCHANGED <<namespace, pod, wanted, address>>
      PROVE  KubeInv'
  <2>1. ClusterTypes'
    BY <1>2 DEF KubeInv, ClusterTypes
  <2> QED
    BY <1>1, <1>2, <2>1, DoneStep
<1>3. CASE K!PollIngress
  BY <1>1, <1>3, AwaitGoneStep DEF K!PollIngress, K!At
<1> QED
  BY <1>1, <1>2, <1>3, RefusedStep DEF K!delete_ingress

-----------------------------------------------------------------------------
(* teardown_ns and cleanup_k8s                                             *)

(* The helper goes on to the namespace with the least name, or returns.    *)
LEMMA NextNamespaceStep ==
  ASSUME test \in KubeTests, NEW left \in SUBSET Namespaces, K!NextNamespace(left)
  PROVE  /\ test' \in KubeTests /\ UNCHANGED <<test.op, test.ips>>
         /\ \/ /\ left = {} /\ test'.pc = "returned" /\ UNCHANGED <<test.n, test.left>>
            \/ /\ test'.pc = "delete" /\ test'.n \in left /\ test'.left = left \ {test'.n}
<1>1. CASE left = {} /\ K!Goto("returned")
  BY <1>1, KubeGoto DEF KubePlaces
<1>2. CASE /\ left # {}
           /\ test' = [test EXCEPT !.pc = "delete", !.polls = 0,
                                   !.n = K!First(left), !.left = left \ {K!First(left)}]
  <2>1. left \in SUBSET Nat
    BY KubeConstants
  <2>2. K!First(left) \in left
    BY <1>2, <2>1, LeastNumber DEF K!First
  <2>3. 0 \in 0 .. Rounds - 1
    BY KubeConstants
  <2> QED
    BY <1>2, <2>2, <2>3 DEF KubeTests, KubePlaces, Arguments
<1> QED
  BY <1>1, <1>2 DEF K!NextNamespace

LEMMA DeleteNamespaceStep ==
  ASSUME KubeInv, K!DeleteNamespace
  PROVE  KubeInv'
<1>1. /\ TearingDown /\ test.pc = "delete" /\ test.n \in Namespaces /\ test \in KubeTests
      /\ test.op = "cleanup_k8s" => CleaningUp
      /\ ClusterTypes /\ CallTypes /\ HistoryTypes /\ GoneInv /\ InOrder
  BY DEF K!DeleteNamespace, TearingDown, CleaningUp, KubeInv, CallTypes
<1>2. CASE /\ K!Goto("gone") /\ K!Succeeds /\ namespace[test.n] = "Active"
           /\ namespace' = [namespace EXCEPT ![test.n] = "Terminating"]
           /\ UNCHANGED <<pod, wanted, ingress, address>>
  <2>1. /\ test' \in KubeTests /\ test'.pc = "gone" /\ UNCHANGED <<test.op, test.n, test.left, test.ips>>
    BY <1>1, <1>2, KubeGoto DEF KubePlaces
  <2>2. UNCHANGED <<blind, slow, kubeFaults>>
    BY <1>2 DEF K!Succeeds
  <2>3. ClusterTypes' /\ CallTypes' /\ HistoryTypes'
    BY <1>1, <1>2, <2>1, <2>2 DEF ClusterTypes, CallTypes, HistoryTypes, CleaningUp, TearingDown
  <2>4. \A m \in Namespaces : namespace'[m] = IF m = test.n THEN "Terminating" ELSE namespace[m]
    BY <1>1, <1>2 DEF ClusterTypes
  <2>5. GoneInv'
    BY <1>1, <1>2, <2>1, <2>2, <2>4 DEF GoneInv, CleaningUp, K!ToCleanUp, K!Listed
  <2>6. InOrder'
    BY <1>1, <2>1, <2>2, <2>4 DEF InOrder, CleaningUp, TearingDown, CallTypes, KubeTests
  <2> QED
    BY <2>3, <2>5, <2>6 DEF KubeInv
<1>3. CASE K!Refused(namespace[test.n] = "Active" /\ test.n \notin Protected)
  <2>1. /\ UNCHANGED K!cluster /\ K!Goto("raised")
        /\ \/ ~(namespace[test.n] = "Active" /\ test.n \notin Protected) /\ K!Succeeds
           \/ K!Fails
    BY <1>3 DEF K!Refused, K!Fails
  <2>2. /\ test' \in KubeTests /\ test'.pc = "raised"
        /\ UNCHANGED <<test.op, test.n, test.left, test.ips>>
    BY <1>1, <2>1, KubeGoto DEF KubePlaces
  <2>3. Counted
    BY <1>1, <2>1, CommandCounts
  <2>4. UNCHANGED <<namespace, pod, wanted, ingress, address>>
    BY <2>1 DEF K!cluster
  <2>5. ClusterTypes' /\ CallTypes' /\ HistoryTypes'
    BY <1>1, <2>2, <2>3, <2>4 DEF ClusterTypes, CallTypes, Counted, CleaningUp, TearingDown
  <2>6. GoneInv'
    BY <2>2 DEF GoneInv, CleaningUp
  <2>7. kubeFaults' = 0 /\ ~slow' => test.op # "cleanup_k8s"
    BY <1>1, <2>1, <2>3, FailureIsSeen DEF Counted, InOrder
  <2>8. InOrder'
    BY <1>1, <2>2, <2>3, <2>4, <2>7 DEF InOrder, CleaningUp, TearingDown, Counted
  <2> QED
    BY <2>5, <2>6, <2>8 DEF KubeInv
<1> QED
  BY <1>2, <1>3 DEF K!DeleteNamespace

(* The helper goes on after a namespace that is gone, or not seen.         *)
GoesOn(left) ==
    /\ UNCHANGED <<K!cluster, slow>> /\ K!NextNamespace(left)
    /\ \/ K!Succeeds /\ (test.op = "cleanup_k8s" => K!ToCleanUp \subseteq left)
       \/ blind' = TRUE

LEMMA GoesOnStep ==
  ASSUME KubeInv, TearingDown, NEW left \in SUBSET Namespaces, GoesOn(left), Counted,
         test.op = "teardown_ns" => left = {} /\ (~blind' => namespace[test.n] = "none"),
         kubeFaults' = 0 /\ ~slow' =>
            \A m \in Namespaces : /\ namespace[m] # "Terminating"
                                  /\ m \in left => namespace[m] = "Active" /\ m \notin Protected
  PROVE  KubeInv'
<1>1. ClusterTypes /\ CallTypes /\ HistoryTypes /\ test \in KubeTests
  BY DEF KubeInv, CallTypes
<1>2. UNCHANGED <<namespace, pod, wanted, ingress, address, slow>>
  BY DEF GoesOn, K!cluster
<1>3. /\ test' \in KubeTests /\ UNCHANGED <<test.op, test.ips>>
      /\ \/ /\ left = {} /\ test'.pc = "returned" /\ UNCHANGED <<test.n, test.left>>
         \/ /\ test'.pc = "delete" /\ test'.n \in left /\ test'.left = left \ {test'.n}
  BY <1>1, NextNamespaceStep DEF GoesOn
<1>4. ClusterTypes' /\ CallTypes' /\ HistoryTypes'
  BY <1>1, <1>2, <1>3 DEF ClusterTypes, CallTypes, Counted, CleaningUp, TearingDown
<1>5. GoneInv'
  BY <1>2, <1>3 DEF GoneInv, GoesOn, CleaningUp, TearingDown, K!ToCleanUp, K!Listed
<1>6. InOrder'
  BY <1>2, <1>3 DEF InOrder, CleaningUp, TearingDown
<1> QED
  BY <1>4, <1>5, <1>6 DEF KubeInv

LEMMA ListNamespacesStep ==
  ASSUME KubeInv, K!ListNamespaces
  PROVE  KubeInv'
<1>1. /\ TearingDown /\ test.pc = "list" /\ test.op = "cleanup_k8s" /\ test \in KubeTests
      /\ ClusterTypes /\ CallTypes /\ HistoryTypes /\ InOrder
  BY DEF K!ListNamespaces, K!At, TearingDown, KubeInv, CallTypes
<1>2. CASE K!NextNamespace(K!ToCleanUp) /\ K!Succeeds /\ UNCHANGED K!cluster
  <2>1. K!ToCleanUp \in SUBSET Namespaces /\ GoesOn(K!ToCleanUp)
    BY <1>2 DEF K!ToCleanUp, GoesOn, K!Succeeds
  <2>2. Counted
    BY <1>1, <1>2, CommandCounts
  <2>3. kubeFaults' = 0 /\ ~slow' =>
            \A m \in Namespaces :
               /\ namespace[m] # "Terminating"
               /\ m \in K!ToCleanUp => namespace[m] = "Active" /\ m \notin Protected
    BY <1>1, <2>2 DEF InOrder, Counted, K!ToCleanUp, K!Listed, ClusterTypes
  <2> QED
    BY <1>1, <2>1, <2>2, <2>3, GoesOnStep
<1>3. CASE K!Goto("raised") /\ K!Fails
  <2>1. /\ test' \in KubeTests /\ test'.pc = "raised"
        /\ UNCHANGED <<test.op, test.n, test.left, test.ips>>
    BY <1>1, <1>3, KubeGoto DEF KubePlaces
  <2>2. UNCHANGED <<namespace, pod, wanted, ingress, address>> /\ kubeFaults' # 0
    BY <1>1, <1>3, FailureIsSeen DEF K!Fails, K!cluster
  <2>3. HistoryTypes'
    BY <1>1, <1>3, CommandCounts DEF Counted
  <2>4. ClusterTypes' /\ CallTypes'
    BY <1>1, <2>1, <2>2 DEF ClusterTypes, CallTypes, CleaningUp, TearingDown
  <2>5. GoneInv' /\ InOrder'
    BY <2>1, <2>2 DEF GoneInv, InOrder, CleaningUp
  <2> QED
    BY <2>3, <2>4, <2>5 DEF KubeInv
<1> QED
  BY <1>2, <1>3 DEF K!ListNamespaces

LEMMA PollNamespacesStep ==
  ASSUME KubeInv, K!PollNamespaces
  PROVE  KubeInv'
<1>1. /\ TearingDown /\ test.pc = "gone" /\ test.n \in Namespaces /\ test \in KubeTests
      /\ test.op = "cleanup_k8s" <=> CleaningUp
      /\ test.op = "teardown_ns" => test.left = {}
      /\ test.left \in SUBSET Namespaces
      /\ ClusterTypes /\ CallTypes /\ HistoryTypes /\ GoneInv /\ InOrder
  BY DEF K!PollNamespaces, TearingDown, CleaningUp, KubeInv, CallTypes, KubeTests
<1>2. CASE /\ K!InResponse(test.n) /\ K!Again /\ UNCHANGED <<K!cluster, blind, kubeFaults>>
           /\ slow' = (slow \/ (test.polls + 1 = Rounds /\ K!Listed(test.n)))
  <2>1. /\ test' \in KubeTests /\ UNCHANGED <<test.op, test.n, test.left, test.ips>>
        /\ \/ test'.pc = "gone"
           \/ test.polls + 1 = Rounds /\ test'.pc = "raised"
    BY <1>1, <1>2, KubeAgain
  <2>2. UNCHANGED <<namespace, pod, wanted, ingress, address, blind, kubeFaults>>
    BY <1>2 DEF K!cluster
  <2>3. HistoryTypes'
    BY <1>1, <1>2 DEF HistoryTypes
  <2>4. ClusterTypes' /\ CallTypes'
    BY <1>1, <2>1, <2>2 DEF ClusterTypes, CallTypes, CleaningUp, TearingDown
  <2>5. GoneInv'
    BY <1>1, <2>1, <2>2 DEF GoneInv, CleaningUp, K!ToCleanUp, K!Listed
  <2>6. InOrder'
    <3> SUFFICES ASSUME kubeFaults' = 0, ~slow' PROVE InOrder'
      BY DEF InOrder
    <3>1. CASE test'.pc = "gone"
      BY <1>1, <1>2, <2>1, <2>2, <3>1 DEF InOrder, CleaningUp, TearingDown
    <3>2. CASE test.polls + 1 = Rounds /\ test'.pc = "raised"
      <4>1. ~slow /\ kubeFaults = 0 /\ namespace[test.n] = "none"
        BY <1>2, <2>2, <3>2 DEF K!Listed
      <4>2. \A m \in Namespaces : namespace[m] # "Terminating"
        BY <1>1, <4>1 DEF InOrder
      <4>3. PICK m \in Containing[test.n] : namespace[m] # "none"
        BY <1>2 DEF K!InResponse, K!Listed
      <4>4. m \in Namespaces /\ m # test.n
        BY <1>1, <4>1, <4>3, KubeConstants
      <4>5. namespace[m] = "Active"
        BY <1>1, <4>2, <4>3, <4>4 DEF ClusterTypes
      <4> QED
        BY <2>1, <2>2, <3>2, <4>2, <4>3, <4>4, <4>5 DEF InOrder, CleaningUp
    <3> QED
      BY <2>1, <3>1, <3>2
  <2> QED
    BY <2>3, <2>4, <2>5, <2>6 DEF KubeInv
<1>3. CASE ~K!InResponse(test.n) /\ K!NextNamespace(test.left) /\ K!Succeeds /\ UNCHANGED K!cluster
  <2>1. namespace[test.n] = "none"
    BY <1>1, <1>3, KubeConstants DEF K!InResponse, K!Listed
  <2>2. Counted
    BY <1>1, <1>3, CommandCounts
  <2>3. GoesOn(test.left)
    <3>1. UNCHANGED <<K!cluster, slow, blind>> /\ blind \in BOOLEAN
      BY <1>1, <1>3 DEF K!Succeeds, HistoryTypes
    <3>2. blind # TRUE /\ test.op = "cleanup_k8s" => K!ToCleanUp \subseteq test.left
      BY <1>1, <2>1, <3>1 DEF GoneInv, K!ToCleanUp, K!Listed
    <3> QED
      BY <1>3, <3>1, <3>2 DEF GoesOn
  <2>4. kubeFaults' = 0 /\ ~slow' =>
            \A m \in Namespaces :
               /\ namespace[m] # "Terminating"
               /\ m \in test.left => namespace[m] = "Active" /\ m \notin Protected
    <3> SUFFICES ASSUME kubeFaults' = 0, ~slow', NEW m \in Namespaces
                 PROVE  /\ namespace[m] # "Terminating"
                        /\ m \in test.left => namespace[m] = "Active" /\ m \notin Protected
      OBVIOUS
    <3>1. kubeFaults = 0 /\ ~slow
      BY <2>2 DEF Counted
    <3>2. namespace[m] # "Terminating"
      BY <1>1, <2>1, <3>1 DEF InOrder
    <3>3. ASSUME m \in test.left PROVE namespace[m] = "Active" /\ m \notin Protected
      <4>1. CleaningUp
        BY <1>1, <3>3 DEF TearingDown
      <4> QED
        BY <1>1, <3>1, <3>3, <4>1 DEF InOrder
    <3> QED
      BY <3>2, <3>3
  <2> QED
    BY <1>1, <2>1, <2>2, <2>3, <2>4, GoesOnStep
<1>4. CASE K!NextNamespace(test.left) /\ K!Fails
  <2>1. GoesOn(test.left) /\ Counted /\ blind' = TRUE /\ kubeFaults' # 0
    BY <1>1, <1>4, CommandCounts, FailureIsSeen DEF GoesOn, K!Fails
  <2> QED
    BY <1>1, <2>1, GoesOnStep
<1> QED
  BY <1>2, <1>3, <1>4 DEF K!PollNamespaces

-----------------------------------------------------------------------------
(* The next helper is called, and the cluster does what it was asked for.  *)
LEMMA NextHelperStep ==
  ASSUME KubeInv, K!NextCall
  PROVE  KubeInv'
<1>1. /\ test.pc \in {"returned", "raised"} /\ UNCHANGED <<K!cluster, slow, kubeFaults>> /\ blind' = FALSE
      /\ ClusterTypes /\ CallTypes /\ HistoryTypes /\ InOrder
  BY DEF K!NextCall, KubeInv
<1>2. PICK op \in KubeOps, pc \in {"create", "delete", "list", "service"}, n \in Arguments :
         /\ test' = K!Call(op, pc, n)
         /\ op \in {"create_ns", "teardown_ns"} => n \in Namespaces
         /\ op = "waitfor_delete" => n \in Pods
         /\ op = "cleanup_k8s" => pc = "list"
  BY DEF K!NextCall, KubeOps, Arguments
<1>3. 0 \in 0 .. Rounds - 1 /\ 0 \in 0 .. ing_scale + Cardinality(Addresses) /\ 0 < ing_scale
  BY KubeConstants
<1>4. UNCHANGED <<namespace, pod, wanted, ingress, address, slow, kubeFaults>>
  BY <1>1 DEF K!cluster
<1>5. /\ test' \in KubeTests /\ test'.left = {} /\ test'.pc = pc /\ test'.op = op /\ test'.n = n
      /\ test'.ips = 0
  BY <1>2, <1>3 DEF KubeTests, KubePlaces, K!Call
<1>6. ClusterTypes' /\ CallTypes' /\ HistoryTypes'
  BY <1>1, <1>2, <1>3, <1>4, <1>5 DEF ClusterTypes, CallTypes, HistoryTypes, CleaningUp
<1>7. GoneInv' /\ InOrder'
  BY <1>1, <1>2, <1>4, <1>5 DEF GoneInv, InOrder, CleaningUp
<1> QED
  BY <1>6, <1>7 DEF KubeInv

LEMMA ClusterStep ==
  ASSUME KubeInv, K!Cluster
  PROVE  KubeInv'
<1>1. /\ UNCHANGED <<test, blind, slow, kubeFaults>>
      /\ ClusterTypes /\ CallTypes /\ HistoryTypes /\ GoneInv /\ InOrder
  BY DEF K!Cluster, KubeInv
<1>2. CallTypes' /\ HistoryTypes'
  BY <1>1 DEF CallTypes, HistoryTypes, CleaningUp
<1>3. CASE \E n \in Namespaces : /\ namespace[n] = "Terminating"
                                 /\ namespace' = [namespace EXCEPT ![n] = "none"]
                                 /\ UNCHANGED <<pod, wanted, ingress, address>>
  <2>1. PICK n \in Namespaces : /\ namespace[n] = "Terminating"
                                /\ namespace' = [namespace EXCEPT ![n] = "none"]
                                /\ UNCHANGED <<pod, wanted, ingress, address>>
    BY <1>3
  <2>2. \A m \in Namespaces : namespace'[m] = IF m = n THEN "none" ELSE namespace[m]
    BY <1>1, <2>1 DEF ClusterTypes
  <2>3. ClusterTypes'
    BY <1>1, <2>1 DEF ClusterTypes
  <2>4. GoneInv'
    BY <1>1, <2>1, <2>2 DEF GoneInv, CleaningUp, CallTypes, K!ToCleanUp, K!Listed
  <2>5. InOrder'
    <3> SUFFICES ASSUME kubeFaults = 0, ~slow PROVE InOrder'
      BY <1>1 DEF InOrder
    <3>1. TearingDown /\ test.pc = "gone" /\ n = test.n
      BY <1>1, <2>1 DEF InOrder
    <3> QED
      BY <1>1, <2>2, <3>1 DEF InOrder, CleaningUp, TearingDown, CallTypes, KubeTests
  <2> QED
    BY <1>2, <2>3, <2>4, <2>5 DEF KubeInv
<1>4. ASSUME UNCHANGED namespace, ClusterTypes',
             test.op = "waitfor_delete" /\ pod[test.n] = "none" => pod'[test.n] = "none",
             ingress = "none" => ingress' = "none"
      PROVE  KubeInv'
  <2>1. GoneInv' /\ InOrder'
    BY <1>1, <1>4 DEF GoneInv, InOrder, CleaningUp, TearingDown, K!ToCleanUp, K!Listed
  <2> QED
    BY <1>2, <1>4, <2>1 DEF KubeInv
<1>5. ASSUME NEW p \in Pods, NEW s \in {"none", "Pending", "Running", "Deleting"},
             pod' = [pod EXCEPT ![p] = s], pod[p] = "none" => p # test.n,
             UNCHANGED <<namespace, wanted, ingress, address>>
      PROVE  KubeInv'
  <2>1. ClusterTypes'
    BY <1>1, <1>5 DEF ClusterTypes
  <2>2. test.op = "waitfor_delete" /\ pod[test.n] = "none" => pod'[test.n] = "none"
    BY <1>1, <1>5 DEF ClusterTypes, CallTypes
  <2> QED
    BY <1>4, <1>5, <2>1, <2>2
<1>6. CASE \E a \in Addresses \ address :
             /\ ingress = "there" /\ address' = address \cup {a}
             /\ UNCHANGED <<namespace, pod, wanted, ingress>>
  BY <1>1, <1>4, <1>6 DEF ClusterTypes
<1>7. CASE /\ ingress = "deleting" /\ ingress' = "none" /\ address' = {}
           /\ UNCHANGED <<namespace, pod, wanted>>
  BY <1>1, <1>4, <1>7 DEF ClusterTypes
<1> QED
  BY <1>3, <1>5, <1>6, <1>7 DEF K!Cluster

LEMMA KubeStep ==
  ASSUME KubeInv, [K!Next]_kubectl
  PROVE  KubeInv'
<1>1. CASE UNCHANGED kubectl
  <2>1. UNCHANGED <<namespace, pod, wanted, ingress, address, test, blind, slow, kubeFaults>>
    BY <1>1 DEF kubectl
  <2>2. ClusterTypes' /\ CallTypes' /\ HistoryTypes'
    BY <2>1 DEF KubeInv, ClusterTypes, CallTypes, HistoryTypes, CleaningUp
  <2>3. GoneInv' /\ InOrder'
    BY <2>1 DEF KubeInv, GoneInv, InOrder, CleaningUp, TearingDown, K!ToCleanUp, K!Listed
  <2> QED
    BY <2>2, <2>3 DEF KubeInv
<1>2. CASE K!Helper
  BY <1>2, CreateStep, DeleteNamespaceStep, PollNamespacesStep, ListNamespacesStep, CreateServiceStep,
     WaitForPodsStep, PodNamesStep, DeletePodStep, CreateIngressStep, AwaitIngressStep, DeleteIngressStep
     DEF K!Helper
<1> QED
  BY <1>1, <1>2, NextHelperStep, ClusterStep DEF K!Next

LEMMA KubeFollows == KubeInv => K!TypeOK /\ K!DeletedMeansGone /\ K!CleanupEndsWell
<1> SUFFICES ASSUME KubeInv PROVE K!TypeOK /\ K!DeletedMeansGone /\ K!CleanupEndsWell
  OBVIOUS
<1>1. ClusterTypes /\ CallTypes /\ HistoryTypes /\ GoneInv /\ InOrder
  BY DEF KubeInv
<1>2. K!TypeOK
  BY <1>1, KubeConstants DEF K!TypeOK, ClusterTypes, CallTypes, HistoryTypes, KubeTests, KubeOps,
     KubePlaces, Arguments
<1>3. K!DeletedMeansGone
  BY <1>1 DEF K!DeletedMeansGone, GoneInv
<1>4. K!CleanupEndsWell
  <2> SUFFICES ASSUME test.pc = "raised", test.op = "cleanup_k8s", ~(kubeFaults > 0), ~slow
               PROVE  \E m \in Containing[test.n] \ {test.n} : K!Listed(m)
    BY DEF K!CleanupEndsWell
  <2>1. kubeFaults = 0
    BY <1>1, KubeConstants DEF HistoryTypes
  <2> QED
    BY <1>1, <2>1 DEF InOrder, K!Listed
<1> QED
  BY <1>2, <1>3, <1>4
===========================================================================
