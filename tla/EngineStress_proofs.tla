------------------------- MODULE EngineStress_proofs -------------------------
(***************************************************************************)
(* Proofs about the three stress tests of the engine, for any pages,       *)
(* addresses, blocks and processes, any limits, and any delays that are    *)
(* together below the slack.                                               *)
(***************************************************************************)
EXTENDS MC_EngineStress, Integers, TLAPS

-----------------------------------------------------------------------------
(* rebuild-test.py                                                         *)

(* What the writer has on the disk where it stands in an iteration.        *)
WrittenInv ==
    /\ w.pc # "alarm"
    /\ w.pc \in {"write2", "check"} => disk[w.index] = w.pattern1
    /\ w.pc \in {"check", "check2", "count", "snapshot", "rewrite"} => disk[w.index2] = w.pattern1
    /\ w.pc = "recheck" => disk[w.index] = w.pattern2
    /\ w.pc \in {"recheck", "recheck2"} /\ w.index2 # w.index => disk[w.index2] = w.pattern1
    /\ w.pc = "recheck2" => w.index2 # w.index

Rebuilds == {"pick", "run", "rm", "add", "copy", "drop", "list", "remove"}

(* The controller has this replica in its list, with all the data.         *)
Serves(ip) == ip \in known /\ ip \in healthy

(* The replica that is not rebuilt serves until the new one does.          *)
ReplicaInv ==
    /\ w.pc = "setup" => b.pc = "none"
    /\ b.pc = "none" => known = {} /\ b.old = 2 /\ b.other = 3
    /\ b.old # b.other
    /\ b.pc \in Rebuilds => Serves(b.other)
    /\ b.pc \in {"pick", "list", "remove"} => Serves(b.old)
    /\ b.pc \in {"run", "rm", "add", "copy", "drop"} => b.new # b.other
    /\ b.pc = "copy" => b.new \in known
    /\ b.pc = "drop" => Serves(b.new)
    /\ known # {} => \E ip \in known : ip \in healthy

(* How many snapshots the writer may find or leave when none is added by a *)
(* rebuilding any more: "to" is one less if it is about to add its own.    *)
AtMost(n, most) == n <= most /\ (w.pc = "snapshot" => n < most)

(* One above the limit for the writer and one for the rebuilding, which    *)
(* removes all it lists before it adds another, and one for each listing   *)
(* that failed.                                                            *)
SnapshotInv ==
    /\ snapshots \in Nat /\ unlisted \in Nat
    /\ AtMost(snapshots, SnapshotLimit + 2 + unlisted)
    /\ b.pc \in {"none", "pick", "run", "rm", "add"}
          => AtMost(snapshots, SnapshotLimit + 1 + unlisted)
    /\ b.pc = "remove" => /\ b.left <= snapshots
                          /\ AtMost(snapshots - b.left, SnapshotLimit + 1 + unlisted)

RebuildInv == R!TypeOK /\ WrittenInv /\ ReplicaInv /\ SnapshotInv

(* The records of the two processes, as the type invariant has them.       *)
WriterSet ==
    [pc : {"setup", "begin", "write2", "check", "check2", "count", "snapshot",
           "rewrite", "recheck", "recheck2", "alarm", "raised"},
     index : Pages, index2 : Pages, pattern1 : Bytes, pattern2 : Bytes]

RebuilderSet ==
    [pc : {"none", "pick", "run", "rm", "add", "copy", "drop", "list", "remove",
           "raised", "terminated"},
     old : Subnets, other : Subnets, new : Subnets, left : Nat]

LEMMA RebuildInit == R!Init => RebuildInv
<1> SUFFICES ASSUME R!Init PROVE RebuildInv
  OBVIOUS
<1>1. PICK i \in Pages, x \in Bytes :
        w = [pc |-> "setup", index |-> i, index2 |-> i, pattern1 |-> x, pattern2 |-> x]
  BY RebuildBounds DEF R!Bounds, R!Init
<1>2. R!TypeOK
  <2>1. w \in WriterSet
    BY <1>1 DEF WriterSet
  <2>2. b \in RebuilderSet
    BY RebuildBounds DEF R!Bounds, R!Init, RebuilderSet
  <2>3. /\ disk \in [Pages -> Bytes \cup {R!None}] /\ known = {} /\ healthy = {}
        /\ snapshots = 0 /\ ready = FALSE /\ broken = 0 /\ unlisted = 0
    BY DEF R!Init
  <2>4. broken \in 0 .. RebuildFaults /\ healthy \subseteq Subnets /\ known \subseteq Subnets
        /\ snapshots \in Nat
    BY <2>3, RebuildBounds DEF R!Bounds
  <2>5. ready \in BOOLEAN
    BY <2>3
  <2> QED
    BY <2>1, <2>2, <2>3, <2>4, <2>5 DEF R!TypeOK, WriterSet, RebuilderSet
<1>3. WrittenInv
  BY <1>1 DEF WrittenInv
<1>4. ReplicaInv
  BY <1>1 DEF ReplicaInv, R!Init, Rebuilds
<1>5. SnapshotInv
  BY <1>1, RebuildBounds DEF SnapshotInv, AtMost, R!Init, R!Bounds
<1> QED
  BY <1>2, <1>3, <1>4, <1>5 DEF RebuildInv

(* An end of the writer ends its child; a fault is counted.                *)
LEMMA RebuildFault ==
  ASSUME R!TypeOK, R!Fails
  PROVE  broken' \in 0 .. RebuildFaults
BY RebuildBounds DEF R!TypeOK, R!Fails, R!Bounds

LEMMA FinallyStep ==
  ASSUME RebuildInv, R!Finally, broken' \in 0 .. RebuildFaults, w.pc # "setup"
  PROVE  RebuildInv'
<1>1. w \in WriterSet /\ b \in RebuilderSet
  BY DEF RebuildInv, R!TypeOK, WriterSet, RebuilderSet
<1>2. /\ w' \in WriterSet /\ w'.pc = "raised"
      /\ b' \in RebuilderSet /\ b'.old = b.old /\ b'.other = b.other
      /\ b'.pc \in {"raised", "terminated"}
  BY <1>1 DEF R!Finally, WriterSet, RebuilderSet
<1>3. UNCHANGED <<disk, known, healthy, snapshots, ready, unlisted>>
  BY DEF R!Finally
<1>4. R!TypeOK'
  BY <1>2, <1>3 DEF RebuildInv, R!TypeOK, WriterSet, RebuilderSet
<1>5. WrittenInv'
  BY <1>2 DEF WrittenInv
<1>6. ReplicaInv'
  BY <1>2, <1>3 DEF RebuildInv, ReplicaInv, Rebuilds, Serves
<1>7. SnapshotInv'
  BY <1>2, <1>3, RebuildBounds DEF RebuildInv, SnapshotInv, AtMost, R!Bounds
<1> QED
  BY <1>4, <1>5, <1>6, <1>7 DEF RebuildInv

LEMMA SetupStep ==
  ASSUME RebuildInv, R!Setup
  PROVE  RebuildInv'
<1>1. /\ w \in WriterSet /\ b \in RebuilderSet /\ w.pc = "setup" /\ b.pc = "none"
      /\ b.old = 2 /\ b.other = 3 /\ {2, 3} \subseteq Subnets
  BY RebuildBounds DEF RebuildInv, R!TypeOK, WriterSet, RebuilderSet, ReplicaInv, R!Setup, R!Bounds
<1>2. CASE w' = [w EXCEPT !.pc = "begin"]
  <2>1. /\ ready' \in BOOLEAN /\ known' = {2, 3} /\ healthy' = {2, 3}
        /\ b' = [b EXCEPT !.pc = "pick"] /\ UNCHANGED <<disk, snapshots, broken, unlisted>>
    <3>1. w'.pc # "raised"
      BY <1>1, <1>2 DEF WriterSet
    <3> QED
      BY <1>1, <3>1 DEF R!Setup, WriterSet
  <2>2. /\ w' \in WriterSet /\ w'.pc = "begin"
        /\ b' \in RebuilderSet /\ b'.old = 2 /\ b'.other = 3 /\ b'.pc = "pick"
    BY <1>1, <1>2, <2>1 DEF WriterSet, RebuilderSet
  <2>3. R!TypeOK'
    BY <1>1, <2>1, <2>2 DEF RebuildInv, R!TypeOK, WriterSet, RebuilderSet
  <2>4. ReplicaInv'
    BY <2>1, <2>2 DEF ReplicaInv, Rebuilds, Serves
  <2>5. SnapshotInv'
    BY <1>1, <2>1, <2>2 DEF RebuildInv, SnapshotInv, AtMost
  <2> QED
    BY <2>2, <2>3, <2>4, <2>5 DEF RebuildInv, WrittenInv
<1>3. CASE /\ R!Fails /\ w' = [w EXCEPT !.pc = "raised"]
           /\ UNCHANGED <<disk, known, healthy, snapshots, b, ready, unlisted>>
  <2>1. w' \in WriterSet /\ w'.pc = "raised" /\ broken' \in 0 .. RebuildFaults
    BY <1>1, <1>3, RebuildFault DEF WriterSet, RebuildInv
  <2>2. R!TypeOK'
    BY <1>3, <2>1 DEF RebuildInv, R!TypeOK, WriterSet
  <2>3. ReplicaInv' /\ SnapshotInv'
    BY <1>1, <1>3, <2>1, RebuildBounds DEF RebuildInv, ReplicaInv, SnapshotInv, AtMost, Rebuilds, Serves, R!Bounds
  <2> QED
    BY <2>1, <2>2, <2>3 DEF RebuildInv, WrittenInv
<1> QED
  BY <1>2, <1>3 DEF R!Setup

(***************************************************************************)
(* A step of the writer alone: where it comes to, the disk and, if it has  *)
(* taken one, its snapshot.                                                *)
(***************************************************************************)
WriterGoes ==
    /\ w' \in WriterSet /\ w'.pc # "setup"
    /\ disk' \in [Pages -> Bytes \cup {R!None}]
    /\ UNCHANGED <<known, healthy, b, ready>>

LEMMA WriterKeepsReplicas ==
  ASSUME RebuildInv, WriterGoes, SnapshotInv', WrittenInv', broken' \in 0 .. RebuildFaults
  PROVE  RebuildInv'
<1>1. R!TypeOK'
  BY DEF RebuildInv, R!TypeOK, WriterGoes, WriterSet, SnapshotInv
<1>2. ReplicaInv'
  BY DEF RebuildInv, ReplicaInv, WriterGoes, Rebuilds, Serves
<1> QED
  BY <1>1, <1>2 DEF RebuildInv

(* Without a snapshot, the writer is not about to take one, or has looked  *)
(* at the limit.                                                           *)
LEMMA WriterCounts ==
  ASSUME RebuildInv, WriterGoes, UNCHANGED <<snapshots, unlisted>>,
         w'.pc = "snapshot" => snapshots <= SnapshotLimit
  PROVE  SnapshotInv'
<1>1. snapshots \in Nat /\ unlisted \in Nat /\ SnapshotLimit \in Nat /\ b.left \in Nat /\ b' = b
  BY RebuildBounds DEF RebuildInv, R!TypeOK, R!Bounds, WriterGoes
<1> QED
  BY <1>1 DEF RebuildInv, SnapshotInv, AtMost

(* A step that nothing fails in.                                           *)
LEMMA NothingFails ==
  ASSUME RebuildInv, UNCHANGED broken
  PROVE  broken' \in 0 .. RebuildFaults
BY DEF RebuildInv, R!TypeOK

(* A write, by the first page of an iteration, the second, or the first    *)
(* again after the snapshot.                                               *)
LEMMA BeginStep ==
  ASSUME RebuildInv, R!Begin
  PROVE  RebuildInv'
<1>1. w \in WriterSet /\ w.pc = "begin" /\ disk \in [Pages -> Bytes \cup {R!None}]
  BY DEF RebuildInv, R!TypeOK, WriterSet, R!Begin
<1>2. CASE R!NoDisk
  BY <1>1, <1>2, FinallyStep DEF R!NoDisk, RebuildInv, R!TypeOK
<1>3. ASSUME NEW i \in Pages, NEW j \in Pages, NEW x \in Bytes,
             R!writeat_direct(i, x),
             w' = [w EXCEPT !.pc = "write2", !.index = i, !.index2 = j, !.pattern1 = x],
             UNCHANGED <<known, healthy, snapshots, b, ready, broken, unlisted>>
      PROVE  RebuildInv'
  <2>1. disk' = [disk EXCEPT ![i] = x]
    BY <1>3 DEF R!writeat_direct
  <2>2. /\ w' \in WriterSet /\ w'.pc = "write2" /\ w'.index = i /\ w'.pattern1 = x
    BY <1>1, <1>3 DEF WriterSet
  <2>3. WriterGoes
    BY <1>1, <1>3, <2>1, <2>2 DEF WriterGoes
  <2>4. WrittenInv'
    BY <1>1, <2>1, <2>2 DEF WrittenInv
  <2> QED
    BY <1>3, <2>2, <2>3, <2>4, WriterCounts, NothingFails, WriterKeepsReplicas
<1> QED
  BY <1>2, <1>3 DEF R!Begin

LEMMA Write2Step ==
  ASSUME RebuildInv, R!Write2
  PROVE  RebuildInv'
<1>1. /\ w \in WriterSet /\ w.pc = "write2" /\ disk \in [Pages -> Bytes \cup {R!None}]
      /\ disk[w.index] = w.pattern1 /\ w.index \in Pages /\ w.index2 \in Pages /\ w.pattern1 \in Bytes
  BY DEF RebuildInv, R!TypeOK, WriterSet, R!Write2, WrittenInv
<1>2. CASE R!NoDisk
  BY <1>1, <1>2, FinallyStep DEF R!NoDisk, RebuildInv, R!TypeOK
<1>3. CASE R!writeat_direct(w.index2, w.pattern1) /\ R!WriterMoves("check") /\ UNCHANGED snapshots
  <2>1. disk' = [disk EXCEPT ![w.index2] = w.pattern1]
    BY <1>3 DEF R!writeat_direct
  <2>2. /\ w' \in WriterSet /\ w'.pc = "check" /\ w'.index = w.index /\ w'.index2 = w.index2
        /\ w'.pattern1 = w.pattern1
    BY <1>1, <1>3 DEF WriterSet, R!WriterMoves
  <2>3. WriterGoes
    BY <1>1, <1>3, <2>1, <2>2 DEF WriterGoes, R!WriterMoves
  <2>4. WrittenInv'
    BY <1>1, <2>1, <2>2 DEF WrittenInv
  <2>5. UNCHANGED <<snapshots, unlisted, broken>>
    BY <1>3 DEF R!WriterMoves
  <2> QED
    BY <2>2, <2>3, <2>4, <2>5, WriterCounts, NothingFails, WriterKeepsReplicas
<1> QED
  BY <1>2, <1>3 DEF R!Write2

LEMMA RewriteStep ==
  ASSUME RebuildInv, R!Rewrite
  PROVE  RebuildInv'
<1>1. /\ w \in WriterSet /\ w.pc = "rewrite" /\ disk \in [Pages -> Bytes \cup {R!None}]
      /\ disk[w.index2] = w.pattern1 /\ w.index \in Pages /\ w.index2 \in Pages
  BY DEF RebuildInv, R!TypeOK, WriterSet, R!Rewrite, WrittenInv
<1>2. CASE R!NoDisk
  BY <1>1, <1>2, FinallyStep DEF R!NoDisk, RebuildInv, R!TypeOK
<1>3. ASSUME NEW x \in Bytes, R!writeat_direct(w.index, x),
             w' = [w EXCEPT !.pc = "recheck", !.pattern2 = x],
             UNCHANGED <<known, healthy, snapshots, b, ready, broken, unlisted>>
      PROVE  RebuildInv'
  <2>1. disk' = [disk EXCEPT ![w.index] = x]
    BY <1>3 DEF R!writeat_direct
  <2>2. /\ w' \in WriterSet /\ w'.pc = "recheck" /\ w'.index = w.index /\ w'.index2 = w.index2
        /\ w'.pattern1 = w.pattern1 /\ w'.pattern2 = x
    BY <1>1, <1>3 DEF WriterSet
  <2>3. WriterGoes
    BY <1>1, <1>3, <2>1, <2>2 DEF WriterGoes
  <2>4. WrittenInv'
    BY <1>1, <2>1, <2>2 DEF WrittenInv
  <2> QED
    BY <1>3, <2>2, <2>3, <2>4, WriterCounts, NothingFails, WriterKeepsReplicas
<1> QED
  BY <1>2, <1>3 DEF R!Rewrite

(***************************************************************************)
(* A check of a page that has the pattern goes on to the next one.         *)
(***************************************************************************)
LEMMA CheckStep ==
  ASSUME RebuildInv, NEW page, NEW pattern, NEW next \in {"check2", "count", "recheck2", "begin"},
         R!check_data(page, pattern, next), disk[page] = pattern,
         w.pc \in {"check", "check2", "recheck", "recheck2"},
         next = "check2" => w.pc = "check",
         next = "count" => w.pc = "check2",
         next = "recheck2" => w.pc = "recheck" /\ w.index2 # w.index
  PROVE  RebuildInv'
<1>1. w \in WriterSet /\ disk \in [Pages -> Bytes \cup {R!None}]
  BY DEF RebuildInv, R!TypeOK, WriterSet
<1>2. CASE R!NoDisk
  BY <1>1, <1>2, FinallyStep DEF R!NoDisk, RebuildInv, R!TypeOK
<1>3. CASE R!WriterMoves(next) /\ UNCHANGED <<disk, snapshots>>
  <2>1. /\ w' \in WriterSet /\ w'.pc = next /\ w'.index = w.index /\ w'.index2 = w.index2
        /\ w'.pattern1 = w.pattern1
    BY <1>1, <1>3 DEF WriterSet, R!WriterMoves
  <2>2. WriterGoes
    BY <1>1, <1>3, <2>1 DEF WriterGoes, R!WriterMoves
  <2>3. WrittenInv'
    BY <1>3, <2>1 DEF RebuildInv, WrittenInv
  <2>4. UNCHANGED <<snapshots, unlisted, broken>>
    BY <1>3 DEF R!WriterMoves
  <2> QED
    BY <1>3, <2>1, <2>2, <2>3, <2>4, WriterCounts, NothingFails, WriterKeepsReplicas
<1> QED
  BY <1>2, <1>3 DEF R!check_data, R!readat_direct

LEMMA ChecksStep ==
  ASSUME RebuildInv, R!Check \/ R!Check2 \/ R!Recheck \/ R!Recheck2
  PROVE  RebuildInv'
<1> USE DEF RebuildInv, WrittenInv
<1>1. CASE R!Check
  BY <1>1, CheckStep DEF R!Check
<1>2. CASE R!Check2
  BY <1>2, CheckStep DEF R!Check2
<1>3. CASE R!Recheck
  BY <1>3, CheckStep DEF R!Recheck
<1>4. CASE R!Recheck2
  BY <1>4, CheckStep DEF R!Recheck2
<1> QED
  BY <1>1, <1>2, <1>3, <1>4

(* A listing in either process is whole, or fails and is counted.          *)
LEMMA Listing ==
  ASSUME RebuildInv, NEW listed, R!get_snapshot_list(listed)
  PROVE  /\ listed \in 0 .. snapshots /\ listed \in Nat
         /\ broken' \in 0 .. RebuildFaults /\ unlisted' \in Nat
         /\ \/ listed = snapshots /\ unlisted' = unlisted
            \/ unlisted' = unlisted + 1
<1>1. snapshots \in Nat /\ unlisted \in Nat /\ broken \in 0 .. RebuildFaults
  BY DEF RebuildInv, R!TypeOK
<1> QED
  BY <1>1, RebuildFault DEF RebuildInv, R!get_snapshot_list

LEMMA CountStep ==
  ASSUME RebuildInv, R!CountSnapshots
  PROVE  RebuildInv'
<1>1. /\ w \in WriterSet /\ w.pc = "count" /\ disk[w.index2] = w.pattern1
      /\ disk \in [Pages -> Bytes \cup {R!None}]
      /\ snapshots \in Nat /\ unlisted \in Nat /\ SnapshotLimit \in Nat /\ b.left \in Nat
  BY RebuildBounds DEF RebuildInv, R!TypeOK, WriterSet, R!CountSnapshots, WrittenInv, R!Bounds
<1>2. PICK listed \in 0 .. snapshots :
        /\ R!get_snapshot_list(listed)
        /\ w' = [w EXCEPT !.pc = IF listed > SnapshotLimit THEN "begin" ELSE "snapshot"]
  BY DEF R!CountSnapshots
<1>3. /\ w' \in WriterSet /\ w'.pc \in {"begin", "snapshot"}
      /\ w'.index = w.index /\ w'.index2 = w.index2 /\ w'.pattern1 = w.pattern1
      /\ w'.pc = "snapshot" => ~(listed > SnapshotLimit)
  BY <1>1, <1>2 DEF WriterSet
<1>4. UNCHANGED <<disk, known, healthy, snapshots, b, ready>>
  BY DEF R!CountSnapshots
<1>5. /\ listed \in Nat /\ broken' \in 0 .. RebuildFaults /\ unlisted' \in Nat
      /\ (listed = snapshots /\ unlisted' = unlisted) \/ unlisted' = unlisted + 1
  BY <1>2, Listing
<1>6. WriterGoes
  BY <1>1, <1>3, <1>4 DEF WriterGoes
<1>7. WrittenInv'
  BY <1>1, <1>3, <1>4 DEF WrittenInv
<1>8. SnapshotInv'
  <2>1. CASE listed = snapshots /\ unlisted' = unlisted
    <3>1. w'.pc = "snapshot" => snapshots <= SnapshotLimit
      BY <1>1, <1>3, <2>1
    <3> QED
      BY <1>4, <1>6, <2>1, <3>1, WriterCounts
  <2>2. CASE unlisted' = unlisted + 1
    BY <1>1, <1>4, <2>2 DEF RebuildInv, SnapshotInv, AtMost
  <2> QED
    BY <1>5, <2>1, <2>2
<1> QED
  BY <1>5, <1>6, <1>7, <1>8, WriterKeepsReplicas

LEMMA SnapshotStep ==
  ASSUME RebuildInv, R!CreateSnapshot
  PROVE  RebuildInv'
<1>1. /\ w \in WriterSet /\ w.pc = "snapshot" /\ disk[w.index2] = w.pattern1
      /\ disk \in [Pages -> Bytes \cup {R!None}]
      /\ snapshots \in Nat /\ unlisted \in Nat /\ SnapshotLimit \in Nat /\ b.left \in Nat
  BY RebuildBounds DEF RebuildInv, R!TypeOK, WriterSet, R!CreateSnapshot, WrittenInv, R!Bounds
<1>2. CASE R!Fails /\ R!Finally
  BY <1>1, <1>2, FinallyStep, RebuildFault DEF RebuildInv
<1>3. ASSUME NEW pc \in {"begin", "rewrite"}, R!WriterMoves(pc), UNCHANGED disk,
             \/ UNCHANGED snapshots /\ pc = "begin"
             \/ snapshots' = snapshots + 1 /\ pc = "rewrite"
      PROVE  RebuildInv'
  <2>1. /\ w' \in WriterSet /\ w'.pc = pc /\ w'.index = w.index /\ w'.index2 = w.index2
        /\ w'.pattern1 = w.pattern1
    BY <1>1, <1>3 DEF WriterSet, R!WriterMoves
  <2>2. WriterGoes /\ UNCHANGED <<unlisted, broken>>
    BY <1>1, <1>3, <2>1 DEF WriterGoes, R!WriterMoves
  <2>3. WrittenInv'
    BY <1>1, <1>3, <2>1 DEF WrittenInv
  <2>4. SnapshotInv'
    BY <1>1, <1>3, <2>1, <2>2 DEF RebuildInv, SnapshotInv, AtMost, WriterGoes
  <2> QED
    BY <2>2, <2>3, <2>4, NothingFails, WriterKeepsReplicas
<1> QED
  BY <1>2, <1>3 DEF R!CreateSnapshot

(***************************************************************************)
(* A step of the rebuilding alone: what becomes of its record and of the   *)
(* replicas and snapshots.                                                 *)
(***************************************************************************)
RebuilderGoes ==
    /\ b' \in RebuilderSet /\ b'.pc # "none"
    /\ known' \subseteq Subnets /\ healthy' \subseteq Subnets
    /\ broken' \in 0 .. RebuildFaults
    /\ UNCHANGED <<disk, w, ready>>

LEMMA RebuilderKeepsTheDisk ==
  ASSUME RebuildInv, RebuilderGoes, w.pc # "setup", ReplicaInv', SnapshotInv'
  PROVE  RebuildInv'
<1>1. R!TypeOK'
  BY DEF RebuildInv, R!TypeOK, RebuilderGoes, RebuilderSet, SnapshotInv
<1>2. WrittenInv'
  BY DEF RebuildInv, WrittenInv, RebuilderGoes
<1> QED
  BY <1>1, <1>2 DEF RebuildInv

LEMMA RebuilderRaisesStep ==
  ASSUME RebuildInv, R!RebuilderRaises, b.pc \in Rebuilds
  PROVE  RebuildInv'
<1>1. /\ b \in RebuilderSet /\ snapshots \in Nat /\ unlisted \in Nat /\ SnapshotLimit \in Nat
      /\ known \subseteq Subnets /\ healthy \subseteq Subnets
  BY RebuildBounds DEF RebuildInv, R!TypeOK, RebuilderSet, R!Bounds
<1>2. /\ b' \in RebuilderSet /\ b'.pc = "raised" /\ b'.old = b.old /\ b'.other = b.other
      /\ UNCHANGED <<disk, known, healthy, snapshots, w, ready, unlisted>>
  BY <1>1 DEF R!RebuilderRaises, RebuilderSet
<1>3. RebuilderGoes /\ w.pc # "setup"
  BY <1>1, <1>2, RebuildFault DEF RebuilderGoes, RebuildInv, ReplicaInv, Rebuilds, R!RebuilderRaises
<1>4. ReplicaInv'
  BY <1>2, <1>3 DEF RebuildInv, ReplicaInv, Rebuilds, Serves
<1>5. SnapshotInv'
  BY <1>1, <1>2 DEF RebuildInv, SnapshotInv, AtMost
<1> QED
  BY <1>3, <1>4, <1>5, RebuilderKeepsTheDisk

(* The phases of a rebuilding; the replica that is left serves throughout. *)
LEMMA PickAndKillStep ==
  ASSUME RebuildInv, R!PickAndKill
  PROVE  RebuildInv'
<1>1. /\ b \in RebuilderSet /\ b.pc = "pick" /\ snapshots \in Nat /\ unlisted \in Nat /\ SnapshotLimit \in Nat
      /\ known \subseteq Subnets /\ healthy \subseteq Subnets /\ broken \in 0 .. RebuildFaults
      /\ RebuildFaults \in Nat
  BY RebuildBounds DEF RebuildInv, R!TypeOK, RebuilderSet, R!Bounds, R!PickAndKill
<1>2. /\ w.pc # "setup" /\ b.old # b.other /\ Serves(b.old) /\ Serves(b.other)
  BY <1>1 DEF RebuildInv, ReplicaInv, Rebuilds
<1>3. PICK old \in {b.old, b.other}, killed \in BOOLEAN, other \in {b.old, b.other}, ip \in Subnets :
        /\ old # other /\ ip # other
        /\ killed \/ broken < RebuildFaults
        /\ broken' = IF killed THEN broken ELSE broken + 1
        /\ healthy' = IF killed THEN healthy \ {old} ELSE healthy
        /\ b' = [b EXCEPT !.pc = "run", !.old = old, !.other = other, !.new = ip]
  BY <1>2 DEF R!PickAndKill, R!get_new_ip
<1>4. UNCHANGED <<disk, known, snapshots, w, ready, unlisted>>
  BY DEF R!PickAndKill
<1>5. /\ b' \in RebuilderSet /\ b'.pc = "run" /\ b'.old = old /\ b'.other = other /\ b'.new = ip
  BY <1>1, <1>3 DEF RebuilderSet
<1>6. other \in healthy' /\ healthy' \subseteq Subnets /\ broken' \in 0 .. RebuildFaults
  BY <1>1, <1>2, <1>3 DEF Serves
<1>7. RebuilderGoes
  BY <1>1, <1>4, <1>5, <1>6 DEF RebuilderGoes
<1>8. ReplicaInv'
  BY <1>2, <1>3, <1>4, <1>5, <1>6 DEF ReplicaInv, Rebuilds, Serves
<1>9. SnapshotInv'
  BY <1>1, <1>4, <1>5 DEF RebuildInv, SnapshotInv, AtMost
<1> QED
  BY <1>2, <1>7, <1>8, <1>9, RebuilderKeepsTheDisk

LEMMA ReplaceStep ==
  ASSUME RebuildInv, R!RunReplica \/ R!RemoveOld \/ R!AddNew \/ R!Rebuilt \/ R!DropOld
  PROVE  RebuildInv'
<1>1. /\ b \in RebuilderSet /\ snapshots \in Nat /\ unlisted \in Nat /\ SnapshotLimit \in Nat
      /\ known \subseteq Subnets /\ healthy \subseteq Subnets /\ broken \in 0 .. RebuildFaults
      /\ b.new \in Subnets
  BY RebuildBounds DEF RebuildInv, R!TypeOK, RebuilderSet, R!Bounds
<1>2. b.pc \in {"run", "rm", "add", "copy", "drop"}
  BY DEF R!RunReplica, R!RemoveOld, R!AddNew, R!Rebuilt, R!DropOld
<1>3. /\ w.pc # "setup" /\ b.old # b.other /\ b.new # b.other /\ Serves(b.other)
  BY <1>2 DEF RebuildInv, ReplicaInv, Rebuilds
<1>4. CASE R!RebuilderRaises
  BY <1>2, <1>4, RebuilderRaisesStep DEF Rebuilds
<1>5. CASE R!RunReplica /\ ~R!RebuilderRaises
  <2>1. /\ b' \in RebuilderSet /\ b'.pc = "rm" /\ b'.old = b.old /\ b'.other = b.other /\ b'.new = b.new
        /\ UNCHANGED <<disk, w, ready, broken, unlisted, known, healthy, snapshots>>
    BY <1>1, <1>5 DEF R!RunReplica, R!RebuilderMoves, RebuilderSet
  <2>2. RebuilderGoes /\ ReplicaInv'
    BY <1>1, <1>3, <2>1 DEF RebuilderGoes, ReplicaInv, Rebuilds, Serves
  <2>3. SnapshotInv'
    BY <1>1, <1>5, <2>1 DEF RebuildInv, SnapshotInv, AtMost, R!RunReplica
  <2> QED
    BY <1>3, <2>2, <2>3, RebuilderKeepsTheDisk
<1>6. CASE R!RemoveOld /\ ~R!RebuilderRaises
  <2>1. /\ b' \in RebuilderSet /\ b'.pc = "add" /\ b'.old = b.old /\ b'.other = b.other /\ b'.new = b.new
        /\ known' = known \ {b.old} /\ healthy' = healthy \ {b.old}
        /\ UNCHANGED <<disk, w, ready, broken, unlisted, snapshots>>
    BY <1>1, <1>6 DEF R!RemoveOld, R!RebuilderMoves, RebuilderSet
  <2>2. RebuilderGoes /\ ReplicaInv'
    BY <1>1, <1>3, <2>1 DEF RebuilderGoes, ReplicaInv, Rebuilds, Serves
  <2>3. SnapshotInv'
    BY <1>1, <1>6, <2>1 DEF RebuildInv, SnapshotInv, AtMost, R!RemoveOld
  <2> QED
    BY <1>3, <2>2, <2>3, RebuilderKeepsTheDisk
<1>7. CASE R!AddNew /\ ~R!RebuilderRaises
  <2>1. /\ b' \in RebuilderSet /\ b'.pc = "copy" /\ b'.old = b.old /\ b'.other = b.other /\ b'.new = b.new
        /\ known' = known \cup {b.new} /\ snapshots' = snapshots + 1
        /\ UNCHANGED <<disk, w, ready, broken, unlisted, healthy>>
    BY <1>1, <1>7 DEF R!AddNew, R!RebuilderMoves, RebuilderSet
  <2>2. RebuilderGoes /\ ReplicaInv'
    BY <1>1, <1>3, <2>1 DEF RebuilderGoes, ReplicaInv, Rebuilds, Serves
  <2>3. SnapshotInv'
    BY <1>1, <1>7, <2>1 DEF RebuildInv, SnapshotInv, AtMost, R!AddNew
  <2> QED
    BY <1>3, <2>2, <2>3, RebuilderKeepsTheDisk
<1>8. CASE R!Rebuilt /\ ~R!RebuilderRaises
  <2>1. /\ b' \in RebuilderSet /\ b'.pc = "drop" /\ b'.old = b.old /\ b'.other = b.other /\ b'.new = b.new
        /\ healthy' = healthy \cup {b.new} /\ b.pc = "copy"
        /\ UNCHANGED <<disk, w, ready, broken, unlisted, known, snapshots>>
    BY <1>1, <1>8 DEF R!Rebuilt, R!RebuilderMoves, RebuilderSet
  <2>2. RebuilderGoes /\ ReplicaInv'
    BY <1>1, <1>3, <2>1 DEF RebuildInv, RebuilderGoes, ReplicaInv, Rebuilds, Serves
  <2>3. SnapshotInv'
    BY <1>1, <2>1 DEF RebuildInv, SnapshotInv, AtMost
  <2> QED
    BY <1>3, <2>2, <2>3, RebuilderKeepsTheDisk
<1>9. CASE R!DropOld /\ ~R!RebuilderRaises
  <2>1. /\ b' \in RebuilderSet /\ b'.pc = "list" /\ b'.old = b.new /\ b'.other = b.other
        /\ UNCHANGED <<disk, w, ready, broken, unlisted, known, healthy, snapshots>> /\ b.pc = "drop"
    BY <1>1, <1>9 DEF R!DropOld, RebuilderSet
  <2>2. RebuilderGoes /\ ReplicaInv'
    BY <1>1, <1>3, <2>1 DEF RebuildInv, RebuilderGoes, ReplicaInv, Rebuilds, Serves
  <2>3. SnapshotInv'
    BY <1>1, <2>1 DEF RebuildInv, SnapshotInv, AtMost
  <2> QED
    BY <1>3, <2>2, <2>3, RebuilderKeepsTheDisk
<1> QED
  BY <1>4, <1>5, <1>6, <1>7, <1>8, <1>9

LEMMA RemovalStep ==
  ASSUME RebuildInv, R!ListSnapshots \/ R!RemoveSnapshot
  PROVE  RebuildInv'
<1>1. /\ b \in RebuilderSet /\ snapshots \in Nat /\ unlisted \in Nat /\ SnapshotLimit \in Nat
      /\ known \subseteq Subnets /\ healthy \subseteq Subnets /\ broken \in 0 .. RebuildFaults
      /\ b.left \in Nat /\ b.pc \in {"list", "remove"}
  BY RebuildBounds DEF RebuildInv, R!TypeOK, RebuilderSet, R!Bounds, R!ListSnapshots, R!RemoveSnapshot
<1>2. /\ w.pc # "setup" /\ b.old # b.other /\ Serves(b.old) /\ Serves(b.other)
  BY <1>1 DEF RebuildInv, ReplicaInv, Rebuilds
<1>3. CASE R!RebuilderRaises
  BY <1>1, <1>3, RebuilderRaisesStep DEF Rebuilds
<1>4. ASSUME NEW pc \in {"pick", "remove"}, b' \in RebuilderSet, b'.pc = pc,
             b'.old = b.old, b'.other = b.other, SnapshotInv',
             broken' \in 0 .. RebuildFaults,
             UNCHANGED <<disk, known, healthy, w, ready>>
      PROVE  RebuildInv'
  <2>1. RebuilderGoes /\ ReplicaInv'
    BY <1>1, <1>2, <1>4 DEF RebuilderGoes, ReplicaInv, Rebuilds, Serves
  <2> QED
    BY <1>2, <1>4, <2>1, RebuilderKeepsTheDisk
<1>5. CASE R!ListSnapshots
  <2>1. PICK listed \in 0 .. snapshots :
          /\ R!get_snapshot_list(listed)
          /\ b' = [b EXCEPT !.pc = "remove", !.left = listed]
    BY <1>5 DEF R!ListSnapshots
  <2>2. /\ listed \in Nat /\ listed <= snapshots
        /\ broken' \in 0 .. RebuildFaults /\ unlisted' \in Nat
        /\ (listed = snapshots /\ unlisted' = unlisted) \/ unlisted' = unlisted + 1
    BY <1>1, <2>1, Listing
  <2>3. /\ b' \in RebuilderSet /\ b'.pc = "remove" /\ b'.old = b.old /\ b'.other = b.other
        /\ b'.left = listed
    BY <1>1, <2>1, <2>2 DEF RebuilderSet
  <2>4. UNCHANGED <<disk, known, healthy, snapshots, w, ready>>
    BY <1>5 DEF R!ListSnapshots
  <2>5. SnapshotInv'
    <3>1. AtMost(snapshots, SnapshotLimit + 2 + unlisted)
      BY DEF RebuildInv, SnapshotInv
    <3>2. /\ AtMost(snapshots, SnapshotLimit + 2 + unlisted')
          /\ AtMost(snapshots - listed, SnapshotLimit + 1 + unlisted')
      <4>1. CASE listed = snapshots /\ unlisted' = unlisted
        BY <1>1, <3>1, <4>1 DEF AtMost
      <4>2. CASE unlisted' = unlisted + 1
        BY <1>1, <2>2, <3>1, <4>2 DEF AtMost
      <4> QED
        BY <2>2, <3>1, <4>1, <4>2
    <3> QED
      BY <1>1, <2>2, <2>3, <2>4, <3>2 DEF SnapshotInv, AtMost
  <2> QED
    BY <1>4, <2>2, <2>3, <2>4, <2>5
<1>6. CASE /\ b.pc = "remove" /\ b.left > 0
           /\ snapshots' = snapshots - 1 /\ b' = [b EXCEPT !.left = @ - 1]
           /\ UNCHANGED <<disk, known, healthy, w, ready, broken, unlisted>>
  <2>1. /\ b' \in RebuilderSet /\ b'.pc = "remove" /\ b'.old = b.old /\ b'.other = b.other
        /\ b'.left = b.left - 1
    BY <1>1, <1>6 DEF RebuilderSet
  <2>2. SnapshotInv'
    BY <1>1, <1>6, <2>1 DEF RebuildInv, SnapshotInv, AtMost
  <2> QED
    BY <1>1, <1>4, <1>6, <2>1, <2>2
<1>7. CASE b.pc = "remove" /\ b.left = 0 /\ R!RebuilderMoves("pick") /\ UNCHANGED <<known, healthy, snapshots>>
  <2>1. /\ b' \in RebuilderSet /\ b'.pc = "pick" /\ b'.old = b.old /\ b'.other = b.other
        /\ UNCHANGED <<disk, w, ready, broken, unlisted>>
    BY <1>1, <1>7 DEF RebuilderSet, R!RebuilderMoves
  <2>2. SnapshotInv'
    BY <1>1, <1>7, <2>1 DEF RebuildInv, SnapshotInv, AtMost
  <2> QED
    BY <1>1, <1>4, <1>7, <2>1, <2>2
<1> QED
  BY <1>3, <1>5, <1>6, <1>7 DEF R!RemoveSnapshot

LEMMA RebuildStep ==
  ASSUME RebuildInv, R!Next
  PROVE  RebuildInv'
<1>1. CASE R!Writer
  <2>1. ~R!Alarm
    BY DEF R!Alarm, RebuildInv, WrittenInv
  <2> QED
    BY <1>1, <2>1, SetupStep, BeginStep, Write2Step, ChecksStep, CountStep, SnapshotStep, RewriteStep DEF R!Writer
<1>2. CASE R!Rebuilder
  BY <1>2, PickAndKillStep, ReplaceStep, RemovalStep DEF R!Rebuilder
<1>3. CASE R!DeviceReady
  <2>1. ready' = TRUE /\ UNCHANGED <<disk, known, healthy, snapshots, w, b, broken, unlisted>>
    BY <1>3 DEF R!DeviceReady
  <2> QED
    BY <2>1 DEF RebuildInv, R!TypeOK, WrittenInv, ReplicaInv, Serves, SnapshotInv, AtMost
<1> QED
  BY <1>1, <1>2, <1>3 DEF R!Next

-----------------------------------------------------------------------------
(* stress-test.py                                                          *)

(* A write is over within its delay, and follows what was shared by then.  *)
WriterInv ==
    \A p \in Writers :
       writer[p].pc \in {"share", "write"} =>
          /\ writer[p].pattern <= now /\ now <= writer[p].pattern + WriteDelay
          /\ writer[p].pc = "write" => writer[p].pattern <= testdata[writer[p].block] + WriteDelay

(* The pattern that is shared is still to be written.                      *)
Pending(k) == \E p \in Writers : /\ writer[p].pc = "write" /\ writer[p].block = k
                                 /\ writer[p].pattern = testdata[k]

(* What is on the disk is the block's own, and not much newer than what is *)
(* shared, nor much older but while a write is pending.                    *)
BlockInv ==
    \A k \in Blocks :
       /\ testdata[k] <= now /\ stored[k].pattern <= now
       /\ k \notin damaged =>
             /\ stored[k] # P!Hole => stored[k].offset = k
             /\ stored[k].pattern <= testdata[k] + WriteDelay
             /\ pHealthy # {} => testdata[k] <= stored[k].pattern + WriteDelay \/ Pending(k)

(* The slack that is left of the delays when the reader compares.          *)
ReadSlack(pc) == IF pc = "clock" THEN WriteDelay ELSE WriteDelay + ReadDelay

(* What a reader has of a block that was not damaged: it agrees with what  *)
(* is shared, now and later, unless that is too recent for the comparison. *)
ReaderInv ==
    \A r \in Readers :
       LET read == reader[r]
           pattern == testdata[read.block]
       IN  /\ read.time <= now
           /\ read.pc = "alarm" => read.bad
           /\ read.pc \in {"clock", "compare"} /\ ~read.bad =>
                 /\ read.data # P!Hole => read.data.offset = read.block
                 /\ \/ /\ pattern <= read.data.pattern + WriteDelay
                       /\ read.data.pattern <= pattern + WriteDelay
                    \/ read.time <= pattern + ReadSlack(read.pc)
           /\ read.pc = "clock" => now <= read.time + ReadDelay

PatternInv == P!TypeOK /\ WriterInv /\ BlockInv /\ ReaderInv

PatternNumbers ==
    /\ MAX_TIME_SLACK \in Nat /\ MaxTime \in Nat /\ PatternFaults \in Nat
    /\ WriteDelay \in Nat /\ ReadDelay \in Nat /\ WriteDelay + ReadDelay < MAX_TIME_SLACK
    /\ 0 \in Blocks

(* The types of one write, one block and one read.                         *)
LEMMA PatternTypes ==
  ASSUME P!TypeOK
  PROVE  /\ PatternNumbers
         /\ now \in Nat /\ now <= MaxTime
         /\ DOMAIN testdata = Blocks /\ DOMAIN stored = Blocks
         /\ DOMAIN writer = Writers /\ DOMAIN reader = Readers
         /\ \A p \in Writers : /\ writer[p].block \in Blocks
                              /\ writer[p].pattern \in Nat /\ writer[p].pattern <= MaxTime
         /\ \A k \in Blocks : /\ testdata[k] \in Nat /\ testdata[k] <= MaxTime
                             /\ stored[k] \in P!Content /\ stored[k].pattern \in Nat
         /\ \A r \in Readers : /\ reader[r].block \in Blocks /\ reader[r].time \in Nat
                              /\ reader[r].data.pattern \in Nat /\ reader[r].bad \in BOOLEAN
<1>1. PatternNumbers
  BY PatternBounds DEF P!Bounds, PatternNumbers
<1>2. now \in Nat /\ now <= MaxTime
  BY <1>1 DEF P!TypeOK, PatternNumbers
<1>3. ASSUME NEW p \in Writers
      PROVE  /\ writer[p].block \in Blocks /\ writer[p].pattern \in 0 .. MaxTime
  BY <1>3 DEF P!TypeOK
<1>4. ASSUME NEW k \in Blocks
      PROVE  /\ testdata[k] \in 0 .. MaxTime
             /\ stored[k] \in P!Content /\ stored[k].pattern \in 0 .. MaxTime
  BY <1>4 DEF P!TypeOK, P!Content
<1>5. ASSUME NEW r \in Readers
      PROVE  /\ reader[r].block \in Blocks /\ reader[r].time \in 0 .. MaxTime
             /\ reader[r].data \in P!Content /\ reader[r].bad \in BOOLEAN
  BY <1>5 DEF P!TypeOK
<1>6. \A c \in P!Content : c.pattern \in 0 .. MaxTime
  BY DEF P!Content
<1>7. \A i \in 0 .. MaxTime : i \in Nat /\ i <= MaxTime
  BY <1>1 DEF PatternNumbers
<1>8. /\ DOMAIN testdata = Blocks /\ DOMAIN stored = Blocks
      /\ DOMAIN writer = Writers /\ DOMAIN reader = Readers
  BY DEF P!TypeOK
<1> QED
  BY <1>1, <1>2, <1>3, <1>4, <1>5, <1>6, <1>7, <1>8

LEMMA PatternInit == P!Init => PatternInv
<1> SUFFICES ASSUME P!Init PROVE PatternInv
  OBVIOUS
<1>1. PatternNumbers /\ P!Hole \in P!Content /\ P!Hole.pattern = 0
  BY PatternBounds DEF P!Bounds, PatternNumbers, P!Hole, P!Content
<1>2. P!TypeOK
  <2>1. testdata \in [Blocks -> 0 .. MaxTime] /\ stored \in [Blocks -> P!Content] /\ now \in 0 .. MaxTime
    BY <1>1 DEF P!Init, PatternNumbers
  <2>2. writer \in [Writers -> [pc : {"idle", "share", "write", "dead"},
                                block : Blocks, pattern : 0 .. MaxTime]]
    BY <1>1 DEF P!Init, PatternNumbers
  <2>3. reader \in [Readers -> [pc : {"idle", "clock", "compare", "data", "hole", "alarm", "dead"},
                                block : Blocks, data : P!Content, bad : BOOLEAN,
                                time : 0 .. MaxTime, pattern : 0 .. MaxTime]]
    BY <1>1 DEF P!Init, PatternNumbers, P!Idle
  <2> QED
    BY <1>1, <2>1, <2>2, <2>3 DEF P!Init, P!TypeOK, P!Replica, PatternNumbers
<1>3. WriterInv
  BY DEF P!Init, WriterInv
<1>4. BlockInv
  BY <1>1 DEF P!Init, BlockInv, PatternNumbers
<1>5. ReaderInv
  BY <1>1 DEF P!Init, ReaderInv, P!Idle
<1> QED
  BY <1>2, <1>3, <1>4, <1>5 DEF PatternInv

(***************************************************************************)
(* random_write.                                                           *)
(***************************************************************************)
LEMMA GenPatternStep ==
  ASSUME PatternInv, NEW p \in Writers, P!GenPattern(p)
  PROVE  PatternInv'
<1>1. PICK k \in Blocks :
        writer' = [writer EXCEPT ![p] = [pc |-> "share", block |-> k, pattern |-> now]]
  BY DEF P!GenPattern, P!gen_pattern
<1>2. writer[p].pc = "idle" /\ UNCHANGED <<now, reader, rebuild, pHealthy, faultsLeft, testdata, stored, damaged>>
  BY DEF P!GenPattern, P!WriterOnly
<1>3. P!TypeOK /\ WriterInv /\ BlockInv /\ ReaderInv
  BY DEF PatternInv
<1>4. /\ now \in Nat /\ WriteDelay \in Nat /\ DOMAIN writer = Writers
  BY <1>3, PatternTypes DEF PatternNumbers
<1>5. P!TypeOK'
  <2>1. [pc |-> "share", block |-> k, pattern |-> now]
           \in [pc : {"idle", "share", "write", "dead"}, block : Blocks, pattern : 0 .. MaxTime]
    BY <1>3 DEF P!TypeOK
  <2> QED
    BY <1>1, <1>2, <1>3, <2>1 DEF P!TypeOK
<1>6. WriterInv'
  BY <1>1, <1>2, <1>3, <1>4 DEF WriterInv
<1>7. BlockInv'
  <2>1. \A q \in Writers : writer[q].pc = "write" => writer'[q] = writer[q]
    BY <1>1, <1>2, <1>4
  <2>2. \A j \in Blocks : Pending(j) => Pending(j)'
    BY <1>2, <2>1 DEF Pending
  <2> QED
    BY <1>2, <1>3, <2>2 DEF BlockInv
<1>8. ReaderInv'
  BY <1>2, <1>3 DEF ReaderInv
<1> QED
  BY <1>5, <1>6, <1>7, <1>8 DEF PatternInv

LEMMA ShareStep ==
  ASSUME PatternInv, NEW p \in Writers, P!Share(p)
  PROVE  PatternInv'
<1> DEFINE k == writer[p].block
           x == writer[p].pattern
<1>1. /\ writer[p].pc = "share" /\ testdata' = [testdata EXCEPT ![k] = x]
      /\ writer' = [writer EXCEPT ![p].pc = "write"]
      /\ UNCHANGED <<now, reader, rebuild, pHealthy, faultsLeft, stored, damaged>>
  BY DEF P!Share, P!WriterOnly
<1>2. P!TypeOK /\ WriterInv /\ BlockInv /\ ReaderInv
  BY DEF PatternInv
<1>3. /\ now \in Nat /\ WriteDelay \in Nat /\ ReadDelay \in Nat
      /\ k \in Blocks /\ x \in 0 .. MaxTime /\ x <= now /\ now <= x + WriteDelay
  BY <1>1, <1>2, PatternTypes DEF PatternNumbers, WriterInv, P!TypeOK
<1>4. /\ writer'[p].pc = "write" /\ writer'[p].block = k /\ writer'[p].pattern = x
      /\ \A q \in Writers : q # p => writer'[q] = writer[q]
  BY <1>1, <1>2 DEF P!TypeOK
<1>5. testdata'[k] = x /\ \A j \in Blocks : j # k => testdata'[j] = testdata[j]
  BY <1>1, <1>2, <1>3 DEF P!TypeOK
<1> HIDE DEF k, x
<1>6. P!TypeOK'
  <2>1. testdata' \in [Blocks -> 0 .. MaxTime]
    BY <1>1, <1>2, <1>3 DEF P!TypeOK
  <2>2. writer' \in [Writers -> [pc : {"idle", "share", "write", "dead"},
                                 block : Blocks, pattern : 0 .. MaxTime]]
    BY <1>1, <1>2 DEF P!TypeOK
  <2> QED
    BY <1>1, <1>2, <2>1, <2>2 DEF P!TypeOK
<1>7. WriterInv'
  <2> SUFFICES ASSUME NEW q \in Writers, writer'[q].pc \in {"share", "write"}
               PROVE  /\ writer'[q].pattern <= now' /\ now' <= writer'[q].pattern + WriteDelay
                      /\ writer'[q].pc = "write" =>
                            writer'[q].pattern <= testdata'[writer'[q].block] + WriteDelay
    BY DEF WriterInv
  <2>1. CASE q = p
    BY <1>1, <1>3, <1>4, <1>5, <2>1
  <2>2. CASE q # p
    <3>1. /\ writer'[q] = writer[q] /\ writer[q].pattern \in Nat /\ writer[q].block \in Blocks
          /\ writer[q].pattern <= now /\ now <= writer[q].pattern + WriteDelay /\ now' = now
          /\ writer[q].pc = "write" => writer[q].pattern <= testdata[writer[q].block] + WriteDelay
      BY <1>1, <1>2, <1>4, <2>2, PatternTypes DEF WriterInv
    <3> QED
      BY <1>3, <1>5, <3>1
  <2> QED
    BY <2>1, <2>2
<1>8. BlockInv'
  <2> SUFFICES ASSUME NEW j \in Blocks
               PROVE  /\ testdata'[j] <= now' /\ stored'[j].pattern <= now'
                      /\ j \notin damaged' =>
                            /\ stored'[j] # P!Hole => stored'[j].offset = j
                            /\ stored'[j].pattern <= testdata'[j] + WriteDelay
                            /\ pHealthy' # {} => \/ testdata'[j] <= stored'[j].pattern + WriteDelay
                                                \/ Pending(j)'
    BY DEF BlockInv
  <2>1. /\ stored'[j] = stored[j] /\ damaged' = damaged /\ now' = now /\ pHealthy' = pHealthy
        /\ stored[j].pattern \in Nat
    BY <1>1, <1>2, PatternTypes
  <2>2. CASE j = k
    <3>1. Pending(j)'
      BY <1>4, <1>5, <2>2 DEF Pending
    <3>2. stored[j].pattern <= now
      BY <1>2 DEF BlockInv
    <3> QED
      BY <1>2, <1>3, <1>5, <2>1, <2>2, <3>1, <3>2 DEF BlockInv
  <2>3. CASE j # k
    <3>1. Pending(j) => Pending(j)'
      BY <1>1, <1>4, <1>5, <2>3 DEF Pending
    <3> QED
      BY <1>2, <1>5, <2>1, <2>3, <3>1 DEF BlockInv
  <2> QED
    BY <2>2, <2>3
<1>9. ReaderInv'
  <2> SUFFICES ASSUME NEW r \in Readers
               PROVE  LET read == reader[r]
                      IN  read.pc \in {"clock", "compare"} /\ ~read.bad =>
                            \/ /\ testdata'[read.block] <= read.data.pattern + WriteDelay
                               /\ read.data.pattern <= testdata'[read.block] + WriteDelay
                            \/ read.time <= testdata'[read.block] + ReadSlack(read.pc)
    BY <1>1, <1>2 DEF ReaderInv
  <2>1. /\ reader[r].block \in Blocks /\ reader[r].time \in Nat /\ reader[r].data.pattern \in Nat
        /\ reader[r].time <= now
    BY <1>2, PatternTypes DEF ReaderInv
  <2>2. CASE reader[r].block = k
    BY <1>3, <1>5, <2>1, <2>2 DEF ReadSlack
  <2>3. CASE reader[r].block # k
    BY <1>2, <1>5, <2>1, <2>3 DEF ReaderInv
  <2> QED
    BY <2>2, <2>3
<1> QED
  BY <1>6, <1>7, <1>8, <1>9 DEF PatternInv

LEMMA WriteToDiskStep ==
  ASSUME PatternInv, NEW p \in Writers, P!WriteToDisk(p)
  PROVE  PatternInv'
<1> DEFINE k == writer[p].block
           x == writer[p].pattern
           c == [offset |-> k, pattern |-> x]
<1>1. P!TypeOK /\ WriterInv /\ BlockInv /\ ReaderInv
  BY DEF PatternInv
<1>2. /\ writer[p].pc = "write"
      /\ UNCHANGED <<now, reader, rebuild, pHealthy, faultsLeft, testdata>>
  BY DEF P!WriteToDisk, P!WriterOnly
<1>3. /\ now \in Nat /\ WriteDelay \in Nat
      /\ k \in Blocks /\ x \in 0 .. MaxTime /\ x <= now /\ now <= x + WriteDelay
      /\ x <= testdata[k] + WriteDelay
  BY <1>1, <1>2, PatternTypes DEF PatternNumbers, WriterInv, P!TypeOK
<1>4. /\ \A q \in Writers : q # p => writer'[q] = writer[q]
      /\ writer'[p].pc \in {"idle", "dead"}
      /\ writer' \in [Writers -> [pc : {"idle", "share", "write", "dead"},
                                 block : Blocks, pattern : 0 .. MaxTime]]
  <2>1. PICK pc \in {"idle", "dead"} : writer' = [writer EXCEPT ![p].pc = pc]
    BY DEF P!WriteToDisk
  <2>2. writer \in [Writers -> [pc : {"idle", "share", "write", "dead"},
                                block : Blocks, pattern : 0 .. MaxTime]]
    BY <1>1 DEF P!TypeOK
  <2> QED
    BY <2>1, <2>2
<1>5. \/ /\ pHealthy # {} /\ stored' = [stored EXCEPT ![k] = c]
         /\ damaged' = damaged \ {k}
      \/ pHealthy = {} /\ UNCHANGED <<stored, damaged>>
  BY DEF P!WriteToDisk, P!gen_blockdata
<1>6. c \in P!Content /\ c.offset = k /\ c.pattern = x
  BY <1>3 DEF P!Content
<1> HIDE DEF k, x, c
<1>7. P!TypeOK'
  <2>1. stored' \in [Blocks -> P!Content] /\ damaged' \subseteq Blocks
    BY <1>1, <1>5, <1>6, SMTT(30) DEF P!TypeOK
  <2> QED
    BY <1>1, <1>2, <1>4, <2>1 DEF P!TypeOK
<1>8. WriterInv'
  <2> SUFFICES ASSUME NEW q \in Writers, writer'[q].pc \in {"share", "write"}
               PROVE  /\ writer'[q].pattern <= now' /\ now' <= writer'[q].pattern + WriteDelay
                      /\ writer'[q].pc = "write" =>
                            writer'[q].pattern <= testdata'[writer'[q].block] + WriteDelay
    BY DEF WriterInv
  <2>1. writer'[q] = writer[q]
    BY <1>4
  <2> QED
    BY <1>1, <1>2, <2>1 DEF WriterInv
<1>9. BlockInv'
  <2> SUFFICES ASSUME NEW j \in Blocks
               PROVE  /\ testdata'[j] <= now' /\ stored'[j].pattern <= now'
                      /\ j \notin damaged' =>
                            /\ stored'[j] # P!Hole => stored'[j].offset = j
                            /\ stored'[j].pattern <= testdata'[j] + WriteDelay
                            /\ pHealthy' # {} => \/ testdata'[j] <= stored'[j].pattern + WriteDelay
                                                \/ Pending(j)'
    BY DEF BlockInv
  <2>1. testdata[j] <= now /\ testdata[j] \in Nat /\ DOMAIN stored = Blocks
    BY <1>1, PatternTypes DEF BlockInv
  <2>2. CASE pHealthy # {} /\ j = k
    <3>1. stored'[j] = c /\ stored'[j].pattern = x /\ stored'[j].offset = j
      BY <1>5, <1>6, <2>1, <2>2
    <3>2. now <= x + WriteDelay /\ testdata[j] <= x + WriteDelay
      BY <1>3, <2>1
    <3> QED
      BY <1>2, <1>3, <2>1, <2>2, <3>1, <3>2
  <2>3. CASE pHealthy # {} /\ j # k
    <3>1. stored'[j] = stored[j] /\ (j \in damaged' <=> j \in damaged)
      BY <1>5, <2>1, <2>3
    <3>2. Pending(j) => Pending(j)'
      BY <1>2, <1>4, <2>3 DEF Pending, k
    <3> QED
      BY <1>1, <1>2, <3>1, <3>2 DEF BlockInv
  <2>4. CASE pHealthy = {}
    BY <1>1, <1>2, <1>5, <2>4 DEF BlockInv
  <2> QED
    BY <2>2, <2>3, <2>4
<1>10. ReaderInv'
  BY <1>1, <1>2 DEF ReaderInv
<1> QED
  BY <1>7, <1>8, <1>9, <1>10 DEF PatternInv

(***************************************************************************)
(* read_and_check: what one reader comes to, and the other processes do    *)
(* not see.                                                                *)
(***************************************************************************)
ReaderSet == [pc : {"idle", "clock", "compare", "data", "hole", "alarm", "dead"},
              block : Blocks, data : P!Content, bad : BOOLEAN,
              time : 0 .. MaxTime, pattern : 0 .. MaxTime]

(* ReaderInv for one reader.                                               *)
Read(read) ==
    LET pattern == testdata[read.block]
    IN  /\ read.time <= now
        /\ read.pc = "alarm" => read.bad
        /\ read.pc \in {"clock", "compare"} /\ ~read.bad =>
              /\ read.data # P!Hole => read.data.offset = read.block
              /\ \/ /\ pattern <= read.data.pattern + WriteDelay
                    /\ read.data.pattern <= pattern + WriteDelay
                 \/ read.time <= pattern + ReadSlack(read.pc)
        /\ read.pc = "clock" => now <= read.time + ReadDelay

LEMMA ReaderStep ==
  ASSUME PatternInv, NEW r \in Readers, NEW read \in ReaderSet, Read(read),
         reader' = [reader EXCEPT ![r] = read],
         UNCHANGED <<now, testdata, stored, damaged, writer, rebuild, pHealthy, faultsLeft>>
  PROVE  PatternInv'
<1>1. P!TypeOK /\ WriterInv /\ BlockInv /\ ReaderInv
  BY DEF PatternInv
<1>2. reader \in [Readers -> ReaderSet]
  BY <1>1 DEF P!TypeOK, ReaderSet
<1>3. P!TypeOK'
  BY <1>1, <1>2 DEF P!TypeOK, ReaderSet
<1>4. WriterInv' /\ BlockInv'
  BY <1>1 DEF WriterInv, BlockInv, Pending
<1>5. ReaderInv'
  <2>1. \A q \in Readers : reader'[q] = IF q = r THEN read ELSE reader[q]
    BY <1>2
  <2>2. \A q \in Readers : Read(reader[q])
    BY <1>1 DEF ReaderInv, Read
  <2>3. \A q \in Readers : Read(reader'[q])
    BY <2>1, <2>2
  <2> QED
    BY <2>3 DEF ReaderInv, Read
<1> QED
  BY <1>3, <1>4, <1>5 DEF PatternInv

LEMMA IdleRead ==
  ASSUME PatternInv
  PROVE  P!Idle \in ReaderSet /\ Read(P!Idle)
<1>1. PatternNumbers /\ now \in Nat
  BY PatternTypes DEF PatternInv
<1>2. P!Idle \in ReaderSet
  BY <1>1 DEF P!Idle, ReaderSet, P!Hole, P!Content, PatternNumbers
<1>3. Read(P!Idle)
  BY <1>1 DEF Read, P!Idle
<1> QED
  BY <1>2, <1>3

LEMMA ReadDiskStep ==
  ASSUME PatternInv, NEW r \in Readers, P!ReadDisk(r)
  PROVE  PatternInv'
<1>1. P!TypeOK /\ WriterInv /\ BlockInv /\ ReaderInv
  BY DEF PatternInv
<1>2. UNCHANGED <<now, testdata, stored, damaged, pHealthy, faultsLeft>>
  BY DEF P!ReadDisk, P!ReaderOnly
<1>3. ASSUME pHealthy # {}, NEW k \in Blocks, UNCHANGED <<writer, rebuild>>,
             reader' = [reader EXCEPT ![r] = [P!Idle EXCEPT !.pc = "clock", !.block = k,
                                    !.data = stored[k], !.bad = k \in damaged, !.time = now]]
      PROVE  PatternInv'
  <2>1. PICK d \in BOOLEAN : d = (k \in damaged)
    <3>1. CASE k \in damaged
      <4>1. TRUE = (k \in damaged)
        BY <3>1
      <4> QED
        BY <4>1, Zenon
    <3>2. CASE k \notin damaged
      <4>1. FALSE = (k \in damaged)
        BY <3>2
      <4> QED
        BY <4>1, Zenon
    <3> QED
      BY <3>1, <3>2
  <2> DEFINE read == [P!Idle EXCEPT !.pc = "clock", !.block = k, !.data = stored[k], !.bad = d, !.time = now]
  <2>2. /\ now \in 0 .. MaxTime /\ now \in Nat /\ stored[k] \in P!Content
        /\ WriteDelay \in Nat /\ ReadDelay \in Nat
        /\ testdata[k] \in Nat /\ stored[k].pattern \in Nat
    BY <1>1, PatternTypes DEF P!TypeOK, PatternNumbers
  <2>3. /\ read \in ReaderSet /\ read.pc = "clock" /\ read.block = k /\ read.data = stored[k]
        /\ read.bad = d /\ read.time = now
    BY <2>2, IdleRead DEF ReaderSet
  <2>4. ~d =>
           /\ stored[k] # P!Hole => stored[k].offset = k
           /\ stored[k].pattern <= testdata[k] + WriteDelay
           /\ testdata[k] <= stored[k].pattern + WriteDelay \/ now <= testdata[k] + WriteDelay
    <3>1. Pending(k) => now <= testdata[k] + WriteDelay
      BY <1>1 DEF Pending, WriterInv
    <3> QED
      BY <1>1, <1>3, <2>1, <3>1 DEF BlockInv
  <2>5. reader' = [reader EXCEPT ![r] = read]
    BY <1>3, <2>1
  <2> HIDE DEF read
  <2>6. Read(read)
    BY <2>2, <2>3, <2>4 DEF Read, ReadSlack
  <2> QED
    BY <1>2, <1>3, <2>3, <2>5, <2>6, ReaderStep
<1>4. CASE pHealthy = {} /\ UNCHANGED <<writer, rebuild>> /\ reader' = [reader EXCEPT ![r].pc = "dead"]
  <2> DEFINE read == [reader[r] EXCEPT !.pc = "dead"]
  <2>1. reader' = [reader EXCEPT ![r] = read]
    BY <1>4
  <2>2. reader[r] \in ReaderSet
    BY <1>1 DEF P!TypeOK, ReaderSet
  <2>3. read \in ReaderSet /\ read.pc = "dead" /\ read.time = reader[r].time
    BY <2>2 DEF ReaderSet
  <2>4. Read(read)
    BY <1>1, <2>3 DEF Read, ReaderInv
  <2> HIDE DEF read
  <2> QED
    BY <1>2, <1>4, <2>1, <2>3, <2>4, ReaderStep
<1>5. CASE /\ pHealthy = {}
           /\ reader' = [q \in Readers |-> [reader[q] EXCEPT !.pc = "dead"]]
           /\ writer' = [p \in Writers |-> [writer[p] EXCEPT !.pc = "dead"]]
           /\ rebuild' = [rebuild EXCEPT !.pc = "dead"]
  <2>1. reader' \in [Readers -> ReaderSet]
    BY <1>1, <1>5, SMTT(30) DEF P!TypeOK, ReaderSet
  <2>2. writer' \in [Writers -> [pc : {"idle", "share", "write", "dead"},
                                 block : Blocks, pattern : 0 .. MaxTime]]
    BY <1>1, <1>5, SMTT(30) DEF P!TypeOK
  <2>3. P!TypeOK'
    BY <1>1, <1>2, <1>5, <2>1, <2>2 DEF P!TypeOK, ReaderSet
  <2>4. WriterInv'
    <3>1. \A p \in Writers : writer'[p].pc = "dead"
      BY <1>1, <1>5 DEF P!TypeOK
    <3> QED
      BY <3>1 DEF WriterInv
  <2>5. BlockInv'
    BY <1>1, <1>2, <1>5 DEF BlockInv
  <2>6. ReaderInv'
    <3>1. \A q \in Readers : reader'[q].pc = "dead" /\ reader'[q].time = reader[q].time
      BY <1>1, <1>5 DEF P!TypeOK
    <3> QED
      BY <1>1, <1>2, <3>1 DEF ReaderInv
  <2> QED
    BY <2>3, <2>4, <2>5, <2>6 DEF PatternInv
<1> QED
  BY <1>3, <1>4, <1>5 DEF P!ReadDisk

LEMMA TakeTimeStep ==
  ASSUME PatternInv, NEW r \in Readers, P!TakeTime(r)
  PROVE  PatternInv'
<1> DEFINE old == reader[r]
           read == [old EXCEPT !.pc = "compare", !.time = now]
<1>1. old.pc = "clock" /\ reader' = [reader EXCEPT ![r] = read]
      /\ UNCHANGED <<now, testdata, stored, damaged, writer, rebuild, pHealthy, faultsLeft>>
  BY DEF P!TakeTime, P!ReaderOnly, P!gen_pattern
<1>2. /\ old \in ReaderSet /\ now \in 0 .. MaxTime /\ now \in Nat
      /\ WriteDelay \in Nat /\ ReadDelay \in Nat
      /\ testdata[old.block] \in Nat /\ old.time \in Nat /\ old.data.pattern \in Nat
  BY PatternTypes DEF PatternInv, P!TypeOK, ReaderSet, PatternNumbers
<1>3. Read(old)
  BY DEF PatternInv, ReaderInv, Read
<1> HIDE DEF old
<1>4. /\ read \in ReaderSet /\ read.pc = "compare" /\ read.time = now
      /\ read.block = old.block /\ read.data = old.data /\ read.bad = old.bad
  BY <1>2 DEF ReaderSet
<1>5. Read(read)
  BY <1>1, <1>2, <1>3, <1>4 DEF Read, ReadSlack
<1> HIDE DEF read
<1> QED
  BY <1>1, <1>4, <1>5, ReaderStep

(***************************************************************************)
(* An alarm about a block that was not damaged would be one on a pattern   *)
(* that is too recent.                                                     *)
(***************************************************************************)
LEMMA CompareStep ==
  ASSUME PatternInv, NEW r \in Readers, P!Compare(r)
  PROVE  PatternInv'
<1> DEFINE old == reader[r]
           shared == testdata[old.block]
           verdict == P!Verdict(old.block, shared, old.data)
           read == [old EXCEPT !.pc = verdict, !.pattern = shared]
<1>1. /\ old.pc = "compare"
      /\ UNCHANGED <<now, testdata, stored, damaged, writer, rebuild, pHealthy, faultsLeft>>
      /\ reader' = [reader EXCEPT ![r] = IF P!TooRecent(old.time, shared, old.data) THEN P!Idle ELSE read]
  BY DEF P!Compare, P!ReaderOnly
<1>2. CASE P!TooRecent(old.time, shared, old.data)
  BY <1>1, <1>2, IdleRead, ReaderStep
<1>3. CASE ~P!TooRecent(old.time, shared, old.data)
  <2>1. /\ old \in ReaderSet /\ PatternNumbers /\ shared \in 0 .. MaxTime
        /\ shared \in Nat /\ old.time \in Nat /\ old.data.pattern \in Nat
    BY PatternTypes DEF PatternInv, P!TypeOK, ReaderSet
  <2>2. Read(old)
    BY DEF PatternInv, ReaderInv, Read
  <2>3. verdict = "alarm" => old.bad
    <3> SUFFICES ASSUME verdict = "alarm", ~old.bad PROVE FALSE
      OBVIOUS
    <3>1. MAX_TIME_SLACK <= old.time - shared
      BY <1>3, <2>1 DEF P!TooRecent, PatternNumbers
    <3>2. old.data # P!Hole => old.data.offset = old.block
      BY <1>1, <2>2 DEF Read
    <3>3. /\ shared <= old.data.pattern + WriteDelay
          /\ old.data.pattern <= shared + WriteDelay
      BY <1>1, <2>1, <2>2, <3>1 DEF Read, ReadSlack, PatternNumbers
    <3>4. P!Abs(old.data.pattern - shared) < MAX_TIME_SLACK
      BY <2>1, <3>3 DEF P!Abs, PatternNumbers
    <3> QED
      BY <3>2, <3>4 DEF P!Verdict
  <2>4. verdict \in {"data", "hole", "alarm"}
    BY DEF P!Verdict
  <2> HIDE DEF old, shared, verdict
  <2>5. /\ read \in ReaderSet /\ read.pc = verdict /\ read.time = old.time /\ read.bad = old.bad
    BY <2>1, <2>4 DEF ReaderSet
  <2>6. Read(read)
    BY <2>2, <2>3, <2>4, <2>5 DEF Read
  <2>7. reader' = [reader EXCEPT ![r] = read]
    BY <1>1, <1>3
  <2> HIDE DEF read
  <2> QED
    BY <1>1, <2>5, <2>6, <2>7, ReaderStep
<1> QED
  BY <1>2, <1>3

LEMMA NextBlockStep ==
  ASSUME PatternInv, NEW r \in Readers, P!NextBlock(r)
  PROVE  PatternInv'
BY IdleRead, ReaderStep DEF P!NextBlock, P!ReaderOnly

(***************************************************************************)
(* rebuild_replicas and the failure of a replica: an empty set of replicas *)
(* stays empty.                                                            *)
(***************************************************************************)
LEMMA ReplicasStep ==
  ASSUME PatternInv,
         P!Purge \/ P!RmReplica \/ P!AddReplica \/ P!RebuildRaises \/ P!ReplicaFails
  PROVE  PatternInv'
<1>1. P!TypeOK /\ PatternNumbers
  BY PatternTypes DEF PatternInv
<1>2. UNCHANGED <<now, testdata, stored, damaged, writer, reader>>
  BY DEF P!Purge, P!RmReplica, P!AddReplica, P!RebuildRaises, P!ReplicaFails, P!RebuildOnly
<1>3. pHealthy = {} => pHealthy' = {}
  BY DEF P!Purge, P!RmReplica, P!AddReplica, P!RebuildRaises, P!ReplicaFails
<1>4. /\ rebuild' \in [pc : {"purge", "rm", "add", "dead"}, replica : P!Replica]
      /\ pHealthy' \subseteq P!Replica
  BY <1>1 DEF P!TypeOK, P!Purge, P!RmReplica, P!AddReplica, P!RebuildRaises, P!ReplicaFails
<1>5. faultsLeft' \in 0 .. PatternFaults
  BY <1>1 DEF P!TypeOK, P!Purge, P!RmReplica, P!AddReplica, P!RebuildRaises, P!ReplicaFails, P!Fails, PatternNumbers
<1>6. P!TypeOK'
  BY <1>1, <1>2, <1>4, <1>5 DEF P!TypeOK
<1>7. WriterInv' /\ BlockInv' /\ ReaderInv'
  BY <1>2, <1>3 DEF PatternInv, WriterInv, BlockInv, Pending, ReaderInv
<1> QED
  BY <1>6, <1>7 DEF PatternInv

LEMMA TickStep ==
  ASSUME PatternInv, P!Tick
  PROVE  PatternInv'
<1>1. P!TypeOK /\ WriterInv /\ BlockInv /\ ReaderInv
  BY DEF PatternInv
<1>2. /\ now < MaxTime /\ now' = now + 1
      /\ UNCHANGED <<testdata, stored, damaged, writer, reader, rebuild, pHealthy, faultsLeft>>
      /\ \A p \in Writers : writer[p].pc \in {"share", "write"} => now - writer[p].pattern < WriteDelay
      /\ \A r \in Readers : reader[r].pc = "clock" => now - reader[r].time < ReadDelay
  BY DEF P!Tick
<1>3. PatternNumbers /\ now \in Nat
  BY <1>1, PatternTypes
<1>4. P!TypeOK'
  BY <1>1, <1>2, <1>3 DEF P!TypeOK, PatternNumbers
<1>5. WriterInv'
  <2>1. \A p \in Writers : writer[p].pattern \in Nat
    BY <1>1, PatternTypes
  <2> QED
    BY <1>1, <1>2, <1>3, <2>1 DEF WriterInv, PatternNumbers
<1>6. BlockInv'
  <2>1. \A k \in Blocks : testdata[k] \in Nat /\ stored[k].pattern \in Nat
    BY <1>1, PatternTypes
  <2> QED
    BY <1>1, <1>2, <1>3, <2>1 DEF BlockInv, Pending
<1>7. ReaderInv'
  <2>1. \A r \in Readers : reader[r].time \in Nat
    BY <1>1, PatternTypes
  <2> QED
    BY <1>1, <1>2, <1>3, <2>1 DEF ReaderInv, PatternNumbers
<1> QED
  BY <1>4, <1>5, <1>6, <1>7 DEF PatternInv

LEMMA LosesBlockStep ==
  ASSUME PatternInv, P!LosesBlock
  PROVE  PatternInv'
<1>1. P!TypeOK /\ WriterInv /\ BlockInv /\ ReaderInv
  BY DEF PatternInv
<1> DEFINE Lost(k) == {P!Hole} \cup {[stored[k] EXCEPT !.pattern = 0]} \cup {stored[j] : j \in Blocks}
<1>8. PICK k \in Blocks :
        /\ \E c \in Lost(k) : stored' = [stored EXCEPT ![k] = c]
        /\ damaged' = damaged \cup {k} /\ P!Fails
        /\ UNCHANGED <<now, testdata, writer, reader, rebuild, pHealthy>>
  BY DEF P!LosesBlock
<1>2. PICK c \in Lost(k) :
        /\ stored' = [stored EXCEPT ![k] = c] /\ damaged' = damaged \cup {k} /\ P!Fails
        /\ UNCHANGED <<now, testdata, writer, reader, rebuild, pHealthy>>
  BY <1>8
<1>3. PatternNumbers /\ now \in Nat /\ stored[k] \in P!Content /\ P!Hole \in P!Content /\ P!Hole.pattern = 0
  BY <1>1, PatternTypes DEF P!Hole, P!Content, PatternNumbers
<1>4. c \in P!Content /\ c.pattern <= now
  <2>1. CASE c = P!Hole
    BY <1>3, <2>1
  <2>2. CASE c = [stored[k] EXCEPT !.pattern = 0]
    BY <1>3, <2>2 DEF P!Content, PatternNumbers
  <2>3. CASE c \in {stored[j] : j \in Blocks}
    BY <1>1, <2>3, PatternTypes DEF BlockInv
  <2> QED
    BY <1>2, <2>1, <2>2, <2>3
<1>5. P!TypeOK'
  BY <1>1, <1>2, <1>3, <1>4 DEF P!TypeOK, P!Fails, PatternNumbers
<1>6. BlockInv'
  <2>1. \A j \in Blocks : stored'[j] = IF j = k THEN c ELSE stored[j]
    BY <1>1, <1>2 DEF P!TypeOK
  <2> QED
    BY <1>1, <1>2, <1>4, <2>1 DEF BlockInv, Pending
<1>7. WriterInv' /\ ReaderInv'
  BY <1>1, <1>2 DEF WriterInv, ReaderInv
<1> QED
  BY <1>5, <1>6, <1>7 DEF PatternInv

LEMMA PatternStep ==
  ASSUME PatternInv, P!Next
  PROVE  PatternInv'
<1>1. CASE \E p \in Writers : P!GenPattern(p) \/ P!Share(p) \/ P!WriteToDisk(p)
  BY <1>1, GenPatternStep, ShareStep, WriteToDiskStep
<1>2. CASE \E r \in Readers : P!ReadDisk(r) \/ P!TakeTime(r) \/ P!Compare(r) \/ P!NextBlock(r)
  BY <1>2, ReadDiskStep, TakeTimeStep, CompareStep, NextBlockStep
<1>3. CASE P!Purge \/ P!RmReplica \/ P!AddReplica \/ P!RebuildRaises \/ P!ReplicaFails
  BY <1>3, ReplicasStep
<1> QED
  BY <1>1, <1>2, <1>3, TickStep, LosesBlockStep DEF P!Next

-----------------------------------------------------------------------------
(* teardown-test.py                                                        *)

Place == {"replicas", "controller", "query", "ready", "write", "snapshot", "write2",
          "revert", "ready2", "check", "stop", "deleted", "cleanup", "done", "raised"}
ThreadSet == [pc : Place, iteration : D!Iteration, count : 0 .. MAX_RETRY]
Statuses == {"", "Created", "Up", "Exited"}

(* What a process that has not given up on a device has of its volume: no  *)
(* controller of another iteration runs, and its own device is there where *)
(* its own controller runs.                                                *)
DeviceShape(t) ==
    LET pc == thread[t].pc
        i == thread[t].iteration
        Runs == container[t][i] = "Up"
    IN  /\ pc # "raised" => \A j \in D!Iteration : j # i => container[t][j] # "Up"
        /\ pc \in {"replicas", "controller", "query"} => ~Runs /\ device[t] = 0
        /\ pc \in {"ready", "ready2"} => Runs /\ device[t] \in {0, i}
        /\ pc \in {"write", "snapshot", "write2", "revert", "check", "stop"} => Runs /\ device[t] = i
        /\ pc = "deleted" => device[t] = i \/ (~Runs /\ device[t] = 0)
        /\ pc = "cleanup" => ~Runs /\ device[t] = 0

(* Where docker's race leaves a process that no other one's name matches.  *)
RaceShape(t) ==
    LET call == thread[t]
    IN  /\ call.pc \in {"replicas", "controller", "query"} => call.count < MAX_RETRY
        /\ call.pc = "query" /\ cause[t] = "race" => container[t][call.iteration] \in {"", "Created"}
        /\ call.pc = "raised" /\ cause[t] = "race" => call.count = MAX_RETRY \/ Matching[t] # {t}

ThreadInv(t) == /\ cause[t] = "io" => gaveUp[t]
                /\ ~gaveUp[t] => DeviceShape(t)
                /\ RaceShape(t)

TeardownInv == D!TypeOK /\ \A t \in Threads : ThreadInv(t)

LEMMA TeardownNumbers ==
  /\ Iterations \in Nat \ {0} /\ MAX_RETRY \in Nat \ {0} /\ TeardownFaults \in Nat
  /\ Matching \in [Threads -> SUBSET Threads] /\ \A t \in Threads : t \in Matching[t]
BY TeardownBounds DEF D!Bounds

LEMMA TeardownInit == D!Init => TeardownInv
<1> SUFFICES ASSUME D!Init PROVE TeardownInv
  OBVIOUS
<1>1. D!TypeOK
  <2>1. 0 \in 0 .. TeardownFaults /\ 0 \in 0 .. MAX_RETRY /\ 1 \in D!Iteration
    BY TeardownNumbers DEF D!Iteration
  <2>2. thread \in [Threads -> [pc : {"replicas", "controller", "query", "ready", "write", "snapshot",
                                     "write2", "revert", "ready2", "check", "stop", "deleted",
                                     "cleanup", "done", "raised"},
                                iteration : D!Iteration, count : 0 .. MAX_RETRY]]
    BY <2>1 DEF D!Init
  <2>3. faultsSeen \in 0 .. TeardownFaults
    BY <2>1 DEF D!Init
  <2>4. gaveUp \in [Threads -> BOOLEAN]
    BY DEF D!Init
  <2> QED
    BY <2>2, <2>3, <2>4 DEF D!Init, D!TypeOK
<1>2. ASSUME NEW t \in Threads PROVE ThreadInv(t)
  <2>1. /\ thread[t].pc = "replicas" /\ thread[t].iteration = 1 /\ thread[t].count = 0
        /\ device[t] = 0 /\ cause[t] = "none" /\ \A i \in D!Iteration : container[t][i] = ""
    BY DEF D!Init, D!NoDevice
  <2>2. 1 \in D!Iteration /\ 0 < MAX_RETRY
    BY TeardownNumbers DEF D!Iteration
  <2> QED
    BY <2>1, <2>2 DEF ThreadInv, DeviceShape, RaceShape
<1> QED
  BY <1>1, <1>2 DEF TeardownInv

(***************************************************************************)
(* A step of one process, and what it leaves as it was.                    *)
(***************************************************************************)
LEMMA TeardownTypes ==
  ASSUME D!TypeOK, NEW t \in Threads
  PROVE  /\ thread \in [Threads -> ThreadSet] /\ thread[t] \in ThreadSet
         /\ thread[t].iteration \in D!Iteration /\ thread[t].iteration # 0
         /\ container \in [Threads -> [D!Iteration -> Statuses]]
         /\ device[t] \in {0} \cup D!Iteration
         /\ DOMAIN device = Threads /\ DOMAIN gaveUp = Threads /\ DOMAIN cause = Threads
<1>1. thread \in [Threads -> ThreadSet] /\ container \in [Threads -> [D!Iteration -> Statuses]]
  BY DEF D!TypeOK, ThreadSet, Place, Statuses
<1>2. thread[t] \in ThreadSet /\ thread[t].iteration \in D!Iteration
  BY <1>1 DEF ThreadSet
<1>3. \A i \in D!Iteration : i # 0
  BY TeardownNumbers DEF D!Iteration
<1> QED
  BY <1>1, <1>2, <1>3 DEF D!TypeOK, D!NoDevice

OthersStay(t) ==
    \A u \in Threads : u # t => /\ thread'[u] = thread[u] /\ container'[u] = container[u]
                               /\ device'[u] = device[u] /\ gaveUp'[u] = gaveUp[u]
                               /\ cause'[u] = cause[u]

LEMMA OneProcess ==
  ASSUME TeardownInv, NEW t \in Threads, D!TypeOK', OthersStay(t), ThreadInv(t)'
  PROVE  TeardownInv'
<1>1. ASSUME NEW u \in Threads, u # t PROVE ThreadInv(u)'
  <2>1. /\ thread'[u] = thread[u] /\ container'[u] = container[u] /\ device'[u] = device[u]
        /\ gaveUp'[u] = gaveUp[u] /\ cause'[u] = cause[u]
    BY <1>1 DEF OthersStay
  <2>2. ThreadInv(u)
    BY DEF TeardownInv
  <2> QED
    BY <2>1, <2>2 DEF ThreadInv, DeviceShape, RaceShape
<1> QED
  BY <1>1 DEF TeardownInv

LEMMA GotoEffect ==
  ASSUME D!TypeOK, NEW t \in Threads, NEW pc \in Place, D!Goto(t, pc)
  PROVE  /\ thread' \in [Threads -> ThreadSet] /\ thread'[t].pc = pc
         /\ thread'[t].iteration = thread[t].iteration /\ thread'[t].count = thread[t].count
         /\ \A u \in Threads : u # t => thread'[u] = thread[u]
<1>1. thread \in [Threads -> ThreadSet]
  BY TeardownTypes
<1> QED
  BY <1>1 DEF D!Goto, ThreadSet

LEMMA StatusEffect ==
  ASSUME D!TypeOK, NEW t \in Threads, NEW status \in Statuses, D!SetStatus(t, status)
  PROVE  /\ container' \in [Threads -> [D!Iteration -> Statuses]]
         /\ container'[t][thread[t].iteration] = status
         /\ \A j \in D!Iteration : j # thread[t].iteration => container'[t][j] = container[t][j]
         /\ \A u \in Threads : u # t => container'[u] = container[u]
<1>1. container \in [Threads -> [D!Iteration -> Statuses]] /\ thread[t].iteration \in D!Iteration
  BY TeardownTypes
<1> DEFINE i == thread[t].iteration
<1> HIDE DEF i
<1>2. container' = [container EXCEPT ![t][i] = status]
  BY DEF D!SetStatus, i
<1> QED
  BY <1>1, <1>2 DEF i

LEMMA CauseEffect ==
  ASSUME D!TypeOK, NEW t \in Threads, NEW why \in {"race", "command", "io"},
         cause' = [cause EXCEPT ![t] = why]
  PROVE  /\ cause' \in [Threads -> {"none", "race", "command", "io"}] /\ cause'[t] = why
         /\ \A u \in Threads : u # t => cause'[u] = cause[u]
BY DEF D!TypeOK

LEMMA TeardownFault ==
  ASSUME D!TypeOK, D!Fails
  PROVE  faultsSeen' \in 0 .. TeardownFaults
<1>1. TeardownFaults \in Nat /\ faultsSeen \in 0 .. TeardownFaults
  BY TeardownNumbers DEF D!TypeOK
<1> QED
  BY <1>1 DEF D!Fails

(* The types of what a step has changed are those of the whole.            *)
LEMMA TeardownTyped ==
  ASSUME thread' \in [Threads -> ThreadSet], container' \in [Threads -> [D!Iteration -> Statuses]],
         leftover' \in [Threads -> SUBSET D!Iteration],
         device' \in [Threads -> {0} \cup D!Iteration], gaveUp' \in [Threads -> BOOLEAN],
         cause' \in [Threads -> {"none", "race", "command", "io"}],
         faultsSeen' \in 0 .. TeardownFaults
  PROVE  D!TypeOK'
BY DEF D!TypeOK, ThreadSet, Place, Statuses, D!NoDevice

LEMMA RunReplicasStep ==
  ASSUME TeardownInv, NEW t \in Threads, D!RunReplicas(t)
  PROVE  TeardownInv'
<1>1. /\ D!TypeOK /\ ThreadInv(t) /\ thread[t].pc = "replicas"
      /\ UNCHANGED <<container, leftover, device, gaveUp>>
  BY DEF TeardownInv, D!RunReplicas
<1>2. PICK pc \in {"controller", "raised"} :
        /\ D!Goto(t, pc) /\ (faultsSeen' = faultsSeen \/ D!Fails)
        /\ \/ pc = "controller" /\ cause' = cause
           \/ pc = "raised" /\ cause' = [cause EXCEPT ![t] = "command"]
  BY DEF D!RunReplicas, D!Raise
<1>3. pc \in Place
  BY DEF Place
<1>4. /\ thread' \in [Threads -> ThreadSet] /\ thread'[t].pc = pc
      /\ thread'[t].iteration = thread[t].iteration /\ thread'[t].count = thread[t].count
      /\ \A u \in Threads : u # t => thread'[u] = thread[u]
  BY <1>1, <1>2, <1>3, GotoEffect
<1>5. /\ cause' \in [Threads -> {"none", "race", "command", "io"}]
      /\ \A u \in Threads : u # t => cause'[u] = cause[u]
      /\ (pc = "controller" /\ cause'[t] = cause[t]) \/ cause'[t] = "command"
  BY <1>1, <1>2, CauseEffect DEF D!TypeOK
<1>6. D!TypeOK'
  BY <1>1, <1>2, <1>4, <1>5, TeardownTypes, TeardownFault, TeardownTyped DEF D!TypeOK, D!NoDevice
<1>7. OthersStay(t)
  BY <1>1, <1>4, <1>5 DEF OthersStay
<1>8. ThreadInv(t)'
  BY <1>1, <1>4, <1>5 DEF ThreadInv, DeviceShape, RaceShape
<1> QED
  BY <1>6, <1>7, <1>8, OneProcess

LEMMA RunControllerStep ==
  ASSUME TeardownInv, NEW t \in Threads, D!RunController(t)
  PROVE  TeardownInv'
<1>1. /\ D!TypeOK /\ ThreadInv(t) /\ thread[t].pc = "controller"
      /\ UNCHANGED <<leftover, device, gaveUp>>
  BY DEF TeardownInv, D!RunController
<1>2. PICK pc \in {"ready", "query"}, status \in Statuses :
        /\ D!Goto(t, pc) /\ D!SetStatus(t, status) /\ (faultsSeen' = faultsSeen \/ D!Fails)
        /\ \/ pc = "ready" /\ status = "Up" /\ cause' = cause
           \/ /\ pc = "query" /\ status \in {"", "Created"}
              /\ cause' = [cause EXCEPT ![t] = "race"]
           \/ /\ pc = "query" /\ status = "Exited"
              /\ cause' = [cause EXCEPT ![t] = "command"]
  BY DEF D!RunController, Statuses
<1>3. pc \in Place
  BY DEF Place
<1>4. /\ thread' \in [Threads -> ThreadSet] /\ thread'[t].pc = pc
      /\ thread'[t].iteration = thread[t].iteration /\ thread'[t].count = thread[t].count
      /\ \A u \in Threads : u # t => thread'[u] = thread[u]
  BY <1>1, <1>2, <1>3, GotoEffect
<1>5. /\ container' \in [Threads -> [D!Iteration -> Statuses]]
      /\ container'[t][thread[t].iteration] = status
      /\ \A j \in D!Iteration : j # thread[t].iteration => container'[t][j] = container[t][j]
      /\ \A u \in Threads : u # t => container'[u] = container[u]
  BY <1>1, <1>2, StatusEffect
<1>6. /\ cause' \in [Threads -> {"none", "race", "command", "io"}]
      /\ \A u \in Threads : u # t => cause'[u] = cause[u]
      /\ \/ pc = "ready" /\ status = "Up" /\ cause'[t] = cause[t]
         \/ pc = "query" /\ status \in {"", "Created"} /\ cause'[t] = "race"
         \/ pc = "query" /\ status = "Exited" /\ cause'[t] = "command"
  BY <1>1, <1>2, CauseEffect DEF D!TypeOK
<1>7. D!TypeOK'
  BY <1>1, <1>2, <1>4, <1>5, <1>6, TeardownTypes, TeardownFault, TeardownTyped DEF D!TypeOK, D!NoDevice
<1>8. OthersStay(t)
  BY <1>1, <1>4, <1>5, <1>6 DEF OthersStay
<1>9. ThreadInv(t)'
  BY <1>1, <1>4, <1>5, <1>6 DEF ThreadInv, DeviceShape, RaceShape
<1> QED
  BY <1>7, <1>8, <1>9, OneProcess

(* A race that no other container hides is seen to be one.                 *)
LEMMA RaceIsSeen ==
  ASSUME D!TypeOK, NEW t \in Threads, Matching[t] = {t},
         container[t][thread[t].iteration] \in {"", "Created"}
  PROVE  D!IsDockerRace(t)
<1>1. D!Lines(t) = IF container[t][thread[t].iteration] = "" THEN {} ELSE {t}
  BY DEF D!Lines
<1> QED
  BY <1>1 DEF D!IsDockerRace

LEMMA QueryStep ==
  ASSUME TeardownInv, NEW t \in Threads, D!Query(t)
  PROVE  TeardownInv'
<1>1. /\ D!TypeOK /\ ThreadInv(t) /\ thread[t].pc = "query"
      /\ UNCHANGED <<leftover, device, gaveUp, cause, faultsSeen>>
  BY DEF TeardownInv, D!Query
<1>2. /\ thread \in [Threads -> ThreadSet] /\ thread[t] \in ThreadSet
      /\ thread[t].count \in Nat /\ thread[t].count < MAX_RETRY /\ MAX_RETRY \in Nat
  <2>1. thread \in [Threads -> ThreadSet] /\ thread[t] \in ThreadSet /\ MAX_RETRY \in Nat
    BY <1>1, TeardownTypes, TeardownNumbers
  <2>2. thread[t].count \in Nat
    BY <2>1 DEF ThreadSet
  <2>3. thread[t].count < MAX_RETRY
    BY <1>1 DEF ThreadInv, RaceShape
  <2> QED
    BY <2>1, <2>2, <2>3
<1>3. CASE D!IsDockerRace(t)
  <2>1. PICK pc \in {"controller", "raised"} :
          /\ thread' = [thread EXCEPT ![t] = [thread[t] EXCEPT !.count = @ + 1, !.pc = pc]]
          /\ pc = "controller" => thread[t].count + 1 < MAX_RETRY
          /\ pc = "raised" => ~(thread[t].count + 1 < MAX_RETRY)
          /\ D!SetStatus(t, "")
    BY <1>2, <1>3 DEF D!Query
  <2>2. /\ thread' \in [Threads -> ThreadSet] /\ thread'[t].pc = pc
        /\ thread'[t].iteration = thread[t].iteration /\ thread'[t].count = thread[t].count + 1
        /\ \A u \in Threads : u # t => thread'[u] = thread[u]
    <3> DEFINE call == [thread[t] EXCEPT !.count = @ + 1, !.pc = pc]
    <3>1. /\ call \in ThreadSet /\ call.pc = pc /\ call.iteration = thread[t].iteration
          /\ call.count = thread[t].count + 1
      <4>1. thread[t].count + 1 \in 0 .. MAX_RETRY /\ pc \in Place
        BY <1>2 DEF Place
      <4> QED
        BY <1>2, <4>1 DEF ThreadSet
    <3> HIDE DEF call
    <3>2. thread' = [thread EXCEPT ![t] = call]
      BY <2>1 DEF call
    <3> QED
      BY <1>2, <3>1, <3>2
  <2>3. /\ container' \in [Threads -> [D!Iteration -> Statuses]]
        /\ container'[t][thread[t].iteration] = ""
        /\ \A j \in D!Iteration : j # thread[t].iteration => container'[t][j] = container[t][j]
        /\ \A u \in Threads : u # t => container'[u] = container[u]
    <3>1. "" \in Statuses
      BY DEF Statuses
    <3> QED
      BY <1>1, <2>1, <3>1, StatusEffect
  <2>4. D!TypeOK'
    BY <1>1, <2>2, <2>3, TeardownTyped DEF D!TypeOK, D!NoDevice
  <2>5. OthersStay(t)
    BY <1>1, <2>2, <2>3 DEF OthersStay
  <2>6. RaceShape(t)'
    <3>1. /\ pc = "controller" => thread'[t].count < MAX_RETRY
          /\ pc = "raised" => thread'[t].count = MAX_RETRY
      <4> DEFINE n == thread[t].count
      <4>1. /\ thread'[t].count = n + 1 /\ n \in Nat /\ n < MAX_RETRY /\ MAX_RETRY \in Nat
            /\ pc = "controller" => n + 1 < MAX_RETRY
            /\ pc = "raised" => ~(n + 1 < MAX_RETRY)
        BY <1>2, <2>1, <2>2
      <4> HIDE DEF n
      <4> QED
        BY <4>1
    <3> QED
      BY <2>2, <3>1 DEF RaceShape
  <2>7. ~gaveUp[t] => DeviceShape(t)'
    BY <1>1, <2>2, <2>3 DEF ThreadInv, DeviceShape
  <2>8. ThreadInv(t)'
    BY <1>1, <2>6, <2>7 DEF ThreadInv
  <2> QED
    BY <2>4, <2>5, <2>8, OneProcess
<1>4. CASE ~D!IsDockerRace(t)
  <2>1. D!Goto(t, "raised") /\ UNCHANGED container /\ "raised" \in Place
    BY <1>4 DEF D!Query, Place
  <2>2. /\ thread' \in [Threads -> ThreadSet] /\ thread'[t].pc = "raised"
        /\ \A u \in Threads : u # t => thread'[u] = thread[u]
    BY <1>1, <2>1, GotoEffect
  <2>3. D!TypeOK'
    BY <1>1, <2>1, <2>2, TeardownTypes, TeardownTyped DEF D!TypeOK, D!NoDevice
  <2>4. OthersStay(t)
    BY <1>1, <2>1, <2>2 DEF OthersStay
  <2>5. cause[t] = "race" => Matching[t] # {t}
    BY <1>1, <1>4, RaceIsSeen DEF ThreadInv, RaceShape
  <2>6. ThreadInv(t)'
    BY <1>1, <2>1, <2>2, <2>5 DEF ThreadInv, DeviceShape, RaceShape
  <2> QED
    BY <2>3, <2>4, <2>6, OneProcess
<1> QED
  BY <1>3, <1>4

(* A wait that does not give up has seen what it waits for.                *)
LEMMA AwaitStep ==
  ASSUME TeardownInv, NEW t \in Threads, D!AwaitReady(t) \/ D!AwaitDeleted(t)
  PROVE  TeardownInv'
<1>1. /\ D!TypeOK /\ ThreadInv(t)
      /\ UNCHANGED <<container, leftover, device, cause, faultsSeen>>
  BY DEF TeardownInv, D!AwaitReady, D!AwaitDeleted, D!Wait
<1>2. PICK pc \in {"write", "check", "cleanup"} :
        /\ D!Goto(t, pc)
        /\ \/ pc = "write" /\ thread[t].pc = "ready"
           \/ pc = "check" /\ thread[t].pc = "ready2"
           \/ pc = "cleanup" /\ thread[t].pc = "deleted"
        /\ \/ /\ gaveUp' = gaveUp
              /\ pc \in {"write", "check"} => device[t] # 0
              /\ pc = "cleanup" => device[t] = 0
           \/ gaveUp' = [gaveUp EXCEPT ![t] = TRUE]
  BY DEF D!AwaitReady, D!AwaitDeleted, D!Wait, D!NoDevice
<1>3. pc \in Place
  BY DEF Place
<1>4. /\ thread' \in [Threads -> ThreadSet] /\ thread'[t].pc = pc
      /\ thread'[t].iteration = thread[t].iteration /\ thread'[t].count = thread[t].count
      /\ \A u \in Threads : u # t => thread'[u] = thread[u]
  BY <1>1, <1>2, <1>3, GotoEffect
<1>5. /\ gaveUp' \in [Threads -> BOOLEAN] /\ (gaveUp[t] => gaveUp'[t])
      /\ \A u \in Threads : u # t => gaveUp'[u] = gaveUp[u]
  <2>1. gaveUp \in [Threads -> BOOLEAN]
    BY <1>1 DEF D!TypeOK
  <2> QED
    BY <1>2, <2>1
<1>6. ~gaveUp'[t] => /\ ~gaveUp[t]
                     /\ pc \in {"write", "check"} => device[t] # 0
                     /\ pc = "cleanup" => device[t] = 0
  BY <1>1, <1>2, <1>5 DEF D!TypeOK
<1>7. D!TypeOK'
  BY <1>1, <1>4, <1>5, TeardownTypes, TeardownTyped DEF D!TypeOK, D!NoDevice
<1>8. OthersStay(t)
  BY <1>1, <1>4, <1>5 DEF OthersStay
<1>9. ThreadInv(t)'
  <2>1. RaceShape(t)'
    BY <1>2, <1>4 DEF RaceShape
  <2>2. thread[t].iteration # 0
    BY <1>1, TeardownTypes
  <2>3. ~gaveUp'[t] => DeviceShape(t)'
    BY <1>1, <1>2, <1>4, <1>6, <2>2 DEF ThreadInv, DeviceShape
  <2> QED
    BY <1>1, <1>5, <2>1, <2>3 DEF ThreadInv
<1> QED
  BY <1>7, <1>8, <1>9, OneProcess

LEMMA UseDeviceStep ==
  ASSUME TeardownInv, NEW t \in Threads, D!UseDevice(t)
  PROVE  TeardownInv'
<1>1. /\ D!TypeOK /\ ThreadInv(t) /\ thread[t].pc \in {"write", "write2", "check"}
      /\ UNCHANGED <<container, leftover, device, gaveUp, faultsSeen>>
  BY DEF TeardownInv, D!UseDevice
<1>2. ~gaveUp[t] => D!DeviceWorks(t)
  <2>1. thread[t].iteration # 0
    BY <1>1, TeardownTypes
  <2> QED
    BY <1>1, <2>1 DEF ThreadInv, DeviceShape, D!DeviceWorks, D!NoDevice
<1>3. PICK pc \in {"snapshot", "revert", "stop", "raised"} :
        /\ D!Goto(t, pc)
        /\ \/ pc # "raised" /\ cause' = cause
           \/ ~D!DeviceWorks(t) /\ pc = "raised" /\ cause' = [cause EXCEPT ![t] = "io"]
  BY DEF D!UseDevice
<1>4. pc \in Place
  BY DEF Place
<1>5. /\ thread' \in [Threads -> ThreadSet] /\ thread'[t].pc = pc
      /\ thread'[t].iteration = thread[t].iteration /\ thread'[t].count = thread[t].count
      /\ \A u \in Threads : u # t => thread'[u] = thread[u]
  BY <1>1, <1>3, <1>4, GotoEffect
<1>6. /\ cause' \in [Threads -> {"none", "race", "command", "io"}]
      /\ \A u \in Threads : u # t => cause'[u] = cause[u]
      /\ (pc # "raised" /\ cause'[t] = cause[t]) \/ (gaveUp[t] /\ cause'[t] = "io")
  BY <1>1, <1>2, <1>3, CauseEffect DEF D!TypeOK
<1>7. D!TypeOK'
  BY <1>1, <1>5, <1>6, TeardownTypes, TeardownTyped DEF D!TypeOK, D!NoDevice
<1>8. OthersStay(t)
  BY <1>1, <1>5, <1>6 DEF OthersStay
<1>9. ThreadInv(t)'
  BY <1>1, <1>5, <1>6 DEF ThreadInv, DeviceShape, RaceShape
<1> QED
  BY <1>7, <1>8, <1>9, OneProcess

LEMMA UseControllerStep ==
  ASSUME TeardownInv, NEW t \in Threads, D!UseController(t)
  PROVE  TeardownInv'
<1>1. /\ D!TypeOK /\ ThreadInv(t) /\ thread[t].pc \in {"snapshot", "revert"}
      /\ UNCHANGED <<container, leftover, gaveUp>>
  BY DEF TeardownInv, D!UseController
<1>2. PICK pc \in {"write2", "ready2", "raised"} :
        /\ D!Goto(t, pc) /\ (faultsSeen' = faultsSeen \/ D!Fails)
        /\ \/ pc = "write2" /\ thread[t].pc = "snapshot" /\ device' = device /\ cause' = cause
           \/ /\ pc = "ready2" /\ thread[t].pc = "revert" /\ cause' = cause
              /\ device' = [device EXCEPT ![t] = 0]
           \/ /\ pc = "raised" /\ device' = device
              /\ cause' = [cause EXCEPT ![t] = "command"]
  BY DEF D!UseController, D!Raise, D!NoDevice
<1>3. pc \in Place
  BY DEF Place
<1>4. /\ thread' \in [Threads -> ThreadSet] /\ thread'[t].pc = pc
      /\ thread'[t].iteration = thread[t].iteration /\ thread'[t].count = thread[t].count
      /\ \A u \in Threads : u # t => thread'[u] = thread[u]
  BY <1>1, <1>2, <1>3, GotoEffect
<1>5. /\ cause' \in [Threads -> {"none", "race", "command", "io"}]
      /\ \A u \in Threads : u # t => cause'[u] = cause[u]
      /\ (pc # "raised" /\ cause'[t] = cause[t]) \/ cause'[t] = "command"
  BY <1>1, <1>2, CauseEffect DEF D!TypeOK
<1>6. /\ device' \in [Threads -> {0} \cup D!Iteration]
      /\ \A u \in Threads : u # t => device'[u] = device[u]
      /\ device'[t] = IF pc = "ready2" THEN 0 ELSE device[t]
  <2>1. device \in [Threads -> {0} \cup D!Iteration]
    BY <1>1 DEF D!TypeOK, D!NoDevice
  <2> QED
    BY <1>2, <2>1
<1>7. D!TypeOK'
  BY <1>1, <1>2, <1>4, <1>5, <1>6, TeardownTypes, TeardownFault, TeardownTyped DEF D!TypeOK
<1>8. OthersStay(t)
  BY <1>1, <1>4, <1>5, <1>6 DEF OthersStay
<1>9. ThreadInv(t)'
  BY <1>1, <1>2, <1>4, <1>5, <1>6 DEF ThreadInv, DeviceShape, RaceShape
<1> QED
  BY <1>7, <1>8, <1>9, OneProcess

LEMMA StopControllerStep ==
  ASSUME TeardownInv, NEW t \in Threads, D!StopController(t)
  PROVE  TeardownInv'
<1>1. /\ D!TypeOK /\ ThreadInv(t) /\ thread[t].pc = "stop" /\ D!Goto(t, "deleted")
      /\ UNCHANGED <<leftover, device, gaveUp, cause>>
      /\ "deleted" \in Place /\ "Exited" \in Statuses
  BY DEF TeardownInv, D!StopController, Place, Statuses
<1>2. /\ thread' \in [Threads -> ThreadSet] /\ thread'[t].pc = "deleted"
      /\ thread'[t].iteration = thread[t].iteration /\ thread'[t].count = thread[t].count
      /\ \A u \in Threads : u # t => thread'[u] = thread[u]
  BY <1>1, GotoEffect
<1>3. /\ container' \in [Threads -> [D!Iteration -> Statuses]]
      /\ \A j \in D!Iteration : j # thread[t].iteration => container'[t][j] = container[t][j]
      /\ \A u \in Threads : u # t => container'[u] = container[u]
  BY <1>1, StatusEffect, TeardownTypes DEF D!StopController
<1>4. D!TypeOK'
  <2>1. faultsSeen' \in 0 .. TeardownFaults
    BY <1>1, TeardownFault DEF D!StopController, D!TypeOK
  <2> QED
    BY <1>1, <1>2, <1>3, <2>1, TeardownTyped DEF D!TypeOK, D!NoDevice
<1>5. OthersStay(t)
  BY <1>1, <1>2, <1>3 DEF OthersStay
<1>6. ThreadInv(t)'
  BY <1>1, <1>2, <1>3 DEF ThreadInv, DeviceShape, RaceShape
<1> QED
  BY <1>4, <1>5, <1>6, OneProcess

(* The next iteration finds no controller that runs, and no device.        *)
LEMMA CleanupStep ==
  ASSUME TeardownInv, NEW t \in Threads, D!Cleanup(t)
  PROVE  TeardownInv'
<1> DEFINE i == thread[t].iteration
           call == IF i = Iterations THEN [thread[t] EXCEPT !.pc = "done"]
                   ELSE [pc |-> "replicas", iteration |-> i + 1, count |-> 0]
<1>1. /\ D!TypeOK /\ ThreadInv(t) /\ thread[t].pc = "cleanup"
      /\ UNCHANGED <<device, gaveUp, cause>> /\ thread' = [thread EXCEPT ![t] = call]
      /\ "" \in Statuses
  BY DEF TeardownInv, D!Cleanup, Statuses
<1>2. /\ thread \in [Threads -> ThreadSet] /\ thread[t] \in ThreadSet /\ i \in D!Iteration
      /\ container \in [Threads -> [D!Iteration -> Statuses]]
  BY <1>1, TeardownTypes
<1>3. /\ container' \in [Threads -> [D!Iteration -> Statuses]]
      /\ \A j \in D!Iteration : j # i => container'[t][j] = container[t][j]
      /\ container'[t][i] \in {"", container[t][i]}
      /\ \A u \in Threads : u # t => container'[u] = container[u]
  BY <1>1, <1>2, StatusEffect DEF D!Cleanup
<1>4. /\ call \in ThreadSet
      /\ \/ call.pc = "done" /\ call.iteration = i
         \/ call.pc = "replicas" /\ call.iteration \in D!Iteration /\ call.count = 0
  <2>1. CASE i = Iterations
    BY <1>2, <2>1 DEF ThreadSet, Place
  <2>2. CASE i # Iterations
    <3>1. i + 1 \in D!Iteration /\ 0 \in 0 .. MAX_RETRY /\ "replicas" \in Place
      BY <1>2, <2>2, TeardownNumbers DEF D!Iteration, Place
    <3>2. call = [pc |-> "replicas", iteration |-> i + 1, count |-> 0]
      BY <2>2
    <3> HIDE DEF i, call
    <3> QED
      BY <3>1, <3>2 DEF ThreadSet
  <2> QED
    BY <2>1, <2>2
<1> HIDE DEF call
<1>5. /\ thread' \in [Threads -> ThreadSet] /\ thread'[t] = call
      /\ \A u \in Threads : u # t => thread'[u] = thread[u]
  BY <1>1, <1>2, <1>4
<1>6. D!TypeOK'
  <2>1. faultsSeen' \in 0 .. TeardownFaults
    BY <1>1, TeardownFault DEF D!Cleanup, D!TypeOK
  <2>2. leftover' \in [Threads -> SUBSET D!Iteration]
    <3>1. leftover \in [Threads -> SUBSET D!Iteration]
      BY <1>1 DEF D!TypeOK
    <3>2. UNCHANGED leftover \/ leftover' = [leftover EXCEPT ![t] = leftover[t] \cup {i}]
      BY DEF D!Cleanup
    <3> HIDE DEF i
    <3> QED
      BY <1>2, <3>1, <3>2
  <2> QED
    BY <1>1, <1>3, <1>5, <2>1, <2>2, TeardownTyped DEF D!TypeOK, D!NoDevice
<1>7. OthersStay(t)
  BY <1>1, <1>3, <1>5 DEF OthersStay
<1>8. ThreadInv(t)'
  <2>1. RaceShape(t)'
    <3>1. 0 < MAX_RETRY
      BY TeardownNumbers
    <3> QED
      BY <1>4, <1>5, <3>1 DEF RaceShape
  <2>2. ~gaveUp[t] => device[t] = 0 /\ \A j \in D!Iteration : container'[t][j] # "Up"
    BY <1>1, <1>2, <1>3 DEF ThreadInv, DeviceShape
  <2>3. ~gaveUp[t] => DeviceShape(t)'
    BY <1>1, <1>4, <1>5, <2>2 DEF DeviceShape
  <2> QED
    BY <1>1, <2>1, <2>3 DEF ThreadInv
<1> QED
  BY <1>6, <1>7, <1>8, OneProcess

LEMMA DeviceStep ==
  ASSUME TeardownInv, NEW t \in Threads, D!DeviceAppears(t) \/ D!DeviceGoes(t)
  PROVE  TeardownInv'
<1>1. /\ D!TypeOK /\ ThreadInv(t)
      /\ UNCHANGED <<thread, container, leftover, gaveUp, cause, faultsSeen>>
  BY DEF TeardownInv, D!DeviceAppears, D!DeviceGoes
<1>2. PICK dev \in {0} \cup D!Iteration :
        /\ device' = [device EXCEPT ![t] = dev]
        /\ \/ device[t] = 0 /\ dev \in D!Iteration /\ container[t][dev] = "Up"
           \/ device[t] # 0 /\ container[t][device[t]] # "Up" /\ dev = 0
  BY DEF D!DeviceAppears, D!DeviceGoes, D!NoDevice
<1>3. /\ device' \in [Threads -> {0} \cup D!Iteration] /\ device'[t] = dev
      /\ \A u \in Threads : u # t => device'[u] = device[u]
  BY <1>1, <1>2 DEF D!TypeOK, D!NoDevice
<1>4. D!TypeOK'
  BY <1>1, <1>3 DEF D!TypeOK, D!NoDevice
<1>5. OthersStay(t)
  BY <1>1, <1>3 DEF OthersStay
<1>6. RaceShape(t)'
  BY <1>1 DEF ThreadInv, RaceShape
<1>7. ~gaveUp[t] => DeviceShape(t)'
  <2>1. thread[t].iteration # 0 /\ thread[t].iteration \in D!Iteration
    BY <1>1, TeardownTypes
  <2> QED
    BY <1>1, <1>2, <1>3, <2>1 DEF ThreadInv, DeviceShape
<1>8. ThreadInv(t)'
  BY <1>1, <1>6, <1>7 DEF ThreadInv
<1> QED
  BY <1>4, <1>5, <1>8, OneProcess

LEMMA TeardownStep ==
  ASSUME TeardownInv, D!Next
  PROVE  TeardownInv'
<1>1. PICK t \in Threads : D!run_test(t) \/ D!DeviceAppears(t) \/ D!DeviceGoes(t)
  BY DEF D!Next
<1> QED
  BY <1>1, RunReplicasStep, RunControllerStep, QueryStep, AwaitStep, UseDeviceStep, UseControllerStep,
     StopControllerStep, CleanupStep, DeviceStep DEF D!run_test

-----------------------------------------------------------------------------
(* The three together.                                                     *)
Inv == RebuildInv /\ PatternInv /\ TeardownInv

LEMMA Invariance == Spec => []Inv
<1>1. Init => Inv
  BY RebuildInit, PatternInit, TeardownInit DEF Init, Inv
<1>2. Inv /\ [Next]_vars => Inv'
  <2> SUFFICES ASSUME Inv, [Next]_vars PROVE Inv'
    OBVIOUS
  <2>1. UNCHANGED rebuilding => RebuildInv'
    BY DEF Inv, rebuilding, RebuildInv, R!TypeOK, WrittenInv, ReplicaInv, Serves, SnapshotInv, AtMost
  <2>2. UNCHANGED patterns => PatternInv'
    BY DEF Inv, patterns, PatternInv, P!TypeOK, WriterInv, BlockInv, Pending, ReaderInv
  <2>3. UNCHANGED teardown => TeardownInv'
    <3> SUFFICES ASSUME UNCHANGED teardown PROVE TeardownInv'
      OBVIOUS
    <3>1. UNCHANGED <<thread, container, leftover, device, gaveUp, cause, faultsSeen>>
      BY DEF teardown
    <3>2. D!TypeOK'
      BY <3>1 DEF Inv, TeardownInv, D!TypeOK
    <3>3. ASSUME NEW t \in Threads PROVE ThreadInv(t)'
      BY <3>1 DEF Inv, TeardownInv, ThreadInv, DeviceShape, RaceShape
    <3> QED
      BY <3>2, <3>3 DEF TeardownInv
  <2>4. CASE Rebuilding /\ R!Next
    BY <2>2, <2>3, <2>4, RebuildStep DEF Inv, Rebuilding
  <2>5. CASE Patterns /\ P!Next
    BY <2>1, <2>3, <2>5, PatternStep DEF Inv, Patterns
  <2>6. CASE Teardown /\ D!Next
    BY <2>1, <2>2, <2>6, TeardownStep DEF Inv, Teardown
  <2>7. CASE UNCHANGED vars
    BY <2>1, <2>2, <2>3, <2>7 DEF Inv, vars
  <2> QED
    BY <2>4, <2>5, <2>6, <2>7 DEF Next
<1> QED
  BY <1>1, <1>2, PTL DEF Spec

(* Every variable of the three stress tests has its type.                  *)
THEOREM TypeCorrect == Spec => []TypeOK
<1>1. Inv => TypeOK
  BY DEF Inv, TypeOK, RebuildInv, PatternInv, TeardownInv
<1> QED
  BY <1>1, Invariance, PTL

(* rebuild-test.py: whichever replica is rebuilt and wherever it breaks    *)
(* off, one has all the data, and no check of a page fails; two snapshots  *)
(* above the limit are the most, although one process counts them and both *)
(* take them, and one more for each listing that failed.                   *)
THEOREM VolumeIsKept == Spec => []VolumeKeepsItsData
<1>1. Inv => VolumeKeepsItsData
  BY DEF Inv, VolumeKeepsItsData, RebuildInv, ReplicaInv, WrittenInv, SnapshotInv, AtMost,
         R!VolumeKeepsAReplica, R!RebuildRaisesNoAlarm, R!SnapshotsBounded
<1> QED
  BY <1>1, Invariance, PTL

(* stress-test.py: with delays that are together below the slack, no order *)
(* of writes and reads without a lock raises an alarm about a sound block. *)
THEOREM NoFalseAlarm == Spec => []AlarmsAreAboutDamage
<1>1. Inv => AlarmsAreAboutDamage
  BY DEF Inv, AlarmsAreAboutDamage, PatternInv, ReaderInv, P!AlarmsAreAboutDamage
<1> QED
  BY <1>1, Invariance, PTL

(* teardown-test.py: no process uses the device of another iteration, nor  *)
(* gives docker's race up early, but as the property says.                 *)
THEOREM ProcessesStayApart == Spec => []ProcessesAreApart
<1>1. Inv => ProcessesAreApart
  BY DEF Inv, ProcessesAreApart, TeardownInv, ThreadInv, DeviceShape, RaceShape, D!DeviceIsOwn, D!DockerRaceIsRetried
<1> QED
  BY <1>1, Invariance, PTL
=============================================================================
