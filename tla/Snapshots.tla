------------------------------ MODULE Snapshots ------------------------------
(***************************************************************************)
(* Snapshots of one volume (e2e/libs/snapshot/rest.py and                  *)
(* keywords/snapshot_keywords.py): a test creates them, marks them as      *)
(* removed, reverts to one, purges, and looks which ones are left.         *)
(*                                                                         *)
(* The test knows a snapshot by an id that it stores as an annotation; get *)
(* lists the snapshots and then reads the annotation of each.  A purge     *)
(* runs in every replica by itself, and the test follows it on the         *)
(* volume's purgeStatus, which Longhorn brings up to date now and then.    *)
(* A snapshot goes by its id here.                                         *)
(***************************************************************************)
EXTENDS Naturals, FiniteSets

CONSTANTS
    Ids,           \* ids a test gives to its snapshots
    Replicas,
    None,          \* no snapshot
    RetryCount,    \* rounds of a wait
    MaxFaults      \* bound: reads and annotations that fail

Bounds == /\ None \notin Ids
          /\ RetryCount \in Nat \ {0} /\ MaxFaults \in Nat

VARIABLES
    snapshot,  \* each snapshot: taken, marked as removed, annotated with its id
    head,      \* the snapshot the volume head is based on
    held,      \* the snapshots in each replica
    purge,     \* the purge in each replica
    todo,      \* the snapshots that the purge is to remove
    status,    \* purgeStatus: the replicas' purges as last reported
    test,      \* the test thread: its call, the snapshot, whether it was listed
    faults,
    hist       \* what the test has been told, for the properties

vars == <<snapshot, head, held, purge, todo, status, test, faults, hist>>

Lookups == {"delete", "revert", "present", "absent", "awaitAbsent", "marked", "awaitReady"}
ByName == {"awaitTaken", "awaitDropped"}
Waits == {"purge", "waitStart", "waitCompleted"}
Phases == {"none", "inProgress", "complete", "error"}

TypeOK == /\ snapshot \in [Ids -> [state : {"none", "asked", "taken"},
                                   removed : BOOLEAN, named : BOOLEAN]]
          /\ head \in Ids \cup {None}
          /\ held \in [Replicas -> SUBSET Ids]
          /\ purge \in [Replicas -> Phases]
          /\ todo \subseteq Ids
          /\ \E R \in SUBSET Replicas : status \in [R -> Phases \ {"none"}]
          /\ test \in [pc : {"idle", "create", "lookup", "again", "failed"} \cup Waits \cup ByName,
                       call : {"none"} \cup Lookups, id : Ids \cup {None},
                       round : 0 .. RetryCount,
                       listed : BOOLEAN, removed : BOOLEAN]
          /\ faults \in 0 .. MaxFaults
          /\ hist \in [absent : SUBSET Ids, fresh : BOOLEAN,
                       told : {"nothing", "started", "polled", "ended"}]

NoCall == [pc |-> "idle", call |-> "none", id |-> None, round |-> 0,
           listed |-> FALSE, removed |-> FALSE]
Failed == [NoCall EXCEPT !.pc = "failed"]

Init == /\ snapshot = [i \in Ids |-> [state |-> "none", removed |-> FALSE, named |-> FALSE]]
        /\ head = None
        /\ held = [r \in Replicas |-> {}]
        /\ purge = [r \in Replicas |-> "none"]
        /\ todo = {}
        /\ status = [r \in {} |-> "none"]
        /\ test = NoCall
        /\ faults = 0
        /\ hist = [absent |-> {}, fresh |-> FALSE, told |-> "nothing"]

-----------------------------------------------------------------------------
(* Longhorn (external).                                                    *)

Take(i) == /\ snapshot[i].state = "asked"
           /\ snapshot' = [snapshot EXCEPT ![i].state = "taken"]
           /\ head' = i
           /\ held' = [r \in Replicas |-> held[r] \cup {i}]
           /\ UNCHANGED <<purge, todo, status, test, faults, hist>>

PurgeRuns == \E r \in Replicas : purge[r] = "inProgress"

PurgeEnds(r) == /\ purge[r] = "inProgress"
                /\ \/ /\ purge' = [purge EXCEPT ![r] = "complete"]
                      /\ held' = [held EXCEPT ![r] = @ \ todo]
                   \/ purge' = [purge EXCEPT ![r] = "error"] /\ UNCHANGED held
                /\ UNCHANGED <<snapshot, head, todo, status, test, faults, hist>>

(* The volume's status follows the engine's at intervals.                  *)
Report == /\ status' = [r \in {q \in Replicas : purge[q] # "none"} |-> purge[r]]
          /\ hist' = [hist EXCEPT !.fresh = TRUE]
          /\ UNCHANGED <<snapshot, head, held, purge, todo, test, faults>>

(* The model ends with the test.                                           *)
Longhorn == /\ test.pc # "failed"
            /\ \/ Report
               \/ \E i \in Ids : Take(i)
               \/ \E r \in Replicas : PurgeEnds(r)

(* The list of a volume's snapshots, over its replicas.                    *)
Listed == UNION {held[r] : r \in Replicas}

-----------------------------------------------------------------------------
(* create                                                                  *)

Idle == test.pc = "idle"

Call(pc, i) == test' = [NoCall EXCEPT !.pc = pc, !.id = i]

Fault == faults < MaxFaults /\ faults' = faults + 1

(* Without waiting the snapshot never gets its id.                         *)
Create(i) == /\ Idle /\ snapshot[i].state = "none"
             /\ snapshot' = [snapshot EXCEPT ![i].state = "asked"]
             /\ \E wait \in BOOLEAN : IF wait THEN Call("create", i) ELSE UNCHANGED test
             /\ UNCHANGED <<head, held, purge, todo, status, faults, hist>>

(* set_annotation gives up in silence after conflicts and raises other     *)
(* errors.                                                                 *)
SetSnapshotId == /\ test.pc = "create" /\ test.round < RetryCount
                 /\ test.id \in Listed
                 /\ \/ /\ snapshot' = [snapshot EXCEPT ![test.id].named = TRUE]
                       /\ test' = NoCall
                       /\ UNCHANGED faults
                    \/ Fault /\ test' \in {NoCall, Failed} /\ UNCHANGED snapshot
                 /\ UNCHANGED <<head, held, purge, todo, status, hist>>

(* Slip for NotListed: one round too many.                                 *)
NotListedOnceMore == /\ test.pc = "create" /\ test.round <= RetryCount
                     /\ test.id \notin Listed
                     /\ test' = [test EXCEPT !.round = @ + 1]
                     /\ UNCHANGED <<snapshot, head, held, purge, todo, status, faults, hist>>

NotListed == /\ test.pc = "create" /\ test.round < RetryCount
             /\ test.id \notin Listed
             /\ test' = [test EXCEPT !.round = @ + 1]
             /\ UNCHANGED <<snapshot, head, held, purge, todo, status, faults, hist>>

-----------------------------------------------------------------------------
(* get, and the calls that begin with it                                   *)

Again(call, i, round) == [NoCall EXCEPT !.pc = "again", !.call = call, !.id = i,
                                        !.round = round]

(* What the list has of the snapshot looked for.  One that fails on every  *)
(* attempt raises; wait_for_snapshot_ready alone goes on then.             *)
List(call, i, round) ==
    /\ \/ /\ test' = [pc |-> "lookup", call |-> call, id |-> i, round |-> round,
                       listed |-> i \in Listed, removed |-> snapshot[i].removed]
          /\ UNCHANGED faults
       \/ Fault /\ test' = IF call = "awaitReady" THEN Again(call, i, round + 1) ELSE Failed
    /\ UNCHANGED <<snapshot, head, held, purge, todo, status, hist>>

Lookup(call, i) == Idle /\ List(call, i, 0)

LookAgain == /\ test.pc = "again" /\ test.round < RetryCount
             /\ List(test.call, test.id, test.round)

(* get_annotation_value answers "" to any error: the snapshot is not found *)
(* then, and neither if it went away after it was listed.                  *)
Got(found) == \/ found = (test.listed /\ snapshot[test.id].named) /\ UNCHANGED faults
              \/ ~found /\ test.id \notin Listed /\ UNCHANGED faults
              \/ ~found /\ Fault

Looked(call, found) == test.pc = "lookup" /\ test.call = call /\ Got(found)

Delete == /\ Looked("delete", TRUE)
          /\ \/ /\ snapshot' = [snapshot EXCEPT ![test.id].removed = TRUE]
                /\ test' = NoCall
             \/ test' = Failed /\ UNCHANGED snapshot
          /\ UNCHANGED <<head, held, purge, todo, status, hist>>

(* Longhorn refuses to revert while it purges, or to a removed snapshot.   *)
Revert == /\ Looked("revert", TRUE)
          /\ \/ /\ ~PurgeRuns /\ test.id \in Listed /\ ~snapshot[test.id].removed
                /\ head' = test.id
                /\ test' = NoCall
             \/ test' = Failed /\ UNCHANGED head
          /\ UNCHANGED <<snapshot, held, purge, todo, status, hist>>

(* A snapshot that was not found has no attributes; the first check of a   *)
(* call fails the test at once.                                            *)
Checked(passes) == /\ test' = IF passes THEN NoCall ELSE Failed
                   /\ UNCHANGED <<snapshot, head, held, purge, todo, status>>

NotFound == \E call \in {"delete", "revert", "present", "marked"} :
                Looked(call, FALSE) /\ Checked(FALSE) /\ UNCHANGED hist

Present == Looked("present", TRUE) /\ Checked(TRUE) /\ UNCHANGED hist

(* is_marked_as_removed and is_not_marked_as_removed.                      *)
Marked == /\ Looked("marked", TRUE)
          /\ \E expected \in BOOLEAN : Checked(test.removed = expected)
          /\ UNCHANGED hist

StillThere == Looked("absent", TRUE) /\ Checked(FALSE) /\ UNCHANGED hist

(* For the properties: the answer is not due to a failed read or to an id  *)
(* that was never stored.                                                  *)
ToldAbsent == hist' = IF snapshot[test.id].named /\ faults' = faults
                      THEN [hist EXCEPT !.absent = @ \cup {test.id}] ELSE hist

(* Slip for Absent: a snapshot marked as removed counts as deleted.        *)
AbsentOrMarked == \E call \in {"absent", "awaitAbsent"}, found \in BOOLEAN :
                      /\ Looked(call, found)
                      /\ found => test.removed
                      /\ Checked(TRUE) /\ ToldAbsent

Absent == \E call \in {"absent", "awaitAbsent"} :
              Looked(call, FALSE) /\ Checked(TRUE) /\ ToldAbsent

Ready == /\ Looked("awaitReady", TRUE) /\ ~test.removed
         /\ Checked(TRUE) /\ UNCHANGED hist

WaitsOn == /\ \/ Looked("awaitAbsent", TRUE)
              \/ Looked("awaitReady", TRUE) /\ test.removed
              \/ Looked("awaitReady", FALSE)
           /\ test' = Again(test.call, test.id, test.round + 1)
           /\ UNCHANGED <<snapshot, head, held, purge, todo, status, hist>>

-----------------------------------------------------------------------------
(* The waits that know a snapshot by its name need no annotation; the one  *)
(* for its deletion ends when it is marked as removed.                     *)

AwaitByName(pc, i) == /\ Idle
                      /\ Call(pc, i)
                      /\ UNCHANGED <<snapshot, head, held, purge, todo, status, faults, hist>>

Awaited == \/ test.pc = "awaitTaken" /\ test.id \in Listed
           \/ test.pc = "awaitDropped" /\ (test.id \notin Listed \/ snapshot[test.id].removed)

ByNameReturns == /\ test.pc \in ByName /\ test.round < RetryCount /\ Awaited
                 /\ test' = NoCall
                 /\ UNCHANGED <<snapshot, head, held, purge, todo, status, faults, hist>>

ByNameGoesOn == /\ test.pc \in ByName /\ test.round < RetryCount
                /\ \/ ~Awaited /\ UNCHANGED faults
                   \/ Fault
                /\ test' = [test EXCEPT !.round = @ + 1]
                /\ UNCHANGED <<snapshot, head, held, purge, todo, status, hist>>

-----------------------------------------------------------------------------
(* purge and the waits for it                                              *)

(* A request is refused while a purge runs; some tests expect that and go  *)
(* on.                                                                     *)
Purge == /\ Idle
         /\ \/ /\ ~PurgeRuns
               /\ purge' = [r \in Replicas |-> "inProgress"]
               /\ todo' = {i \in Ids : snapshot[i].removed} \ {head}
               /\ hist' = [hist EXCEPT !.fresh = FALSE, !.told = "nothing"]
               /\ \E wait \in BOOLEAN : IF wait THEN Call("purge", None) ELSE UNCHANGED test
            \/ /\ PurgeRuns
               /\ test' \in {NoCall, Failed}
               /\ UNCHANGED <<purge, todo, hist>>
         /\ UNCHANGED <<snapshot, head, held, status, faults>>

PollPurge == /\ test.pc = "purge" /\ test.round < RetryCount

(* Slip for AllCompleted: one replica is enough.                           *)
OneCompleted == "complete" \in {status[r] : r \in DOMAIN status}

(* As many as the status has replicas, which may be none.                  *)
AllCompleted == \A r \in DOMAIN status : status[r] = "complete"

PurgeError == \E r \in DOMAIN status : status[r] = "error"

PurgeReturns == /\ PollPurge /\ ~PurgeError /\ AllCompleted
                /\ test' = NoCall
                /\ hist' = [hist EXCEPT !.told = IF hist.fresh THEN "polled" ELSE @]
                /\ UNCHANGED <<snapshot, head, held, purge, todo, status, faults>>

PurgeFails == /\ PollPurge /\ PurgeError
              /\ test' \in {NoCall, Failed}
              /\ UNCHANGED <<snapshot, head, held, purge, todo, status, faults, hist>>

PurgeGoesOn == /\ PollPurge /\ ~PurgeError /\ ~AllCompleted
               /\ test' = [test EXCEPT !.round = @ + 1]
               /\ UNCHANGED <<snapshot, head, held, purge, todo, status, faults, hist>>

(* Slip for IsPurging: only while it runs in all replicas.                 *)
IsPurgingEverywhere == /\ DOMAIN status # {}
                       /\ \A r \in DOMAIN status : status[r] = "inProgress"

IsPurging == \E r \in DOMAIN status : status[r] = "inProgress"

WaitForPurge(call) == /\ Idle
                      /\ Call(call, None)
                      /\ UNCHANGED <<snapshot, head, held, purge, todo, status, faults, hist>>

PurgeStarted == /\ test.pc = "waitStart" /\ test.round < RetryCount /\ IsPurging
                /\ test' = NoCall
                /\ hist' = [hist EXCEPT !.told = "started"]
                /\ UNCHANGED <<snapshot, head, held, purge, todo, status, faults>>

PurgeCompleted == /\ test.pc = "waitCompleted" /\ test.round < RetryCount /\ ~IsPurging
                  /\ test' = NoCall
                  /\ hist' = [hist EXCEPT !.told = IF @ = "started" THEN "ended" ELSE @]
                  /\ UNCHANGED <<snapshot, head, held, purge, todo, status, faults>>

WaitGoesOn == /\ test.pc \in {"waitStart", "waitCompleted"} /\ test.round < RetryCount
              /\ IsPurging = (test.pc = "waitCompleted")
              /\ test' = [test EXCEPT !.round = @ + 1]
              /\ UNCHANGED <<snapshot, head, held, purge, todo, status, faults, hist>>

TimesOut == /\ test.round = RetryCount
            /\ test' = Failed
            /\ UNCHANGED <<snapshot, head, held, purge, todo, status, faults, hist>>

(* The reads of the volume in these polls are not retried.                 *)
ReadFails == /\ test.pc \in Waits
             /\ Fault
             /\ test' = Failed
             /\ UNCHANGED <<snapshot, head, held, purge, todo, status, hist>>

Begin == \/ Purge
         \/ \E i \in Ids : Create(i)
         \/ \E call \in Lookups, i \in Ids : Lookup(call, i)
         \/ \E pc \in ByName, i \in Ids : AwaitByName(pc, i)
         \/ \E call \in {"waitStart", "waitCompleted"} : WaitForPurge(call)

Step == \/ SetSnapshotId \/ NotListed
        \/ LookAgain \/ Delete \/ Revert \/ NotFound \/ Present \/ Marked
        \/ StillThere \/ Absent \/ Ready \/ WaitsOn \/ ByNameReturns \/ ByNameGoesOn
        \/ PurgeReturns \/ PurgeFails \/ PurgeGoesOn
        \/ PurgeStarted \/ PurgeCompleted \/ WaitGoesOn
        \/ TimesOut \/ ReadFails

Next == Longhorn \/ Begin \/ Step

(* The thread runs; Longhorn owes the test nothing.                        *)
Spec == Init /\ [][Next]_vars /\ WF_vars(Step)

-----------------------------------------------------------------------------
(* Properties.                                                             *)

(* A check or wait that found a snapshot missing from the list is right:   *)
(* no replica has it any more.  A snapshot that lost its id, or was        *)
(* created without waiting, and one whose annotation could not be read,    *)
(* pass for missing.                                                       *)
AbsentMeansGone == hist.absent \cap Listed = {}

(* A purge that waits returns when every replica has removed what it was   *)
(* to remove, if the status it read was one of this purge.  It may be one  *)
(* of an earlier purge, or empty: then it returns at once.                 *)
PolledPurgeIsDone == hist.told = "polled" => Listed \cap todo = {}

(* A wait for the purge to start and one for it to complete show together  *)
(* that it is over, even if the first saw the status of an earlier purge.  *)
(* They do not see whether it failed.                                      *)
AwaitedPurgeIsDone == /\ hist.told = "ended"
                      /\ \A r \in Replicas : purge[r] # "error"
                      => Listed \cap todo = {}

=============================================================================
