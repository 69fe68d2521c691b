----------------------------- MODULE MC_Volumes -----------------------------
(***************************************************************************)
(* The life of a volume: its attachment, its migration, its creation and   *)
(* restoration, and the rebuilding of its replicas.  Each of the four is   *)
(* explored on its own: they are about different volumes.                  *)
(*                                                                         *)
(* The run has two nodes; two foreign tickets, so that a node can hold the *)
(* harness' and two others; three attempts of an attach, so that a call    *)
(* meets a conflict, a lost reply and the fallback in turn; four rounds of *)
(* a wait for a migration, with an engine that crashes at any moment; two  *)
(* volumes of one name and a second backup for the standby to catch up     *)
(* with; two volumes that rebuild, in waits of two rounds.                 *)
(***************************************************************************)
EXTENDS Naturals

CONSTANTS
    Nodes, None, Target, Any,
    Foreign, AttachmentRetries, MaxCalls, MaxVersion, MaxLost,
    MigrationRounds, MaxCrashes,
    RestorationRounds, MaxBackups, MaxCreates, RestorationFaults,
    V0, V1, Scripts, RebuildingRounds, NodeLimit, VolumeLimit, RebuildingFaults

VARIABLES part, tickets, version, h, calls, removed, lost,
          mTickets, mVol, engines, t, crashes,
          backups, vol, test, faults, hist,
          replica, task, turn, kw, outages, rHist

A == INSTANCE VolumeAttachment WITH RetryCount <- AttachmentRetries
M == INSTANCE VolumeMigration
     WITH RetryCount <- MigrationRounds, tickets <- mTickets, vol <- mVol
R == INSTANCE VolumeRestoration
     WITH RetryCount <- RestorationRounds, MaxFaults <- RestorationFaults
B == INSTANCE ReplicaRebuilding
     WITH RetryCount <- RebuildingRounds, MaxFaults <- RebuildingFaults, hist <- rHist

ASSUME AttachmentBounds == A!Bounds
ASSUME MigrationBounds == M!Bounds
ASSUME RestorationBounds == R!Bounds
ASSUME RebuildingBounds == B!Bounds

attachment == <<tickets, version, h, calls, removed, lost>>
migration == <<mTickets, mVol, engines, t, crashes>>
restoration == <<backups, vol, test, faults, hist>>
rebuilding == <<replica, task, turn, kw, outages, rHist>>
vars == <<part, attachment, migration, restoration, rebuilding>>

Init == /\ part \in {"attachment", "migration", "restoration", "rebuilding"}
        /\ A!Init /\ M!Init /\ R!Init /\ B!Init
        /\ part # "migration" => t.old = Target /\ t.confirm
        /\ part # "rebuilding" => /\ kw.script = "onlyOne"
                                  /\ \A n \in Nodes \ {Target} : replica[V0][n] = "RW"

Attachment == part = "attachment" /\ UNCHANGED <<part, migration, restoration, rebuilding>>
Migration == part = "migration" /\ UNCHANGED <<part, attachment, restoration, rebuilding>>
Restoration == part = "restoration" /\ UNCHANGED <<part, attachment, migration, rebuilding>>
Rebuilding == part = "rebuilding" /\ UNCHANGED <<part, attachment, migration, restoration>>

Next == \/ Attachment /\ A!Next
        \/ Migration /\ M!Next
        \/ Restoration /\ R!Next
        \/ Rebuilding /\ B!Next
Thread == \/ Attachment /\ A!Step
          \/ Migration /\ M!Test
          \/ Restoration /\ R!Step
          \/ Rebuilding /\ B!Test

Spec == Init /\ [][Next]_vars /\ WF_vars(Thread)

InCall == \/ part = "attachment" /\ h.pc \notin A!Ended
          \/ part = "migration" /\ t.pc \notin {"done", "failed"}
          \/ part = "restoration" /\ test.pc \notin {"idle", "failed"}
          \/ part = "rebuilding" /\ kw.pc \notin B!Over

TypeOK == A!TypeOK /\ M!TypeOK /\ R!TypeOK /\ B!TypeOK

(* crd.py detach: one call deletes one ticket, or one more per lost reply; *)
(* it returns after deleting one, and fails without having deleted any.    *)
DetachDeletesOne == A!DetachDeletesOne /\ A!DetachOutcome

(* crd.py attach, detach, enable_volume_frontend: a foreign ticket is      *)
(* taken away only by a detach that finds no ticket of its own.            *)
ForeignTicketsSafe == A!ForeignTicketsSafe

(* crd.py attach, detach, enable_volume_frontend: each changes the tickets *)
(* in one step, and once more only for a reply that was lost.              *)
CallsAreAtomic == A!ImplementsTicketSet

(* crd.py wait_for_volume_migration_complete and its rollback: what they   *)
(* return on is final, although engines and volume were read apart.        *)
OutcomeIsFinal == M!OutcomeIsFinal

(* crd.py create: the volume of a create that returned is its own, if the  *)
(* deletion before it saw the name free.                                   *)
CreatedIsNew == R!CreatedIsNew

(* crd.py wait_for_restore_required_status and the wait for a completed    *)
(* restoration, volume/rest.py activate: the volume has the data of its    *)
(* backup, and an activated one those of the last that activate knew of.   *)
RestoredHasTheData == R!RestoredHasTheData /\ R!ActivatedHasLastBackup

(* The keywords for rebuildings pass only after what they wait for: both   *)
(* volumes at the same moment, or the replica on the node that was given.  *)
BothMeansTogether == B!BothMeansTogether /\ B!StartsOnTheNode

(* volume_keywords.py: the rebuilding of the first volume on the node      *)
(* stays in progress, and the loop that asks for it goes round.            *)
RebuildingStalls == part = "rebuilding" /\ B!Loops /\ B!InProgress(kw.first, Target)

(***************************************************************************)
(* Every call, scenario and keyword ends, whatever Longhorn does not do    *)
(* and however its coroutines are cancelled or left over, but one: the     *)
(* keyword that only one of two volumes rebuilds on a node loops while the *)
(* first rebuilds, and does not end if that rebuilding never does.         *)
(***************************************************************************)
CallsEnd == (InCall ~> ~InCall) \/ <>[]RebuildingStalls
=============================================================================
