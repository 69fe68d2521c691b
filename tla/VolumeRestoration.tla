--------------------------- MODULE VolumeRestoration ---------------------------
(***************************************************************************)
(* Volumes created, restored from a backup, activated and deleted under    *)
(* one name (e2e/libs/volume/crd.py; activate of rest.py).  Tests number   *)
(* their volumes, so the name of a volume is the name of the one that an   *)
(* earlier test deleted.                                                   *)
(*                                                                         *)
(* A backup is the number of backups of the source volume when it was      *)
(* made, and stands for its data; 0 is none.  A volume is plain, restored  *)
(* from a backup, or a standby that follows the backups until activated.   *)
(***************************************************************************)
EXTENDS Naturals

CONSTANTS
    RetryCount,    \* rounds of a wait, attempts of a request
    MaxBackups,    \* bound: backups of the source volume
    MaxCreates,    \* bound: calls of create
    MaxFaults      \* bound: requests and reads that fail

Bounds == /\ RetryCount \in Nat \ {0} /\ MaxBackups \in Nat \ {0}
          /\ MaxCreates \in Nat /\ MaxFaults \in Nat

VARIABLES
    backups,   \* backups of the source volume
    vol,       \* the volume under the name
    test,      \* the test thread: its call, where it is, what it asked for
    faults,
    hist       \* what the test has been told, for the properties

vars == <<backups, vol, test, faults, hist>>

Kinds == {"plain", "restore", "standby", "activated"}
Backup == 0 .. MaxBackups
Polls == {"state", "required", "gone", "engines", "started"}

TypeOK == /\ backups \in Backup
          /\ vol \in [by : 0 .. MaxCreates, kind : Kinds, from : Backup,
                      state : {"none", "detached", "attached"}, required : BOOLEAN,
                      engine : BOOLEAN, data : Backup, last : Backup,
                      finalizer : BOOLEAN, deleting : BOOLEAN]
          /\ test \in [pc : {"idle", "post", "verify", "clear", "remove", "activate",
                             "request", "check", "failed"} \cup Polls,
                       call : {"none", "create", "delete", "restored", "started", "activate"},
                       kind : Kinds, from : Backup, option : BOOLEAN, round : 0 .. RetryCount]
          /\ faults \in 0 .. MaxFaults
          /\ hist \in [creates : 0 .. MaxCreates, gone : BOOLEAN, free : BOOLEAN,
                       ready : BOOLEAN, restored : BOOLEAN, from : Backup, need : Backup]

(* by is the call of create that made the volume, 0 if there is none.      *)
New(by, kind, from) == [by |-> by, kind |-> kind, from |-> from, state |-> "none",
                        required |-> FALSE, engine |-> FALSE, data |-> 0, last |-> 0,
                        finalizer |-> TRUE, deleting |-> FALSE]
NoVolume == [New(0, "plain", 0) EXCEPT !.finalizer = FALSE]
Exists == vol.by # 0

NoCall == [pc |-> "idle", call |-> "none", kind |-> "plain", from |-> 0,
           option |-> FALSE, round |-> 0]

Init == /\ backups = 1
        /\ vol = NoVolume
        /\ test = NoCall
        /\ faults = 0
        /\ hist = [creates |-> 0, gone |-> TRUE, free |-> FALSE,
                   ready |-> FALSE, restored |-> FALSE, from |-> 0, need |-> 0]

-----------------------------------------------------------------------------
(* Longhorn (external).                                                    *)

Becomes(v) == vol' = v /\ UNCHANGED <<backups, test, faults, hist>>

Standby == vol.kind = "standby"
Restores == vol.kind \in {"restore", "standby"}

AddEngine == Exists /\ ~vol.engine /\ Becomes([vol EXCEPT !.engine = TRUE])

(* A volume that restores is attached for it and detached when restored.   *)
Detach == /\ Exists /\ vol.state # "detached"
          /\ ~Restores \/ (vol.kind = "restore" /\ vol.data = vol.from /\ ~vol.required)
          /\ Becomes([vol EXCEPT !.state = "detached"])

Attach == /\ Restores /\ vol.state = "none"
          /\ Becomes([vol EXCEPT !.state = "attached"])

RequireRestore == /\ Restores /\ ~vol.required /\ vol.data = 0
                  /\ Becomes([vol EXCEPT !.required = TRUE])

(* The standby looks for new backups at intervals.                         *)
LearnLastBackup == /\ Standby /\ vol.last # backups
                   /\ Becomes([vol EXCEPT !.last = backups])

Restoring == Exists /\ vol.engine /\ vol.state = "attached" /\ vol.required

Restore == /\ Restoring
           /\ vol.data < vol.from \/ (Standby /\ vol.data < vol.last)
           /\ Becomes([vol EXCEPT !.data = IF vol.data = 0 THEN vol.from ELSE vol.last])

FinishRestore == /\ vol.kind \in {"restore", "activated"} /\ vol.required
                 /\ vol.data >= vol.from
                 /\ Becomes([vol EXCEPT !.required = FALSE])

AddFinalizer == /\ Exists /\ ~vol.finalizer /\ ~vol.deleting
                /\ Becomes([vol EXCEPT !.finalizer = TRUE])

FinishDelete == vol.deleting /\ Becomes(NoVolume)

(* The model ends with the test.                                           *)
Longhorn == /\ test.pc # "failed"
            /\ \/ AddEngine \/ Detach \/ Attach \/ RequireRestore \/ LearnLastBackup
               \/ Restore \/ FinishRestore \/ AddFinalizer \/ FinishDelete

-----------------------------------------------------------------------------
(* create                                                                  *)

Idle == test.pc = "idle"

Fault == faults < MaxFaults /\ faults' = faults + 1

Goto(pc) == test' = [test EXCEPT !.pc = pc, !.round = 0]
Returns == test' = NoCall
Fails == test' = [NoCall EXCEPT !.pc = "failed"]
NextRound == test' = [test EXCEPT !.round = @ + 1]

BackUp == /\ Idle /\ backups < MaxBackups
          /\ backups' = backups + 1
          /\ UNCHANGED <<vol, test, faults, hist>>

(* option: retry                                                           *)
Create(kind, from, retry) ==
    /\ Idle /\ hist.creates < MaxCreates
    /\ test' = [pc |-> "post", call |-> "create", kind |-> kind, from |-> from,
                option |-> retry, round |-> 0]
    /\ hist' = [creates |-> hist.creates + 1, free |-> hist.gone, gone |-> FALSE,
                ready |-> FALSE, restored |-> FALSE, from |-> from, need |-> 0]
    /\ UNCHANGED <<backups, vol, faults>>

Stored == ~Exists /\ vol' = New(hist.creates, test.kind, test.from)

Posted == /\ test.pc = "post" /\ test.round < RetryCount
          /\ Stored
          /\ Goto("state")
          /\ UNCHANGED <<backups, faults, hist>>

(* Every exception is retried, also after a request that was stored.       *)
PostFails == /\ test.pc = "post" /\ test.round < RetryCount
             /\ \/ Exists /\ UNCHANGED <<vol, faults>>
                \/ Fault /\ (Stored \/ UNCHANGED vol)
             /\ IF test.option THEN NextRound ELSE Fails \/ Returns
             /\ UNCHANGED <<backups, hist>>

(* The last failed attempt is not an error: the call goes on to the waits. *)
PostGivesUp == /\ test.pc = "post" /\ test.round = RetryCount
               /\ Goto("state")
               /\ UNCHANGED <<backups, vol, faults, hist>>

AsAsked == Exists /\ vol.kind = test.kind /\ vol.from = test.from

Verify == /\ test.pc = "verify"
          /\ \/ AsAsked /\ Returns /\ hist' = [hist EXCEPT !.ready = TRUE] /\ UNCHANGED faults
             \/ ~AsAsked /\ Fails /\ UNCHANGED <<faults, hist>>
             \/ Fault /\ Fails /\ UNCHANGED hist
          /\ UNCHANGED <<backups, vol>>

-----------------------------------------------------------------------------
(* delete swallows every exception, also the one of its wait.              *)

Delete(wait) == /\ Idle
                /\ test' = [NoCall EXCEPT !.pc = "clear", !.call = "delete", !.option = wait]
                /\ hist' = [hist EXCEPT !.gone = FALSE, !.ready = FALSE, !.restored = FALSE]
                /\ UNCHANGED <<backups, vol, faults>>

ClearFinalizers == /\ test.pc = "clear"
                   /\ \/ /\ Exists
                         /\ vol' = IF vol.deleting THEN NoVolume
                                   ELSE [vol EXCEPT !.finalizer = FALSE]
                         /\ Goto("remove")
                         /\ UNCHANGED faults
                      \/ ~Exists /\ Returns /\ UNCHANGED <<vol, faults>>
                      \/ Fault /\ Returns /\ UNCHANGED vol
                   /\ UNCHANGED <<backups, hist>>

Remove == /\ test.pc = "remove"
          /\ \/ /\ Exists
                /\ vol' = IF vol.finalizer THEN [vol EXCEPT !.deleting = TRUE] ELSE NoVolume
                /\ \/ UNCHANGED faults /\ (IF test.option THEN Goto("gone") ELSE Returns)
                   \/ Fault /\ Returns
             \/ ~Exists /\ Returns /\ UNCHANGED <<vol, faults>>
             \/ Fault /\ Returns /\ UNCHANGED vol
          /\ UNCHANGED <<backups, hist>>

-----------------------------------------------------------------------------
(* Waits for a restoration, and activate.                                  *)

AwaitRestored == /\ Idle
                 /\ test' = [NoCall EXCEPT !.pc = "engines", !.call = "restored"]
                 /\ UNCHANGED <<backups, vol, faults, hist>>

AwaitStarted(b) == /\ Idle
                   /\ test' = [NoCall EXCEPT !.pc = "started", !.call = "started", !.from = b]
                   /\ UNCHANGED <<backups, vol, faults, hist>>

Activate == /\ Idle
            /\ test' = [NoCall EXCEPT !.pc = "activate", !.call = "activate"]
            /\ UNCHANGED <<backups, vol, faults, hist>>

(* Slip for Restored: that the engine is there is enough.                  *)
EngineThere == vol.engine

(* The volume has no last backup, or the engine has restored it.           *)
Restored == vol.engine /\ (vol.last = 0 \/ vol.data = vol.last)

(* For the properties: the last backup as activate knows it.               *)
LookBeforeActivate == /\ test.pc = "activate" /\ test.round < RetryCount /\ Exists
                      /\ Restored
                      /\ test' = [test EXCEPT !.pc = "request"]
                      /\ hist' = [hist EXCEPT !.need = IF Standby THEN vol.last ELSE @]
                      /\ UNCHANGED <<backups, vol, faults>>

NotYetRestored == /\ test.pc = "activate" /\ test.round < RetryCount /\ Exists
                  /\ ~Restored
                  /\ NextRound
                  /\ UNCHANGED <<backups, vol, faults, hist>>

Activated == Standby /\ vol' = [vol EXCEPT !.kind = "activated"]

RequestActivate ==
    /\ test.pc = "request"
    /\ \/ Activated /\ Goto("check") /\ UNCHANGED faults
       \/ /\ test' = [test EXCEPT !.pc = "activate", !.round = @ + 1]
          /\ \/ UNCHANGED <<vol, faults>>
             \/ Fault /\ Activated
    /\ UNCHANGED <<backups, hist>>

ActivateGivesUp == /\ test.pc = "activate" /\ test.round = RetryCount
                   /\ Goto("check")
                   /\ UNCHANGED <<backups, vol, faults, hist>>

(* Only standby is compared: an activation whose reply was lost is seen.   *)
CheckActive == /\ test.pc = "check"
               /\ IF Exists /\ ~Standby THEN Goto("state") ELSE Fails
               /\ UNCHANGED <<backups, vol, faults, hist>>

(* These reads are not retried.                                            *)
ActivateReadFails == /\ test.pc \in {"activate", "check"}
                     /\ \/ ~Exists /\ UNCHANGED faults
                        \/ Fault
                     /\ Fails
                     /\ UNCHANGED <<backups, vol, hist>>

-----------------------------------------------------------------------------
(* The polls.                                                              *)

FromBackup == test.call = "create" /\ test.kind # "plain"

Reached ==
    \/ test.pc = "state" /\ Exists /\ vol.state = (IF FromBackup THEN "attached" ELSE "detached")
    \/ test.pc = "required" /\ Exists /\ vol.required = FromBackup
    \/ test.pc = "gone" /\ ~Exists
    \/ test.pc = "engines" /\ vol.engine
    \/ test.pc = "started" /\ vol.engine /\ (Restoring \/ vol.data = test.from)

Polling == test.pc \in Polls /\ test.round < RetryCount

(* Slip for Then: create does not wait until a restoration is required.    *)
ThenVerify == CASE test.pc = "state" /\ test.call = "create" -> "verify"
                [] test.pc = "engines" /\ ~Standby           -> "required"
                [] OTHER                                     -> "idle"

(* A standby always requires a restoration, so that is not waited for.     *)
Then == CASE test.pc = "state" /\ test.call = "create"    -> "required"
          [] test.pc = "required" /\ test.call = "create" -> "verify"
          [] test.pc = "engines" /\ ~Standby              -> "required"
          [] OTHER                                        -> "idle"

Told == hist' = [hist EXCEPT !.gone = @ \/ test.pc = "gone",
                             !.restored = @ \/ (test.call = "restored" /\ Then = "idle")]

(* Slip for PollEnds: a failed read counts as Not Found.                   *)
PollEndsOrFails == /\ Polling
                   /\ \/ Reached /\ UNCHANGED faults
                      \/ test.pc = "gone" /\ Fault
                   /\ IF Then = "idle" THEN Returns ELSE Goto(Then)
                   /\ Told
                   /\ UNCHANGED <<backups, vol>>

PollEnds == /\ Polling /\ Reached
            /\ IF Then = "idle" THEN Returns ELSE Goto(Then)
            /\ Told
            /\ UNCHANGED <<backups, vol, faults>>

(* Whether the volume is a standby is read once more.                      *)
StandbyUnknown == /\ Polling /\ test.pc = "engines" /\ vol.engine
                  /\ Fault
                  /\ Fails
                  /\ UNCHANGED <<backups, vol, hist>>

PollGoesOn == /\ Polling
              /\ \/ ~Reached /\ UNCHANGED faults
                 \/ Fault
              /\ NextRound
              /\ UNCHANGED <<backups, vol, hist>>

(* Slip for PollTimesOut: the rounds begin again.                          *)
PollStartsOver == /\ test.pc \in Polls /\ test.round = RetryCount
                  /\ Goto(test.pc)
                  /\ UNCHANGED <<backups, vol, faults, hist>>

PollTimesOut == /\ test.pc \in Polls /\ test.round = RetryCount
                /\ IF test.pc = "gone" THEN Returns ELSE Fails
                /\ UNCHANGED <<backups, vol, faults, hist>>

Begin == \/ BackUp \/ AwaitRestored \/ Activate
         \/ \E retry \in BOOLEAN : Create("plain", 0, retry)
         \/ \E kind \in {"restore", "standby"}, b \in 1 .. backups, retry \in BOOLEAN :
               Create(kind, b, retry)
         \/ \E wait \in BOOLEAN : Delete(wait)
         \/ \E b \in 1 .. backups : AwaitStarted(b)

Step == \/ Posted \/ PostFails \/ PostGivesUp \/ Verify
        \/ ClearFinalizers \/ Remove
        \/ LookBeforeActivate \/ NotYetRestored \/ RequestActivate
        \/ ActivateGivesUp \/ CheckActive \/ ActivateReadFails
        \/ PollEnds \/ StandbyUnknown \/ PollGoesOn \/ PollTimesOut

Next == Longhorn \/ Begin \/ Step

(* The thread runs; Longhorn owes the test nothing.                        *)
Spec == Init /\ [][Next]_vars /\ WF_vars(Step)

-----------------------------------------------------------------------------
(* Properties.                                                             *)

(* A create that returns, whose every request may have been refused, has   *)
(* made the volume itself if the deletion before it saw the name free.     *)
CreatedIsNew == hist.ready /\ hist.free => vol.by = hist.creates

(* When the wait for a restoration to complete returns, the volume has the *)
(* data of the backup that create was given, also if a volume was left     *)
(* over.  The wait does not see by itself whether the restoration has      *)
(* begun: it rests on what create waited for and compared.                 *)
RestoredHasTheData == hist.ready /\ hist.restored /\ vol.kind = "restore"
                         => vol.data = hist.from

(* An activated volume has the data of the last backup that activate knew  *)
(* of, if it had been told of one, also when a lost reply made it activate *)
(* again.  Longhorn may learn of a later one meanwhile.                    *)
ActivatedHasLastBackup == vol.kind = "activated" => vol.data >= hist.need

=============================================================================
