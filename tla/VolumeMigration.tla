--------------------------- MODULE VolumeMigration ---------------------------
(***************************************************************************)
(* A live migration as the robot tests drive it                            *)
(* (e2e/tests/negative/ha_volume_migration.robot): attach the volume to a  *)
(* second node, wait for the migration to be ready, confirm it by          *)
(* detaching from the old node or roll it back by detaching from the new   *)
(* one, and wait for the outcome.  The waits are those of                  *)
(* e2e/libs/volume/crd.py: each round reads the engines, then the volume,  *)
(* and Longhorn may move between the two reads.                            *)
(*                                                                         *)
(* attach and detach change the tickets in one step here: VolumeAttachment *)
(* models their loops.  Longhorn's manager is modelled from what the tests *)
(* and the waits expect of it.                                             *)
(***************************************************************************)
EXTENDS Naturals, FiniteSets

CONSTANTS
    Nodes,
    None,         \* the empty node ID, ""
    RetryCount,   \* rounds of a wait
    MaxCrashes    \* bound: engines that crash

Bounds == /\ None \notin Nodes
          /\ RetryCount \in Nat \ {0} /\ MaxCrashes \in Nat

VARIABLES
    tickets,   \* nodes with an attachment ticket
    vol,       \* the node IDs in the volume's spec and status
    engines,   \* the volume's engines, with whether they have an endpoint
    t,         \* the test: pc, nodes, outcome wanted, round, engines read
    crashes

vars == <<tickets, vol, engines, t, crashes>>

NodeID == Nodes \cup {None}
Engine == [node : Nodes, endpoint : BOOLEAN]

TypeOK == /\ tickets \subseteq Nodes
          /\ vol \in [nodeID : NodeID, currentNodeID : NodeID,
                      migrationNodeID : NodeID, currentMigrationNodeID : NodeID]
          /\ engines \in SUBSET Engine
          /\ t \in [pc : {"attachOld", "waitAttachedOld", "attachNew", "waitAttachedNew",
                          "waitReady", "detach", "waitOutcome", "done", "failed"},
                    old : Nodes, new : Nodes, confirm : BOOLEAN,
                    round : 0 .. RetryCount - 1,
                    read : BOOLEAN, seen : SUBSET Engine]

Init == /\ tickets = {}
        /\ vol = [nodeID |-> None, currentNodeID |-> None,
                  migrationNodeID |-> None, currentMigrationNodeID |-> None]
        /\ engines = {}
        /\ \E old, new \in Nodes, confirm \in BOOLEAN :
              /\ old # new
              /\ t = [pc |-> "attachOld", old |-> old, new |-> new, confirm |-> confirm,
                      round |-> 0, read |-> FALSE, seen |-> {}]
        /\ crashes = 0

-----------------------------------------------------------------------------
(* The waits.  What each of them accepts, given the engines it read.       *)

Attached == vol.currentNodeID # None /\ vol.currentNodeID = vol.nodeID

(* wait_for_volume_migration_to_be_ready computes three conditions and     *)
(* assigns each to the same variable: only the last one counts.            *)
Ready == vol.nodeID # None /\ vol.nodeID = vol.currentNodeID

(* Slip for Settled: the engines are not looked at.                        *)
SettledWithoutEngines(n) == /\ vol.migrationNodeID = None /\ vol.currentMigrationNodeID = None
                            /\ vol.nodeID = n /\ vol.nodeID = vol.currentNodeID

(* wait_for_volume_migration_complete and _to_rollback join theirs: one    *)
(* engine, running on node n, no migration, and the volume on n.           *)
Settled(n) == /\ t.seen = {[node |-> n, endpoint |-> TRUE]}
              /\ vol.migrationNodeID = None /\ vol.currentMigrationNodeID = None
              /\ vol.nodeID = n /\ vol.nodeID = vol.currentNodeID

Destination == IF t.confirm THEN t.new ELSE t.old

(* Where the test goes when the wait it is in is satisfied.                *)
Waits == [waitAttachedOld |-> "attachNew", waitAttachedNew |-> "waitReady",
          waitReady |-> "detach", waitOutcome |-> "done"]

Satisfied == CASE t.pc \in {"waitAttachedOld", "waitAttachedNew"} -> Attached
               [] t.pc = "waitReady" -> Ready
               [] t.pc = "waitOutcome" -> Settled(Destination)

Waiting == t.pc \in DOMAIN Waits

ReadEngines == /\ Waiting /\ ~t.read
               /\ t' = [t EXCEPT !.read = TRUE, !.seen = engines]
               /\ UNCHANGED <<tickets, vol, engines, crashes>>

ReadVolume == /\ Waiting /\ t.read /\ Satisfied
              /\ t' = [t EXCEPT !.pc = Waits[t.pc], !.round = 0, !.read = FALSE, !.seen = {}]
              /\ UNCHANGED <<tickets, vol, engines, crashes>>

(* Slip for TryAgain: the wait has no last round.                          *)
TryForever == /\ Waiting /\ t.read
              /\ t' = [t EXCEPT !.read = FALSE, !.seen = {}]
              /\ UNCHANGED <<tickets, vol, engines, crashes>>

(* What was read does not satisfy the wait, or a read raised.              *)
TryAgain == /\ Waiting /\ t.read
            /\ t' = IF t.round + 1 < RetryCount
                    THEN [t EXCEPT !.round = @ + 1, !.read = FALSE, !.seen = {}]
                    ELSE [t EXCEPT !.pc = "failed"]
            /\ UNCHANGED <<tickets, vol, engines, crashes>>

-----------------------------------------------------------------------------
(* Attach and detach.                                                      *)

AttachOld == /\ t.pc = "attachOld"
             /\ tickets' = tickets \cup {t.old}
             /\ t' = [t EXCEPT !.pc = "waitAttachedOld"]
             /\ UNCHANGED <<vol, engines, crashes>>

AttachNew == /\ t.pc = "attachNew"
             /\ tickets' = tickets \cup {t.new}
             /\ t' = [t EXCEPT !.pc = "waitAttachedNew"]
             /\ UNCHANGED <<vol, engines, crashes>>

Detach == /\ t.pc = "detach"
          /\ tickets' = tickets \ {IF t.confirm THEN t.old ELSE t.new}
          /\ t' = [t EXCEPT !.pc = "waitOutcome"]
          /\ UNCHANGED <<vol, engines, crashes>>

Test == ReadEngines \/ ReadVolume \/ TryAgain \/ AttachOld \/ AttachNew \/ Detach

-----------------------------------------------------------------------------
(* Longhorn's manager and engines (external).                              *)

Manager == UNCHANGED <<tickets, t, crashes>>

NewEngine(n) == engines \cup {[node |-> n, endpoint |-> FALSE]}
Running(n) == [node |-> n, endpoint |-> TRUE] \in engines

SelectNode == /\ vol.nodeID = None /\ vol.currentNodeID = None /\ engines = {}
              /\ \E n \in tickets : /\ vol' = [vol EXCEPT !.nodeID = n]
                                    /\ engines' = NewEngine(n)
              /\ Manager

EngineStarts == /\ \E e \in engines : /\ ~e.endpoint
                                      /\ engines' = (engines \ {e}) \cup {[e EXCEPT !.endpoint = TRUE]}
                /\ UNCHANGED vol /\ Manager

ReportCurrent == /\ vol.nodeID # None /\ Running(vol.nodeID)
                 /\ vol.currentNodeID # vol.nodeID
                 /\ vol' = [vol EXCEPT !.currentNodeID = vol.nodeID]
                 /\ UNCHANGED engines /\ Manager

StartMigration == /\ vol.nodeID \in tickets /\ Attached
                  /\ vol.migrationNodeID = None /\ vol.currentMigrationNodeID = None
                  /\ Cardinality(engines) = 1
                  /\ \E n \in tickets \ {vol.nodeID} :
                        /\ vol' = [vol EXCEPT !.migrationNodeID = n]
                        /\ engines' = NewEngine(n)
                  /\ Manager

ReportMigration == /\ vol.migrationNodeID # None /\ Running(vol.migrationNodeID)
                   /\ vol.currentMigrationNodeID = None
                   /\ vol' = [vol EXCEPT !.currentMigrationNodeID = vol.migrationNodeID]
                   /\ UNCHANGED engines /\ Manager

Confirm == /\ vol.migrationNodeID \in tickets /\ vol.nodeID \notin tickets
           /\ vol.currentMigrationNodeID = vol.migrationNodeID
           /\ vol' = [vol EXCEPT !.nodeID = vol.migrationNodeID, !.migrationNodeID = None]
           /\ UNCHANGED engines /\ Manager

RollBack == /\ vol.migrationNodeID # None /\ vol.migrationNodeID \notin tickets
            /\ vol' = [vol EXCEPT !.migrationNodeID = None]
            /\ UNCHANGED engines /\ Manager

EndMigration == /\ vol.migrationNodeID = None /\ vol.currentMigrationNodeID # None
                /\ Attached
                /\ vol' = [vol EXCEPT !.currentMigrationNodeID = None]
                /\ UNCHANGED engines /\ Manager

RemoveEngine == /\ vol.migrationNodeID = None /\ Attached
                /\ \E e \in engines : e.node # vol.nodeID /\ engines' = engines \ {e}
                /\ UNCHANGED vol /\ Manager

(* No ticket for the node and no migration under way: a plain detachment.  *)
DetachVolume == /\ vol.nodeID # None /\ vol.nodeID \notin tickets
                /\ vol.migrationNodeID = None /\ vol.currentMigrationNodeID = None
                /\ vol' = [vol EXCEPT !.nodeID = None, !.currentNodeID = None]
                /\ engines' = {}
                /\ Manager

EngineCrashes == /\ crashes < MaxCrashes
                 /\ \E e \in engines : /\ e.endpoint
                                       /\ engines' = (engines \ {e}) \cup {[e EXCEPT !.endpoint = FALSE]}
                 /\ crashes' = crashes + 1
                 /\ UNCHANGED <<tickets, vol, t>>

Longhorn == \/ SelectNode \/ EngineStarts \/ ReportCurrent \/ StartMigration
            \/ ReportMigration \/ Confirm \/ RollBack \/ EndMigration
            \/ RemoveEngine \/ DetachVolume

Next == Test \/ Longhorn \/ EngineCrashes

(* The test thread keeps running.  Longhorn may stall at any point: that   *)
(* the waits are bounded is what ends the test.                            *)
Spec == Init /\ [][Next]_vars /\ WF_vars(Test)

-----------------------------------------------------------------------------
(* Properties.                                                             *)

(* When the wait for the outcome returns, the outcome is final: although   *)
(* the engines were read before the volume, the volume is and stays on the *)
(* node the test expects, no migration is left or starts again, and the    *)
(* engine on the other node is gone.                                       *)
OutcomeIsFinal ==
    t.pc = "done" => /\ tickets = {Destination}
                     /\ vol = [nodeID |-> Destination, currentNodeID |-> Destination,
                               migrationNodeID |-> None, currentMigrationNodeID |-> None]
                     /\ {e.node : e \in engines} = {Destination}

(* What the manual test asks before a scenario starts: both node IDs and   *)
(* both migration node IDs are set and equal when the migration is ready.  *)
ReadyMeansMigrating ==
    [][t.pc = "waitReady" /\ t'.pc = "detach" =>
          /\ vol.migrationNodeID # None
          /\ vol.migrationNodeID = vol.currentMigrationNodeID
          /\ vol.nodeID = vol.currentNodeID]_vars
=============================================================================
