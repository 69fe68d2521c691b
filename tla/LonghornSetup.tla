---------------------------- MODULE LonghornSetup ----------------------------
(***************************************************************************)
(* src/engine/validation-test/disabled/common_fixtures.py: the session     *)
(* fixture setup_longhorn with deploy_longhorn and add_backup.  Sessions   *)
(* follow each other against one Rancher server.  The fixture stores a     *)
(* setting, and a flag of the project, before it does the work they stand  *)
(* for; a later session finds them stored and skips the work.              *)
(***************************************************************************)
EXTENDS Naturals

CONSTANTS MaxSessions, MaxFaults

Bounds == {MaxSessions, MaxFaults} \subseteq Nat \ {0}

VARIABLES
    object,     \* what the server makes: Longhorn's catalog (asked for by the setting),
                \* stack, services and storage pool, the backup target that was added last,
                \* and the VM stack (asked for by the project's flag)
    setup,      \* the session's setup_longhorn
    brokeOff,   \* history: the steps at which a session broke off
    faults      \* failures of the server

vars == <<object, setup, brokeOff, faults>>

LONGHORN == {"longhorn", "services", "pool"}
OBJECTS == LONGHORN \cup {"catalog", "target", "vms"}

Session(n, server) == [pc |-> "setting", session |-> n, server |-> server]

TypeOK ==
    /\ object \in [OBJECTS -> {"none", "asked", "made", "failed"}]
    /\ setup \in [pc : OBJECTS \cup {"setting", "deploy", "add", "project", "returned", "raised"},
                  session : 1 .. MaxSessions, server : BOOLEAN]
    /\ brokeOff \subseteq OBJECTS \cup {"deploy", "add"} /\ faults \in 0 .. MaxFaults

(* Longhorn may be there already, deployed by hand. *)
Init == /\ \E there \in {{}, LONGHORN} :
              object = [o \in OBJECTS |-> IF o \in there THEN "made" ELSE "none"]
        /\ \E server \in BOOLEAN : setup = Session(1, server)
        /\ brokeOff = {} /\ faults = 0

At(pc) == setup.pc = pc
Goto(pc) == setup' = [setup EXCEPT !.pc = pc] /\ UNCHANGED brokeOff
Raise == setup' = [setup EXCEPT !.pc = "raised"] /\ brokeOff' = brokeOff \cup {setup.pc}

Ask(o) == object' = [object EXCEPT ![o] = "asked"]

(* A wait for an object, until it is made or takes too long. *)
Wait(o, next) == /\ At(o) /\ UNCHANGED object
                 /\ (object[o] = "made" /\ Goto(next)) \/ (object[o] # "made" /\ Raise)

-----------------------------------------------------------------------------
AddCatalog == /\ At("setting")
              /\ \/ object["catalog"] = "none" /\ Ask("catalog") /\ Goto("deploy")
                 \/ object["catalog"] # "none" /\ Goto("add") /\ UNCHANGED object

(* 60 seconds later: the template is there, or reading it raises. *)
deploy_longhorn ==
    /\ At("deploy")
    /\ \/ object["longhorn"] # "none" /\ Goto("add") /\ UNCHANGED object
       \/ /\ object["longhorn"] = "none"
          /\ \/ object["catalog"] = "made" /\ Ask("longhorn") /\ Goto("longhorn")
             \/ object["catalog"] # "made" /\ Raise /\ UNCHANGED object

(* Slip for AwaitLonghorn: the services and the storage pool are not waited for. *)
AwaitStackOnly == Wait("longhorn", "add")

AwaitLonghorn == \/ Wait("longhorn", "services")
                 \/ Wait("services", "pool")
                 \/ Wait("pool", "add")

(* A backup target of the session's own, or with no server for it one that exists. *)
AddBackup == /\ At("add")
             /\ \/ setup.server /\ Ask("target") /\ Goto("target")
                \/ /\ ~setup.server /\ UNCHANGED object
                   /\ IF object["target"] = "none" THEN Raise ELSE Goto("project")

AwaitBackup == Wait("target", "project")

EnableVms == /\ At("project")
             /\ \/ object["vms"] = "none" /\ Ask("vms") /\ Goto("vms")
                \/ object["vms"] # "none" /\ Goto("returned") /\ UNCHANGED object

AwaitVms == Wait("vms", "returned")

setup_longhorn == /\ AddCatalog \/ deploy_longhorn \/ AwaitLonghorn \/ AddBackup
                     \/ AwaitBackup \/ EnableVms \/ AwaitVms
                  /\ UNCHANGED faults

NextSession == /\ setup.pc \in {"returned", "raised"} /\ setup.session < MaxSessions
               /\ \E server \in BOOLEAN : setup' = Session(setup.session + 1, server)
               /\ UNCHANGED <<object, brokeOff, faults>>

(* The server makes what it is asked for, and for the stack the rest, or fails. *)
Following(o) == CASE o = "longhorn" -> {"services"} [] o = "services" -> {"pool"} [] OTHER -> {}

Server ==
    \E o \in OBJECTS :
       /\ object[o] = "asked" /\ UNCHANGED <<setup, brokeOff>>
       /\ \/ /\ object' = [q \in OBJECTS |-> IF q = o THEN "made"
                                             ELSE IF q \in Following(o) THEN "asked" ELSE object[q]]
             /\ UNCHANGED faults
          \/ /\ faults < MaxFaults /\ faults' = faults + 1
             /\ object' = [object EXCEPT ![o] = "failed"]

Next == setup_longhorn \/ NextSession \/ Server

Spec == Init /\ [][Next]_vars

-----------------------------------------------------------------------------
(***************************************************************************)
(* The tests of a session in which setup_longhorn returned have what they  *)
(* need, unless an earlier session broke off between the storing of the    *)
(* setting, or of the flag, and the end of what it stands for; only a      *)
(* backup target that was there before may be in any state.                *)
(***************************************************************************)
SetupIsComplete ==
    At("returned") =>
        /\ \A o \in LONGHORN : object[o] = "made" \/ brokeOff \cap (LONGHORN \cup {"deploy"}) # {}
        /\ object["vms"] = "made" \/ "vms" \in brokeOff
        /\ object["target"] = "made" \/ ~setup.server
=============================================================================
