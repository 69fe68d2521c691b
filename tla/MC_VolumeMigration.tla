------------------------- MODULE MC_VolumeMigration -------------------------
(***************************************************************************)
(* A volume on two nodes; the waits give up after four rounds, and one     *)
(* engine crashes at any moment.                                           *)
(***************************************************************************)
EXTENDS VolumeMigration

CONSTANTS node0, node1

MCNodes == {node0, node1}
=============================================================================
