----------------------- MODULE MC_ReplicaRebuilding -----------------------
(***************************************************************************)
(* The keyword for one volume's rebuilding anywhere, on two nodes, with    *)
(* waits of three rounds and no faults; Longhorn runs two rebuildings of   *)
(* the volume at a time.                                                   *)
(***************************************************************************)
EXTENDS ReplicaRebuilding

CONSTANTS n0, n1

MCNodes == {n0, n1}
MCOnlyOne == {"onlyOne"}
=============================================================================
