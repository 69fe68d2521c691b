---------------------------- MODULE MC_ScaleTest ----------------------------
(***************************************************************************)
(* Two nodes, one of which may report no metrics when the second run       *)
(* resumes the data of the first.                                          *)
(***************************************************************************)
EXTENDS ScaleTest

CONSTANTS n1, n2, p1, p2

MCNodes == {n1, n2}
MCPods == {p1, p2}
=============================================================================
