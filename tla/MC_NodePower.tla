---------------------------- MODULE MC_NodePower ----------------------------
(***************************************************************************)
(* Two workers, so that one node's keyword meets the monitor at work on    *)
(* the other, and where the run can afford it a control-plane node, which  *)
(* only "Restart cluster" touches and the monitor never visits.            *)
(***************************************************************************)
EXTENDS NodePower

CONSTANTS w1, w2, cp

MCWorkers == {w1, w2}
MCNodes == {w1, w2, cp}
=============================================================================
