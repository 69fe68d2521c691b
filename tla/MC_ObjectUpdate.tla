-------------------------- MODULE MC_ObjectUpdate --------------------------
(***************************************************************************)
(* Two threads of the harness set keys of one volume object while the      *)
(* controllers write one of these keys: one call each, of two attempts, so *)
(* that a call can lose both.                                              *)
(***************************************************************************)
EXTENDS ObjectUpdate

CONSTANTS main, background, checksum, nodeID, old, new

MCClients == {main, background}
MCKeys == {checksum, nodeID}
MCControllerKeys == {nodeID}
MCValues == {old, new}
=============================================================================
