---------------------------- MODULE MCViewChange ----------------------------
(***************************************************************************)
(* Instances of ViewChange for TLC, with the values of MCPBFT.             *)
(***************************************************************************)
EXTENDS MCPBFT, ViewChange
=============================================================================
