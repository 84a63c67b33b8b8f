------------------------------ MODULE MCMacNode ------------------------------
(* MacNode for TLC. *)
EXTENDS MacNode, TLC
=============================================================================
