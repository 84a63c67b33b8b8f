------------------------------ MODULE MCLedger ------------------------------
(* Instances of Ledger for TLC. *)
EXTENDS Ledger, TLC

CONSTANTS n1, n2, t1, t2, r1

\* Nodes and tunnels are interchangeable.
MCSymmetry == Permutations(Nodes) \cup Permutations(Tunnels)
=============================================================================
