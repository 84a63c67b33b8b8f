---------------------------- MODULE MCEnrollment ----------------------------
(* An instance of Enrollment for TLC: two machines type the same node id.   *)
EXTENDS Enrollment, TLC

CONSTANTS n1, n2, m1, m2

SameNode == [m \in Machines |-> n1]

\* Machines, runs and tokens are interchangeable.
MCSymmetry == Permutations(Machines) \cup Permutations(Runs) \cup Permutations(Tokens)
=============================================================================
