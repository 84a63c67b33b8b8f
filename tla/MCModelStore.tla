----------------------------- MODULE MCModelStore -----------------------------
(* ModelStore for TLC. *)
EXTENDS ModelStore, TLC

CONSTANTS a, b, c, f, g, s, t, u

\* a has an artifact, then a new one of the same name, then one of another.
A1 == [model |-> a, file |-> f, sha |-> s]
A2 == [model |-> a, file |-> f, sha |-> t]
A3 == [model |-> a, file |-> g, sha |-> u]
B1 == [model |-> b, file |-> f, sha |-> s]

\* These two are skipped: c is not selected, and B2 is for another backend.
C1 == [model |-> c, file |-> f, sha |-> s]
B2 == [model |-> b, file |-> g, sha |-> t]

TheCatalogs == {{A1, B1, C1}, {A2, B2}, {A3}}
ForeignEntries == {B2}
=============================================================================
