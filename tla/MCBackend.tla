------------------------------ MODULE MCBackend ------------------------------
(* Backend for TLC. *)
EXTENDS Backend, TLC

CONSTANTS a, b, c, p, q, s, t

TheModels == {a, b, c}

TheRequests == {p, q, s, t}

\* a may be used again before c needs room, so that it is not the oldest.
ThePrompts == {<<p, a>>, <<q, b>>, <<s, a>>, <<t, c>>}
=============================================================================
