------------------------------- MODULE Router -------------------------------
(***************************************************************************)
(* Which node serves a request (router.rs) and which models are offered    *)
(* (registry.rs, api.rs), as operators on a snapshot of the registry: a    *)
(* sequence, in the arbitrary order of a hash map, of records              *)
(*   id, awake, ready (a set of models) and metrics (a record, or None     *)
(*   until the first heartbeat of a registration).                         *)
(*                                                                         *)
(* All weights are 1, as state.rs sets them.  A score is an exact fraction *)
(* in thousandths, where the code has floating-point numbers; metrics are  *)
(* natural numbers, so that no score is a NaN (JSON, which carries them,   *)
(* has none).                                                              *)
(***************************************************************************)
EXTENDS Integers, Sequences, Catalog

CONSTANT None  \* no metrics yet; no node

Metrics == [vram_total : Nat, vram_used : Nat, tps : Nat, latency : Nat, in_flight : Nat]

ASSUME NoneAssumption == None \notin Metrics

-----------------------------------------------------------------------------
(* Scores *)

Capped(n) == IF n > 1000 THEN 1000 ELSE n

\* saturating_sub
FreeVram(m) == IF m.vram_used > m.vram_total THEN 0 ELSE m.vram_total - m.vram_used

\* Against 200 tokens per second, 1000 ms and 8 requests in flight.
Rest(m) == Capped(5 * m.tps) - Capped(m.latency) - Capped(125 * m.in_flight)

\* The fraction num / den, in thousandths; a node without memory has none free.
ScoreOf(m) ==
  IF m.vram_total > 0
  THEN [num |-> 1000 * FreeVram(m) + m.vram_total * Rest(m), den |-> m.vram_total]
  ELSE [num |-> Rest(m), den |-> 1]

\* score(a) <= score(b); without metrics the score is minus infinity.
AtMost(a, b) ==
  \/ a = None
  \/ b # None /\ ScoreOf(a).num * ScoreOf(b).den <= ScoreOf(b).num * ScoreOf(a).den

-----------------------------------------------------------------------------
(* The node that is picked *)

CanServe(n, model) == n.awake /\ model \in n.ready

\* One comparison of max_by, which keeps the later of two equals.
Better(best, n) == best = None \/ AtMost(best.metrics, n.metrics)

\* filter and max_by over the snapshot; None when no node can serve.
pick_node(nodes, model) ==
  LET best[i \in 0 .. Len(nodes)] ==
        IF i = 0 THEN None
        ELSE IF CanServe(nodes[i], model) /\ Better(best[i - 1], nodes[i])
             THEN nodes[i] ELSE best[i - 1]
  IN  best[Len(nodes)]

-----------------------------------------------------------------------------
(* The models that are offered *)

available_models(nodes) == UNION {nodes[i].ready : i \in {j \in 1 .. Len(nodes) : nodes[j].awake}}

list_models(catalog, nodes) ==
  {aliases(catalog)[i] : i \in {j \in 1 .. Len(catalog) :
                                  aliases(catalog)[j] \in available_models(nodes)}}

-----------------------------------------------------------------------------
(* What they are for *)

\* n is a best choice of S for the model: it can serve it, and no node of S that can
\* has a higher score.
IsBest(n, S, model) ==
  /\ n \in S /\ CanServe(n, model)
  /\ \A c \in S : CanServe(c, model) => AtMost(c.metrics, n.metrics)

\* The router finds a best node whenever some node can serve, in whatever order the
\* hash map yields the nodes, and none otherwise (router.rs:50).
PicksBest(nodes, model) ==
  LET S == {nodes[i] : i \in 1 .. Len(nodes)}
      n == pick_node(nodes, model)
  IN  IF \E c \in S : CanServe(c, model) THEN IsBest(n, S, model) ELSE n = None

\* A model is listed when, and only when, a request for it would find a node
\* (api.rs:30 and router.rs:50 decide it on their own).
ListedIsServed(catalog, nodes) ==
  list_models(catalog, nodes) =
    {aliases(catalog)[i] : i \in {j \in 1 .. Len(catalog) :
                                    pick_node(nodes, aliases(catalog)[j]) # None}}
=============================================================================
