--------------------------- MODULE MCFleetManager ---------------------------
(* Instances of FleetManager for TLC, and the router over small snapshots. *)
EXTENDS FleetManager, Router, TLC

CONSTANTS n1, n2, c1, c2, r1, r2, m1

\* Nodes, connections and requests are interchangeable.
MCSymmetry ==
  Permutations(Nodes) \cup Permutations(Conns) \cup Permutations(Requests)

\* What nodes report: anything, or, for liveness, what makes requests possible.
AllAwake == BOOLEAN
AllReady == SUBSET Models
OnlyAll == {Models}

-----------------------------------------------------------------------------
(* The router: every snapshot of up to three nodes in every order, with a   *)
(* node without metrics, one without memory, one that uses more than it     *)
(* has, one at the caps, and equals of different memory.                    *)

MCMetrics ==
  {[vram_total |-> v[1], vram_used |-> v[2], tps |-> v[3], latency |-> v[4], in_flight |-> v[5]] :
     v \in {<<0, 0, 60, 300, 0>>, <<8, 10, 150, 80, 1>>, <<24, 2, 200, 0, 8>>,
            <<24, 12, 300, 1500, 9>>, <<8, 4, 40, 0, 1>>, <<16, 8, 40, 0, 1>>}}

MCCatalog == <<[alias |-> "m", variants |-> <<>>], [alias |-> "other", variants |-> <<>>]>>

MCNodeStates == [awake : BOOLEAN, ready : {{}, {"m"}, {"m", "other"}}, metrics : MCMetrics \cup {None}]
MCReady == {n \in MCNodeStates : CanServe(n, "m")}

\* Pairs of any nodes, and triples of nodes that differ in their metrics only.
MCSnapshots ==
  {<<>>} \cup [1 .. 1 -> MCNodeStates] \cup [1 .. 2 -> MCNodeStates]
  \cup [1 .. 3 -> {n \in MCReady : n.ready = {"m"}}]

\* The router picks a best node whenever some node can serve, in whatever order the
\* registry yields them (router.rs:50).
ASSUME RouterPicksBest == \A s \in MCSnapshots : \A m \in {"m", "other"} : PicksBest(s, m)

\* GET /v1/models lists exactly the models a request would find a node for (api.rs:30).
ASSUME ListIsServed == \A s \in MCSnapshots : ListedIsServed(MCCatalog, s)
=============================================================================
