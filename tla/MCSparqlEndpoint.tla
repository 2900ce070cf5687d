------------------------- MODULE MCSparqlEndpoint -------------------------
(* The workers TLC may need: a worker that is replaced has either crashed  *)
(* of itself or was brought down by one of its own requests.               *)
EXTENDS SparqlEndpoint, TLC

CONSTANTS q1, q2, noWorker

MCQueries == {q1, q2}
MCMaxWorkers == PoolSize + MaxCrashes + Cardinality(MCQueries)
MCSymmetry == Permutations(MCQueries)
=============================================================================
