-------------------------- MODULE MCInferenceGateway -------------------------
(* TLC instance of InferenceGateway: two versions, two callers, two writers. *)
EXTENDS InferenceGateway, TLC

CONSTANTS v1, v2, c1, c2, w1, w2

MCVersions == {v1, v2}
MCCallers == {c1, c2}
MCWriters == {w1, w2}
Sym       == Permutations(MCVersions) \cup Permutations(MCCallers) \cup Permutations(MCWriters)
=============================================================================
