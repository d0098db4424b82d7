---------------------------- MODULE MCFeatureStore ---------------------------
(* TLC instance of FeatureStore: two callers, two entities, two event times, one key. *)
EXTENDS FeatureStore

CONSTANTS a, b, e1, e2

MCCallers  == {a, b}
MCEntities == {e1, e2}
Sym        == Permutations(MCCallers) \cup Permutations(MCEntities)
=============================================================================
