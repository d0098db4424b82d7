------------------------------ MODULE MCRegistry -----------------------------
(* TLC instance of Registry: two callers, two versions, one key. *)
EXTENDS Registry, TLC

CONSTANTS a, b, v1, v2

MCCallers  == {a, b}
MCVersions == {v1, v2}
Sym        == Permutations(MCCallers) \cup Permutations(MCVersions)
=============================================================================
