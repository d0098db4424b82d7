------------------------ MODULE MCRegistryProjection -------------------------
(* TLC instance of RegistryProjection: two versions, five consumers. *)
EXTENDS RegistryProjection, TLC

CONSTANTS v1, v2

MCVersions == {v1, v2}
Sym        == Permutations(MCVersions)
=============================================================================
