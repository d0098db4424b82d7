--------------------------- MODULE RegistryStages ----------------------------
(***************************************************************************)
(* The life of a model version, for both sides of the registry.             *)
(* Source: services/registry/internal/domain/models.go and PromoteVersion.  *)
(***************************************************************************)
EXTENDS FiniteSets

Stages   == {"dev", "staging", "production", "archived"}
Statuses == {"pending", "ready", "failed"}

CanTransitionTo(s, t) ==
    <<s, t>> \in {<<"dev", "staging">>, <<"staging", "production">>} \/ (s # t /\ t = "archived")

\* Mutant: the artifact's status is not looked at.
Promotable_AnyStatus(row, to) == CanTransitionTo(row.stage, to)

\* The transition is an edge of the machine, and only a READY artifact leaves DEV.
Promotable(row, to) ==
    CanTransitionTo(row.stage, to) /\ (to \in {"staging", "production"} => row.status = "ready")

Production(f) == {v \in DOMAIN f : f[v].stage = "production"}

\* Where serial commands leave a version that is not archived.
Lifecycle == [stage : {"dev"}, status : Statuses] \cup
             [stage : {"staging", "production"}, status : {"ready"}]
=============================================================================
