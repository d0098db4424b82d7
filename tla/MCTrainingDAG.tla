----------------------------- MODULE MCTrainingDAG ----------------------------
(* TLC instance of TrainingDAG: every graph over three steps (a closed one or *)
(* not, acyclic or not), a step with a retry, one that may lack an executor,   *)
(* two racing calls.                                                           *)
EXTENDS TrainingDAG

CONSTANTS a, b, c, c1, c2

MCSteps   == {a, b, c}
MCRetries == [s \in MCSteps |-> IF s = b THEN 1 ELSE 0]
MCUnwired == {c}
MCCalls   == {c1, c2}
=============================================================================
