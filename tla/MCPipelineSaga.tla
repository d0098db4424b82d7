---------------------------- MODULE MCPipelineSaga ----------------------------
(* TLC instance of PipelineSaga: four steps, the second read-only and the last *)
(* perhaps without an executor; the first may be retried.                      *)
EXTENDS PipelineSaga

MCCompensable == {1, 3}
MCRetries     == <<1, 0, 0, 0>>
MCCancellers  == {"c"}
=============================================================================
