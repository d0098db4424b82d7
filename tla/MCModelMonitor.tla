---------------------------- MODULE MCModelMonitor ---------------------------
(* TLC instance of ModelMonitor: the two inference subscriptions of one process, *)
(* three events, windows of two.                                               *)
EXTENDS ModelMonitor, TLC

CONSTANTS completed, failed, e1, e2, e3

MCHandlers == {completed, failed}
MCEvents   == {e1, e2, e3}
Sym        == Permutations(MCHandlers) \cup Permutations(MCEvents)
=============================================================================
