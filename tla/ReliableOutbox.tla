---------------------------- MODULE ReliableOutbox ----------------------------
(***************************************************************************)
(* What billing's transactional outbox promises ("exactly-once IN EFFECT"): *)
(* a business write is recorded once, and each recorded write is observed   *)
(* downstream at most once, never before it is recorded.                    *)
(***************************************************************************)
EXTENDS Naturals

CONSTANT Rows       \* business writes, each with one event

VARIABLES
    ledger,         \* the writes that committed
    effects         \* how often each write's event took effect downstream

vars == <<ledger, effects>>

Init == ledger = {} /\ effects = [w \in Rows |-> 0]

Record(w) ==
    /\ w \in Rows \ ledger
    /\ ledger' = ledger \cup {w}
    /\ UNCHANGED effects

Observe(w) ==
    /\ w \in ledger /\ effects[w] = 0
    /\ effects' = [effects EXCEPT ![w] = 1]
    /\ UNCHANGED ledger

Next == \E w \in Rows : Record(w) \/ Observe(w)

Spec == Init /\ [][Next]_vars
=============================================================================
