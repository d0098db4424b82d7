--------------------------- MODULE MCUsageMetering ---------------------------
(* TLC instance of UsageMetering: a duplicated request (a, b), one without a  *)
(* key (d) and one with a negative quantity (x).                               *)
EXTENDS UsageMetering

CONSTANTS a, b, d, x, k1, k2

AllCalls    == {a, b, d, x}
AllKeys     == [c \in AllCalls |-> CASE c \in {a, b} -> k1 [] c = d -> NoKey [] OTHER -> k2]
AllQty      == [c \in AllCalls |-> CASE c \in {a, b} -> 2 [] c = d -> 4 [] OTHER -> -1]
AllOccurred == [c \in AllCalls |-> CASE c = a -> 1 [] c = b -> 3 [] OTHER -> 0]
=============================================================================
