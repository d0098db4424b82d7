----------------------------- MODULE MCAIGateway -----------------------------
(* TLC instance of AIGateway: two chats, two providers of which one may be pinned. *)
EXTENDS AIGateway, TLC

CONSTANTS c1, c2

MCChats     == {c1, c2}
MCOrder     == [p \in Providers |-> IF p = "ollama" THEN 1 ELSE 2]
Sym         == Permutations(MCChats)
=============================================================================
