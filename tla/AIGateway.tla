----------------------------- MODULE AIGateway -------------------------------
(***************************************************************************)
(* The AI gateway for one team: ChatCompletion with its token budget        *)
(* (checked before, deducted after), the semantic cache, the failover over  *)
(* an ordered list of providers behind circuit breakers, and the stream to  *)
(* the client.  Chats run concurrently, a provider's stream may fail at any *)
(* point, the client may leave at any point, and a stream has no deadline.  *)
(*                                                                          *)
(* Source: services/ai-gateway/internal: domain/gateway_service.go,         *)
(* provider_registry.go, allowlist.go and circuit_breaker.go (module        *)
(* CircuitBreaker), budget/redis_budget.go, cache/redis_cache.go.  A text   *)
(* is known by the providers whose tokens are in it.                        *)
(***************************************************************************)
EXTENDS CircuitBreaker, Integers, Sequences, FiniteSets

CONSTANTS
    Chats,          \* concurrent requests
    Providers,      \* the registered providers
    Order,          \* their place in the failover order
    NoPin,          \* a request that pins no provider
    AllowList,      \* the providers a request may pin
    Budget,         \* tokens a team holds; one comes back per tick
    MaxUse,         \* the most tokens a completion is charged
    MaxEntries,     \* answers the cache keeps
    MaxFaults       \* bound: failed Redis calls

ASSUME ProvidersAssumption == NoPin \notin Providers /\ Order \in [Providers -> Nat]
ASSUME BudgetAssumption ==
    /\ Budget \in Nat \ {0} /\ MaxUse \in Nat \ {0} /\ MaxEntries \in Nat \ {0}
    /\ IsFiniteSet(Chats) /\ MaxFaults \in Nat

VARIABLES
    breakers,   \* one per provider
    chat,       \* the requests
    balance,    \* the team's tokens; an overshoot makes it negative
    cache,      \* the team's answers, newest first
    faults

vars == <<breakers, chat, balance, cache, faults>>

Idle     == [pc |-> "idle"]
Requests == [pc : {"lookup", "replayed", "loop", "stream", "deduct", "store"}, cands : SUBSET Providers,
             at : Providers \cup {NoPin}, cacheable : BOOLEAN, text : SUBSET Providers,
             forwarded : BOOLEAN, use : 0..MaxUse]

Entries  == [text : SUBSET Providers, servedBy : Providers \cup {NoPin}]

TypeOK ==
    /\ breakers \in [Providers -> Breakers] /\ chat \in [Chats -> Requests \cup {Idle}]
    /\ balance \in Int /\ balance <= Budget /\ faults \in 0..MaxFaults
    /\ cache \in Seq(Entries) /\ Len(cache) <= MaxEntries

Init ==
    /\ breakers = [p \in Providers |-> newCircuitBreaker] /\ chat = [c \in Chats |-> Idle]
    /\ balance = Budget /\ cache = << >> /\ faults = 0

At(c, pc) == chat[c].pc = pc
Return(c) == chat' = [chat EXCEPT ![c] = Idle]
Fault     == faults < MaxFaults /\ faults' = faults + 1

-----------------------------------------------------------------------------
(* Before the providers *)

\* A pinned provider alone, or every provider; those that serve the model.
Candidates(pin, serving) == {p \in serving : pin \in {NoPin, p}}

\* An unpinned request is not held to the list.
PermitsProvider(pin) == pin = NoPin \/ pin \in AllowList

\* Mutant: the pre-flight check lets everybody through.
Check_Skipped == TRUE

\* budget.Check: refused once less than one token is left.
Check == balance >= 1

\* The checks, with a Redis error letting the request through, and whether the prompt
\* could be embedded for the cache.
ChatCompletion(c, pin, serving, cacheable) ==
    /\ At(c, "idle") /\ PermitsProvider(pin)
    /\ \/ Check /\ UNCHANGED faults
       \/ ~Check /\ Fault
    /\ chat' = [chat EXCEPT ![c] = [pc |-> IF cacheable THEN "lookup" ELSE "loop", cands |-> Candidates(pin, serving), at |-> NoPin,
                                    cacheable |-> cacheable, text |-> {}, forwarded |-> FALSE, use |-> 0]]
    /\ UNCHANGED <<breakers, balance, cache>>

\* The nearest answer is near enough, and replayed without charge.
CacheHit(c) ==
    /\ At(c, "lookup")
    /\ \E i \in DOMAIN cache : chat' = [chat EXCEPT ![c].pc = "replayed", ![c].text = cache[i].text]
    /\ UNCHANGED <<breakers, balance, cache, faults>>
CacheMiss(c) ==
    /\ At(c, "lookup") /\ chat' = [chat EXCEPT ![c].pc = "loop"]
    /\ UNCHANGED <<breakers, balance, cache, faults>>
Replayed(c) == At(c, "replayed") /\ Return(c) /\ UNCHANGED <<breakers, balance, cache, faults>>

-----------------------------------------------------------------------------
(* The failover loop *)

\* No candidate is left: the error frame.
Exhausted(c) == At(c, "loop") /\ chat[c].cands = {} /\ Return(c) /\ UNCHANGED <<breakers, balance, cache, faults>>

\* The next provider in order: its breaker admits the call, or it is skipped.
Try(c, p) ==
    LET b == MaybeHalfOpen(breakers[p])
    IN  /\ At(c, "loop") /\ p \in chat[c].cands /\ \A q \in chat[c].cands : Order[p] <= Order[q]
        /\ breakers' = [breakers EXCEPT ![p] = Reserve(b)]
        /\ chat' = [chat EXCEPT ![c] = [chat[c] EXCEPT !.pc = IF Allowed(b) THEN "stream" ELSE "loop",
                                                      !.cands = @ \ {p}, !.at = p, !.forwarded = FALSE]]
        /\ UNCHANGED <<balance, cache, faults>>

Token(c) ==
    /\ At(c, "stream")
    /\ chat' = [chat EXCEPT ![c].forwarded = TRUE, ![c].text = @ \cup {chat[c].at}]
    /\ UNCHANGED <<breakers, balance, cache, faults>>

\* Mutant: the next provider is tried whatever the client has seen.
IsTerminal_Never(c) == FALSE

\* A failure after the first token ends the request.
IsTerminal(c) == chat[c].forwarded

\* The provider does not start, sends an error frame or drops the stream.
Breaks(c) ==
    /\ At(c, "stream")
    /\ breakers' = [breakers EXCEPT ![chat[c].at] = RecordFailure(@)]
    /\ chat' = IF IsTerminal(c) THEN [chat EXCEPT ![c] = Idle]
               ELSE [chat EXCEPT ![c].pc = "loop"]
    /\ UNCHANGED <<balance, cache, faults>>

\* The client is gone when the next token is forwarded: not the provider's fault, nothing
\* is recorded.
SinkFails(c) == At(c, "stream") /\ Return(c) /\ UNCHANGED <<breakers, balance, cache, faults>>

\* The terminal frame with the usage.
Done(c, n) ==
    /\ At(c, "stream")
    /\ breakers' = [breakers EXCEPT ![chat[c].at] = RecordSuccess(@)]
    /\ chat' = [chat EXCEPT ![c].pc = "deduct", ![c].use = n]
    /\ UNCHANGED <<balance, cache, faults>>

\* Best effort: an error is not retried.
Deduct(c) ==
    /\ At(c, "deduct") /\ chat' = [chat EXCEPT ![c].pc = "store"]
    /\ \/ balance' = balance - chat[c].use /\ UNCHANGED faults
       \/ Fault /\ UNCHANGED balance
    /\ UNCHANGED <<breakers, cache>>

\* LPUSH and LTRIM; the answer that was streamed, under the provider that served it.
Store(c) ==
    LET entry == [text |-> chat[c].text, servedBy |-> chat[c].at]
        pushed == <<entry>> \o cache
    IN  /\ At(c, "store") /\ Return(c)
        /\ cache' = IF chat[c].cacheable /\ chat[c].text # {}
                    THEN SubSeq(pushed, 1, IF Len(pushed) > MaxEntries THEN MaxEntries ELSE Len(pushed))
                    ELSE cache
        /\ UNCHANGED <<breakers, balance, faults>>

\* Time passes: the breakers' clocks, and the budget's lazy refill.
Tick ==
    /\ breakers' = [p \in Providers |-> Aged(breakers[p])]
    /\ balance' = IF balance < Budget THEN balance + 1 ELSE balance
    /\ UNCHANGED <<chat, cache, faults>>

\* Idle for a window, the team's key or its cache list is evicted.
EvictBudget == balance' = Budget /\ UNCHANGED <<breakers, chat, cache, faults>>
EvictCache  == cache' = << >> /\ UNCHANGED <<breakers, chat, balance, faults>>

-----------------------------------------------------------------------------

\* What the gateway and its providers do for a request once it has come in.
Serve(c) ==
    \/ CacheHit(c) \/ CacheMiss(c) \/ Replayed(c) \/ Exhausted(c) \/ (\E p \in Providers : Try(c, p))
    \/ Breaks(c) \/ (\E n \in 0..MaxUse : Done(c, n)) \/ Deduct(c) \/ Store(c)

Next ==
    \/ \E c \in Chats :
        \/ Serve(c) \/ Token(c) \/ SinkFails(c)
        \/ \E pin \in Providers \cup {NoPin}, serving \in SUBSET Providers, cacheable \in BOOLEAN :
               ChatCompletion(c, pin, serving, cacheable)
    \/ Tick \/ EvictBudget \/ EvictCache

Spec == Init /\ [][Next]_vars

\* Streams end, time passes, and requests keep coming.
FairSpec ==
    /\ Spec /\ WF_vars(Tick)
    /\ \A c \in Chats : WF_vars(Serve(c)) /\ SF_vars(ChatCompletion(c, NoPin, Providers, FALSE))

-----------------------------------------------------------------------------
(* Properties *)

\* Whatever fails when, no client ever receives tokens of two providers in one answer,
\* from a stream or from the cache, and a cached answer is of the provider it names: a
\* stream that broke after its first token is never continued by another provider.
AnswersAreWhole ==
    /\ \A c \in Chats : ~At(c, "idle") => Cardinality(chat[c].text) <= 1
    /\ \A i \in DOMAIN cache : cache[i].text = {cache[i].servedBy}

\* Let in and not yet charged.
Uncharged == {c \in Chats : chat[c].pc \in {"lookup", "loop", "stream", "deduct"}}

\* The soft cap: a team's budget is overdrawn by at most one completion for each request
\* in progress, since a request is let in only while a token is left; each request still
\* to be charged has its charge in hand, and each failed Redis call lets one more in.
OvershootBounded == balance >= 1 - MaxUse * (Cardinality(Chats) - Cardinality(Uncharged) + faults)

\* circuit_breaker.go: "HALF_OPEN -> only while in-flight probes < max": a provider whose
\* probe slots are all taken gets them back, so that it is probed again.
ProviderRejoins ==
    \A p \in Providers :
        (breakers[p].state = "half" /\ breakers[p].inFlight >= MaxProbes)
            ~> ~(breakers[p].state = "half" /\ breakers[p].inFlight >= MaxProbes)
=============================================================================
