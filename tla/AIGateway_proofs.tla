-------------------------- MODULE AIGateway_proofs ---------------------------
(***************************************************************************)
(* AIGateway, for every number of chats, providers, thresholds and budgets: *)
(* its types, that an answer is of one provider, and the bound of the soft  *)
(* cap.  IInv says what the client has seen at each point of a request; the *)
(* bound is inductive as it stands, given IInv.                             *)
(***************************************************************************)
EXTENDS AIGateway, FiniteSetTheorems, TLAPS

LEMMA BreakerTypes ==
    ASSUME NEW b \in Breakers
    PROVE  /\ newCircuitBreaker \in Breakers /\ MaybeHalfOpen(b) \in Breakers /\ Reserve(b) \in Breakers
           /\ RecordSuccess(b) \in Breakers /\ RecordFailure(b) \in Breakers /\ Aged(b) \in Breakers
<1>1. newCircuitBreaker \in Breakers
  BY BreakerAssumption DEF Breakers, newCircuitBreaker
<1>2. \A s \in {"closed", "open", "half"} : TransitionTo(b, s) \in Breakers
  BY <1>1 DEF TransitionTo, Breakers, newCircuitBreaker
<1>3. MaybeHalfOpen(b) \in Breakers
  BY <1>2 DEF MaybeHalfOpen
<1>4. Reserve(b) \in Breakers
  BY BreakerAssumption DEF Reserve, Breakers
<1>5. RecordSuccess(b) \in Breakers
  <2>1. CASE b.state = "closed"
    BY <2>1, BreakerAssumption DEF RecordSuccess, Breakers
  <2>2. CASE b.state = "half"
    <3>1. CASE b.succ + 1 >= SuccessThreshold
      BY <2>2, <3>1, <1>2 DEF RecordSuccess
    <3>2. CASE ~(b.succ + 1 >= SuccessThreshold)
      <4>1. RecordSuccess(b) = [Release(b) EXCEPT !.succ = @ + 1]
        BY <2>2, <3>2 DEF RecordSuccess
      <4>2. Release(b) \in Breakers /\ Release(b).succ = b.succ
        BY BreakerAssumption DEF Release, Breakers
      <4> QED
        BY <4>1, <4>2, <3>2, BreakerAssumption DEF Breakers
    <3> QED
      BY <3>1, <3>2
  <2>3. CASE b.state \notin {"closed", "half"}
    BY <2>3 DEF RecordSuccess
  <2> QED
    BY <2>1, <2>2, <2>3
<1>6. RecordFailure(b) \in Breakers
  <2>1. CASE b.state = "closed"
    BY <2>1, <1>2, BreakerAssumption DEF RecordFailure, Breakers
  <2>2. CASE b.state # "closed"
    BY <2>2, <1>2 DEF RecordFailure
  <2> QED
    BY <2>1, <2>2
<1>7. Aged(b) \in Breakers
  BY BreakerAssumption DEF Aged, Breakers
<1> QED
  BY <1>1, <1>3, <1>4, <1>5, <1>6, <1>7

-----------------------------------------------------------------------------
(* The inductive invariant *)

\* Requests whose text agrees with the point they have reached: a provider that streams
\* or has streamed is named, nothing is received before the first forwarded token, and
\* everything received is of the provider being streamed.
Coherent ==
    {r \in Requests :
        /\ r.pc \in {"stream", "deduct", "store"} => r.at \in Providers /\ r.text \subseteq {r.at}
        /\ r.pc \in {"lookup", "loop"} \/ (r.pc = "stream" /\ ~r.forwarded) => r.text = {}
        /\ r.pc = "replayed" => \E p \in Providers : r.text = {p}}

\* Answers of one provider, under its name.
Whole == {e \in Entries : e.servedBy \in Providers /\ e.text = {e.servedBy}}

IInv ==
    /\ breakers \in [Providers -> Breakers] /\ chat \in [Chats -> Coherent \cup {Idle}]
    /\ balance \in Int /\ balance <= Budget /\ faults \in 0..MaxFaults
    /\ cache \in Seq(Whole) /\ Len(cache) <= MaxEntries

LEMMA InvInit == Init => IInv
<1> SUFFICES ASSUME Init PROVE IInv
  OBVIOUS
<1>1. newCircuitBreaker \in Breakers
  BY BreakerAssumption DEF Breakers, newCircuitBreaker
<1>2. breakers \in [Providers -> Breakers] /\ chat \in [Chats -> Coherent \cup {Idle}]
  BY <1>1 DEF Init
<1>3. balance \in Int /\ balance <= Budget /\ faults \in 0..MaxFaults
  BY BudgetAssumption DEF Init
<1>4. cache \in Seq(Whole) /\ Len(cache) <= MaxEntries
  BY BudgetAssumption DEF Init
<1> QED
  BY <1>2, <1>3, <1>4 DEF IInv

\* A request in progress is a coherent record.
LEMMA InProgress ==
    ASSUME IInv, NEW c \in Chats, ~At(c, "idle")
    PROVE  chat[c] \in Coherent /\ chat[c] \in Requests
<1>1. chat[c] \in Coherent \cup {Idle}
  BY DEF IInv
<1> QED
  BY <1>1 DEF At, Idle, Coherent

\* The steps that change one request and neither the balance nor the cache.
LEMMA Stepped ==
    ASSUME IInv, NEW c \in Chats, NEW r \in Coherent \cup {Idle}, chat' = [chat EXCEPT ![c] = r],
           breakers' \in [Providers -> Breakers], faults' \in 0..MaxFaults, UNCHANGED <<balance, cache>>
    PROVE  IInv'
<1>1. chat' \in [Chats -> Coherent \cup {Idle}]
  BY DEF IInv
<1> QED
  BY <1>1 DEF IInv

LEMMA InvStep == IInv /\ [Next]_vars => IInv'
<1> SUFFICES ASSUME IInv, [Next]_vars PROVE IInv'
  OBVIOUS
<1>t. /\ breakers \in [Providers -> Breakers] /\ chat \in [Chats -> Coherent \cup {Idle}]
      /\ balance \in Int /\ balance <= Budget /\ faults \in 0..MaxFaults
      /\ cache \in Seq(Whole) /\ Len(cache) <= MaxEntries
  BY DEF IInv
<1>1. ASSUME NEW c \in Chats, NEW pin \in Providers \cup {NoPin}, NEW serving \in SUBSET Providers,
             NEW cacheable \in BOOLEAN, ChatCompletion(c, pin, serving, cacheable)
      PROVE  IInv'
  <2> DEFINE r == [pc |-> IF cacheable THEN "lookup" ELSE "loop", cands |-> Candidates(pin, serving), at |-> NoPin,
                   cacheable |-> cacheable, text |-> {}, forwarded |-> FALSE, use |-> 0]
  <2>1. r \in Requests
    BY BudgetAssumption DEF Requests, Candidates
  <2>2. r \in Coherent
    BY <2>1 DEF Coherent
  <2>3. faults' \in 0..MaxFaults
    BY <1>1, <1>t, BudgetAssumption DEF ChatCompletion, Fault
  <2>4. chat' = [chat EXCEPT ![c] = r] /\ UNCHANGED <<breakers, balance, cache>>
    BY <1>1 DEF ChatCompletion
  <2> HIDE DEF r
  <2> QED
    BY <1>t, <2>2, <2>3, <2>4, Stepped
<1>2. ASSUME NEW c \in Chats, CacheHit(c)
      PROVE  IInv'
  <2>1. PICK i \in DOMAIN cache : chat' = [chat EXCEPT ![c].pc = "replayed", ![c].text = cache[i].text]
    BY <1>2 DEF CacheHit
  <2> DEFINE r == [chat[c] EXCEPT !.pc = "replayed", !.text = cache[i].text]
  <2>2. cache[i] \in Whole
    BY <1>t, <2>1
  <2>3. chat[c] \in Requests
    BY <1>2, InProgress DEF CacheHit, At
  <2>4. cache[i].text \in SUBSET Providers /\ \E p \in Providers : cache[i].text = {p}
    BY <2>2 DEF Whole, Entries
  <2>5. r \in Coherent
    BY <2>3, <2>4 DEF Requests, Coherent
  <2>6. chat' = [chat EXCEPT ![c] = r]
    BY <2>1
  <2>7. UNCHANGED <<breakers, balance, cache, faults>>
    BY <1>2 DEF CacheHit
  <2> HIDE DEF r
  <2> QED
    BY <1>t, <2>5, <2>6, <2>7, Stepped
<1>3. ASSUME NEW c \in Chats, CacheMiss(c)
      PROVE  IInv'
  <2> DEFINE r == [chat[c] EXCEPT !.pc = "loop"]
  <2>1. chat[c] \in Coherent /\ chat[c].pc = "lookup"
    BY <1>3, InProgress DEF CacheMiss, At
  <2>2. r \in Coherent
    BY <2>1 DEF Requests, Coherent
  <2>3. chat' = [chat EXCEPT ![c] = r] /\ UNCHANGED <<breakers, balance, cache, faults>>
    BY <1>3 DEF CacheMiss
  <2> HIDE DEF r
  <2> QED
    BY <1>t, <2>2, <2>3, Stepped
<1>4. ASSUME NEW c \in Chats, Token(c)
      PROVE  IInv'
  <2> DEFINE r == [chat[c] EXCEPT !.forwarded = TRUE, !.text = @ \cup {chat[c].at}]
  <2>1. chat[c] \in Coherent /\ chat[c].pc = "stream"
    BY <1>4, InProgress DEF Token, At
  <2>2. r \in Coherent
    BY <2>1 DEF Requests, Coherent
  <2>3. chat' = [chat EXCEPT ![c] = r] /\ UNCHANGED <<breakers, balance, cache, faults>>
    BY <1>4 DEF Token
  <2> HIDE DEF r
  <2> QED
    BY <1>t, <2>2, <2>3, Stepped
<1>5. ASSUME NEW c \in Chats, Replayed(c) \/ Exhausted(c) \/ SinkFails(c)
      PROVE  IInv'
  BY <1>5, <1>t, Stepped DEF Replayed, Exhausted, SinkFails, Return
<1>6. ASSUME NEW c \in Chats, NEW p \in Providers, Try(c, p)
      PROVE  IInv'
  <2> DEFINE ok == Allowed(MaybeHalfOpen(breakers[p]))
             r == [chat[c] EXCEPT !.pc = IF ok THEN "stream" ELSE "loop",
                                  !.cands = @ \ {p}, !.at = p, !.forwarded = FALSE]
  <2>1. chat[c] \in Coherent /\ chat[c].pc = "loop"
    BY <1>6, InProgress DEF Try, At
  <2>2. chat' = [chat EXCEPT ![c] = r] /\ UNCHANGED <<balance, cache, faults>>
    BY <1>6 DEF Try
  <2>3. breakers' \in [Providers -> Breakers]
    <3>1. Reserve(MaybeHalfOpen(breakers[p])) \in Breakers
      BY <1>t, BreakerTypes
    <3> QED
      BY <1>6, <1>t, <3>1 DEF Try
  <2> HIDE DEF ok
  <2>4. r \in Coherent
    <3>1. r.text = {} /\ r.at = p /\ r.pc \in {"stream", "loop"} /\ r \in Requests
      BY <2>1 DEF Requests, Coherent
    <3> QED
      BY <3>1 DEF Coherent
  <2> HIDE DEF r
  <2> QED
    BY <1>t, <2>2, <2>3, <2>4, Stepped
<1>7. ASSUME NEW c \in Chats, Breaks(c)
      PROVE  IInv'
  <2>1. chat[c] \in Coherent /\ chat[c].pc = "stream"
    BY <1>7, InProgress DEF Breaks, At
  <2>2. breakers' \in [Providers -> Breakers] /\ UNCHANGED <<balance, cache, faults>>
    BY <1>7, <1>t, <2>1, BreakerTypes DEF Breaks, Coherent
  <2>3. CASE chat[c].forwarded
    BY <1>7, <1>t, <2>2, <2>3, Stepped DEF Breaks, IsTerminal
  <2>4. CASE ~chat[c].forwarded
    <3> DEFINE r == [chat[c] EXCEPT !.pc = "loop"]
    <3>1. r \in Coherent
      BY <2>1, <2>4 DEF Requests, Coherent
    <3>2. chat' = [chat EXCEPT ![c] = r]
      BY <1>7, <2>4 DEF Breaks, IsTerminal
    <3> HIDE DEF r
    <3> QED
      BY <1>t, <2>2, <3>1, <3>2, Stepped
  <2> QED
    BY <2>3, <2>4
<1>8. ASSUME NEW c \in Chats, NEW n \in 0..MaxUse, Done(c, n)
      PROVE  IInv'
  <2> DEFINE r == [chat[c] EXCEPT !.pc = "deduct", !.use = n]
  <2>1. chat[c] \in Coherent /\ chat[c].pc = "stream"
    BY <1>8, InProgress DEF Done, At
  <2>2. breakers' \in [Providers -> Breakers] /\ UNCHANGED <<balance, cache, faults>>
    BY <1>8, <1>t, <2>1, BreakerTypes DEF Done, Coherent
  <2>3. r \in Coherent
    BY <2>1 DEF Requests, Coherent
  <2>4. chat' = [chat EXCEPT ![c] = r]
    BY <1>8 DEF Done
  <2> HIDE DEF r
  <2> QED
    BY <1>t, <2>2, <2>3, <2>4, Stepped
<1>9. ASSUME NEW c \in Chats, Deduct(c)
      PROVE  IInv'
  <2> DEFINE r == [chat[c] EXCEPT !.pc = "store"]
  <2>1. chat[c] \in Coherent /\ chat[c].pc = "deduct"
    BY <1>9, InProgress DEF Deduct, At
  <2>2. r \in Coherent
    BY <2>1 DEF Requests, Coherent
  <2>3. chat' = [chat EXCEPT ![c] = r]
    BY <1>9 DEF Deduct
  <2> HIDE DEF r
  <2>4. chat' \in [Chats -> Coherent \cup {Idle}]
    BY <1>t, <2>2, <2>3
  <2>5. chat[c].use \in 0..MaxUse
    BY <2>1 DEF Coherent, Requests
  <2>6. balance' \in Int /\ balance' <= Budget /\ faults' \in 0..MaxFaults
    BY <1>9, <1>t, <2>5, BudgetAssumption DEF Deduct, Fault
  <2> QED
    BY <1>9, <1>t, <2>4, <2>6 DEF Deduct, IInv
<1>10. ASSUME NEW c \in Chats, Store(c)
       PROVE  IInv'
  <2> DEFINE entry == [text |-> chat[c].text, servedBy |-> chat[c].at]
             pushed == <<entry>> \o cache
             n == IF Len(pushed) > MaxEntries THEN MaxEntries ELSE Len(pushed)
  <2>1. chat[c] \in Coherent /\ chat[c].pc = "store"
    BY <1>10, InProgress DEF Store, At
  <2>2. chat' \in [Chats -> Coherent \cup {Idle}] /\ UNCHANGED <<breakers, balance, faults>>
    BY <1>10, <1>t DEF Store, Return
  <2>3. CASE ~(chat[c].cacheable /\ chat[c].text # {})
    <3>1. cache' = cache
      BY <1>10, <2>3 DEF Store
    <3> QED
      BY <1>t, <2>2, <3>1 DEF IInv
  <2>4. CASE chat[c].cacheable /\ chat[c].text # {}
    <3>1. entry \in Whole
      BY <2>1, <2>4 DEF Coherent, Requests, Entries, Whole
    <3>2. cache' = SubSeq(pushed, 1, n)
      BY <1>10, <2>4 DEF Store
    <3> HIDE DEF entry
    <3>3. pushed \in Seq(Whole) /\ Len(pushed) = Len(cache) + 1
      BY <1>t, <3>1
    <3> HIDE DEF pushed
    <3>4. n \in 0..Len(pushed) /\ n <= MaxEntries
      BY <1>t, <3>3, BudgetAssumption
    <3> HIDE DEF n
    <3>5. cache' \in Seq(Whole) /\ Len(cache') = n
      BY <3>2, <3>3, <3>4
    <3> QED
      BY <1>t, <2>2, <3>4, <3>5 DEF IInv
  <2> QED
    BY <2>3, <2>4
<1>11. CASE Tick
  <2>1. breakers' \in [Providers -> Breakers]
    BY <1>11, <1>t, BreakerTypes DEF Tick
  <2>2. balance' \in Int /\ balance' <= Budget
    BY <1>11, <1>t, BudgetAssumption DEF Tick
  <2> QED
    BY <1>11, <1>t, <2>1, <2>2 DEF Tick, IInv
<1>12. CASE EvictBudget
  BY <1>12, <1>t, BudgetAssumption DEF EvictBudget, IInv
<1>13. CASE EvictCache
  BY <1>13, <1>t, BudgetAssumption DEF EvictCache, IInv
<1>14. CASE UNCHANGED vars
  BY <1>14 DEF vars, IInv
<1> QED
  BY <1>1, <1>2, <1>3, <1>4, <1>5, <1>6, <1>7, <1>8, <1>9, <1>10, <1>11, <1>12, <1>13, <1>14 DEF Next, Serve

LEMMA InvHolds == Spec => []IInv
  BY InvInit, InvStep, PTL DEF Spec

\* Every variable keeps its type: the breakers' counters never reach their thresholds,
\* the balance never exceeds the budget, the cache never holds more than its bound.
THEOREM TypeCorrect == Spec => []TypeOK
<1>1. IInv => TypeOK
  <2> SUFFICES ASSUME IInv PROVE TypeOK
    OBVIOUS
  <2>1. chat \in [Chats -> Requests \cup {Idle}]
    BY DEF IInv, Coherent
  <2>2. cache \in Seq(Entries)
    BY DEF IInv, Whole
  <2> QED
    BY <2>1, <2>2 DEF IInv, TypeOK
<1> QED
  BY <1>1, InvHolds, PTL

\* ChatCompletion's failover and cache never mix two providers' tokens in one answer, for
\* any number of chats and providers.
THEOREM AnswersStayWhole == Spec => []AnswersAreWhole
<1>1. IInv => AnswersAreWhole
  <2> SUFFICES ASSUME IInv PROVE AnswersAreWhole
    OBVIOUS
  <2>1. ASSUME NEW c \in Chats, ~At(c, "idle") PROVE Cardinality(chat[c].text) <= 1
    <3>1. chat[c] \in Coherent
      BY <2>1, InProgress
    <3>2. chat[c].text = {} \/ \E p \in Providers : chat[c].text = {p}
      BY <3>1 DEF Coherent, Requests
    <3> QED
      BY <3>2, FS_EmptySet, FS_Singleton, SMTT(20)
  <2>2. ASSUME NEW i \in DOMAIN cache PROVE cache[i].text = {cache[i].servedBy}
    BY <2>2 DEF IInv, Whole
  <2> QED
    BY <2>1, <2>2 DEF AnswersAreWhole
<1> QED
  BY <1>1, InvHolds, PTL

-----------------------------------------------------------------------------
(* The soft cap *)

\* Charges in hand or spent: one for each chat that is not waiting to be charged, and one
\* for each failed Redis call.
Spent == Cardinality(Chats) - Cardinality(Uncharged) + faults

LEMMA Counted ==
    ASSUME NEW U \in SUBSET Chats, NEW f \in 0..MaxFaults
    PROVE  /\ IsFiniteSet(U) /\ Cardinality(U) \in Nat /\ Cardinality(Chats) \in Nat
           /\ Cardinality(U) <= Cardinality(Chats) /\ Cardinality(Chats) - Cardinality(U) + f \in Nat
<1>1. IsFiniteSet(Chats)
  BY BudgetAssumption
<1>2. IsFiniteSet(U) /\ Cardinality(U) <= Cardinality(Chats)
  BY <1>1, FS_Subset
<1>3. Cardinality(U) \in Nat /\ Cardinality(Chats) \in Nat
  BY <1>1, <1>2, FS_CardinalityType
<1> QED
  BY <1>2, <1>3, BudgetAssumption

LEMMA More ==
    ASSUME NEW m \in Nat, NEW j \in Nat, NEW k \in Nat, j <= k
    PROVE  m * j <= m * k /\ m * j \in Nat /\ m * k \in Nat /\ m * (k + 1) = m * k + m
  BY SMT

\* A step that charges nobody and lets nobody in leaves the bound no tighter.
LEMMA NoTighter ==
    ASSUME IInv, IInv', OvershootBounded, Spent <= Spent', balance' >= balance
    PROVE  OvershootBounded'
<1>1. Spent \in Nat
  BY Counted DEF Spent, Uncharged, IInv
<1>2. Spent' \in Nat
  BY Counted DEF Spent, Uncharged, IInv
<1>3. MaxUse * Spent <= MaxUse * Spent' /\ MaxUse * Spent \in Nat /\ MaxUse * Spent' \in Nat
  BY <1>1, <1>2, More, BudgetAssumption
<1>4. balance >= 1 - MaxUse * Spent
  BY DEF OvershootBounded, Spent
<1>5. balance \in Int /\ balance' \in Int
  BY DEF IInv
<1>6. balance' >= 1 - MaxUse * Spent'
  BY <1>3, <1>4, <1>5
<1> QED
  BY <1>6 DEF OvershootBounded, Spent

LEMMA BoundStep == IInv /\ IInv' /\ OvershootBounded /\ [Next]_vars => OvershootBounded'
<1> SUFFICES ASSUME IInv, IInv', OvershootBounded, [Next]_vars PROVE OvershootBounded'
  OBVIOUS
<1>t. /\ balance \in Int /\ balance' \in Int /\ faults \in Nat /\ faults' \in Nat
      /\ faults \in 0..MaxFaults /\ faults' \in 0..MaxFaults /\ MaxUse \in Nat /\ Budget \in Nat \ {0}
  BY BudgetAssumption DEF IInv
<1>u. Uncharged \in SUBSET Chats /\ Uncharged' \in SUBSET Chats
  BY DEF Uncharged
<1>n. /\ Cardinality(Uncharged) \in Nat /\ IsFiniteSet(Uncharged)
      /\ Cardinality(Uncharged') \in Nat /\ IsFiniteSet(Uncharged')
      /\ Cardinality(Chats) \in Nat /\ Spent \in Nat /\ Spent' \in Nat
  BY <1>t, <1>u, Counted DEF Spent
<1>b. balance >= 1 - MaxUse * Spent
  BY DEF OvershootBounded, Spent
<1>s. Spent' = Cardinality(Chats) - Cardinality(Uncharged') + faults' /\ Spent = Cardinality(Chats) - Cardinality(Uncharged) + faults
  BY DEF Spent
\* Nobody is let in: the set of the uncharged does not grow.
<1>f. ASSUME Uncharged' \subseteq Uncharged, faults <= faults', balance' >= balance
      PROVE  OvershootBounded'
  <2>1. Cardinality(Uncharged') <= Cardinality(Uncharged)
    BY <1>f, <1>n, FS_Subset
  <2>2. Spent <= Spent'
    BY <1>f, <1>s, <1>n, <1>t, <2>1
  <2> QED
    BY <1>f, <2>2, NoTighter
<1>1. ASSUME NEW c \in Chats, NEW pin \in Providers \cup {NoPin}, NEW serving \in SUBSET Providers,
             NEW cacheable \in BOOLEAN, ChatCompletion(c, pin, serving, cacheable)
      PROVE  OvershootBounded'
  <2>1. balance' = balance
    BY <1>1 DEF ChatCompletion
  <2>2. CASE Check
    <3>0. Spent' <= Spent'
      BY <1>n
    <3>1. MaxUse * Spent' \in Nat
      BY <1>n, <1>t, <3>0, More
    <3>2. balance' >= 1 - MaxUse * Spent'
      BY <2>1, <2>2, <3>1, <1>t DEF Check
    <3> QED
      BY <3>2 DEF OvershootBounded, Spent
  <2>3. CASE ~Check
    <3>1. faults' = faults + 1
      BY <1>1, <2>3 DEF ChatCompletion, Fault
    <3>2. Uncharged' \subseteq Uncharged \cup {c}
      BY <1>1 DEF ChatCompletion, Uncharged, IInv
    <3>3. IsFiniteSet(Uncharged \cup {c}) /\ Cardinality(Uncharged \cup {c}) \in Nat
          /\ Cardinality(Uncharged \cup {c}) <= Cardinality(Uncharged) + 1
      <4>1. IsFiniteSet(Uncharged \cup {c})
            /\ (Cardinality(Uncharged \cup {c}) = Cardinality(Uncharged)
                \/ Cardinality(Uncharged \cup {c}) = Cardinality(Uncharged) + 1)
        BY <1>n, FS_AddElement, Zenon
      <4> QED
        BY <4>1, <1>n
    <3>4. Cardinality(Uncharged') <= Cardinality(Uncharged \cup {c})
      BY <3>2, <3>3, FS_Subset
    <3>5. Spent <= Spent'
      BY <1>s, <1>n, <1>t, <3>1, <3>3, <3>4
    <3> QED
      BY <2>1, <3>5, <1>t, NoTighter
  <2> QED
    BY <2>2, <2>3
<1>2. ASSUME NEW c \in Chats,
             CacheHit(c) \/ CacheMiss(c) \/ Replayed(c) \/ Exhausted(c) \/ Token(c) \/ SinkFails(c) \/ Breaks(c) \/ Store(c)
      PROVE  OvershootBounded'
  <2>1. balance' = balance /\ faults' = faults
    BY <1>2 DEF CacheHit, CacheMiss, Replayed, Exhausted, Token, SinkFails, Breaks, Store
  <2>2. \A d \in Chats \ {c} : chat'[d] = chat[d]
    BY <1>2 DEF CacheHit, CacheMiss, Replayed, Exhausted, Token, SinkFails, Breaks, Store, Return, IInv
  <2>3. c \in Uncharged' => c \in Uncharged
    <3>1. CASE CacheHit(c) \/ CacheMiss(c)
      BY <3>1 DEF CacheHit, CacheMiss, Uncharged, At
    <3>2. CASE Token(c)
      BY <3>2 DEF Token, Uncharged, At
    <3>3. CASE Breaks(c)
      BY <3>3 DEF Breaks, Uncharged, At
    <3>4. CASE Replayed(c) \/ Exhausted(c) \/ SinkFails(c) \/ Store(c)
      BY <3>4 DEF Replayed, Exhausted, SinkFails, Store, Return, Uncharged, Idle, IInv
    <3> QED
      BY <1>2, <3>1, <3>2, <3>3, <3>4
  <2>4. Uncharged' \subseteq Uncharged
    BY <2>2, <2>3 DEF Uncharged
  <2> QED
    BY <2>1, <2>4, <1>f, <1>t
<1>3. ASSUME NEW c \in Chats, (\E p \in Providers : Try(c, p)) \/ (\E n \in 0..MaxUse : Done(c, n))
      PROVE  OvershootBounded'
  <2>1. /\ balance' = balance /\ faults' = faults /\ chat[c].pc \in {"loop", "stream"}
        /\ \A d \in Chats \ {c} : chat'[d] = chat[d]
    BY <1>3 DEF Try, Done, At, IInv
  <2>2. Uncharged' \subseteq Uncharged
    BY <2>1 DEF Uncharged
  <2> QED
    BY <2>1, <2>2, <1>f, <1>t
<1>4. ASSUME NEW c \in Chats, Deduct(c)
      PROVE  OvershootBounded'
  <2>1. c \in Uncharged /\ chat[c] \in Requests /\ chat[c] \in Coherent
    BY <1>4, InProgress DEF Deduct, At, Uncharged
  <2>2. Uncharged' = Uncharged \ {c}
    BY <1>4, <2>1 DEF Deduct, Uncharged, IInv
  <2>3. Cardinality(Uncharged') = Cardinality(Uncharged) - 1
    BY <1>n, <2>1, <2>2, FS_RemoveElement
  <2>4. chat[c].use \in 0..MaxUse
    BY <2>1 DEF Requests
  <2>5. CASE balance' = balance - chat[c].use /\ UNCHANGED faults
    <3>1. Spent' = Spent + 1
      BY <1>s, <1>n, <1>t, <2>3, <2>5
    <3>2. MaxUse * Spent' = MaxUse * Spent + MaxUse /\ MaxUse * Spent \in Nat
      BY <3>1, <1>n, <1>t, More
    <3>3. balance' >= 1 - MaxUse * Spent'
      BY <1>b, <1>t, <2>4, <2>5, <3>2
    <3> QED
      BY <3>3 DEF OvershootBounded, Spent
  <2>6. CASE Fault /\ UNCHANGED balance
    BY <1>f, <1>t, <2>2, <2>6 DEF Fault
  <2> QED
    BY <1>4, <2>5, <2>6 DEF Deduct
<1>5. CASE Tick \/ EvictBudget \/ EvictCache \/ UNCHANGED vars
  <2>1. Uncharged' = Uncharged /\ faults' = faults /\ balance' >= balance
    BY <1>5, <1>t DEF Tick, EvictBudget, EvictCache, vars, Uncharged, IInv
  <2> QED
    BY <2>1, <1>f, <1>t
<1> QED
  BY <1>1, <1>2, <1>3, <1>4, <1>5 DEF Next, Serve

\* The soft cap of budget.Check and budget.Deduct: however many requests run at once, the
\* overdraft is at most one completion for each of them and for each failed Redis call.
THEOREM OvershootStaysBounded == Spec => []OvershootBounded
<1>1. Init => OvershootBounded
  <2> SUFFICES ASSUME Init PROVE OvershootBounded
    OBVIOUS
  <2>1. IInv
    BY InvInit
  <2>2. Spent \in Nat
    BY <2>1, Counted DEF Spent, Uncharged, IInv
  <2>3. MaxUse * Spent \in Nat /\ balance \in Nat /\ balance >= 1
    BY <2>2, More, BudgetAssumption DEF Init
  <2>4. balance >= 1 - MaxUse * Spent
    BY <2>3
  <2> QED
    BY <2>4 DEF OvershootBounded, Spent
<1> QED
  BY <1>1, InvHolds, BoundStep, PTL DEF Spec
=============================================================================
