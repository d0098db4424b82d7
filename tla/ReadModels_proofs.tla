--------------------------- MODULE ReadModels_proofs ---------------------------
(***************************************************************************)
(* The two read models that are kept from events, for every value of their  *)
(* constants.                                                               *)
(*                                                                          *)
(* InferenceGateway (parts 1 and 2): a route has one stable target, the     *)
(* mirror restores the table, and a half-open circuit is judged by its      *)
(* probes.  The last one rests on CallTimeout < ResetTimeout.               *)
(*                                                                          *)
(* RegistryProjection (parts 3 to 6): the Redis hashes are never ahead of   *)
(* Postgres, an announced version becomes visible, and events applied one   *)
(* by one and in order leave the hashes equal to Postgres.                  *)
(***************************************************************************)
EXTENDS InferenceGateway, RegistryProjection, FiniteSetTheorems, SequenceTheorems, TLAPS

-----------------------------------------------------------------------------
(* Part 1: routes *)

Targets == [weight : Weights, active : BOOLEAN, stable : BOOLEAN]

\* A route as every writer leaves it: targets of known versions, one of them stable.
Sound(r) ==
    /\ DOMAIN r \subseteq Versions
    /\ \A v \in DOMAIN r : r[v] \in Targets
    /\ \A u, v \in DOMAIN r : r[u].stable /\ r[v].stable => u = v

\* What a writer is doing, and that the route it holds is sound.
WriterOK(w) ==
    \/ writer[w] = Idle
    \/ /\ DOMAIN writer[w] = {"pc", "route"} /\ writer[w].pc \in {"swap", "mirror"}
       /\ Sound(writer[w].route)

RouteInv ==
    /\ Sound(table) /\ Sound(mirror)
    /\ DOMAIN writer = Writers /\ \A w \in Writers : WriterOK(w)

\* Unless a mirror write was lost or overtaken, at most one writer is between the table
\* and the mirror, and it carries the table's route; without one the two are equal.
MirrorInv ==
    ~stale =>
        /\ \A w \in Writers : writer[w].pc = "mirror" =>
              /\ writer[w].route = table
              /\ \A u \in Writers \ {w} : writer[u].pc # "mirror"
        /\ MirrorRestores

LEMMA EmptyRoute == Sound(NoRoute) /\ DOMAIN NoRoute = {}
  BY DEF NoRoute, Sound

LEMMA TargetType ==
    ASSUME NEW n \in Weights, NEW a \in BOOLEAN, NEW s \in BOOLEAN
    PROVE  Target(n, a, s) \in Targets /\ Target(n, a, s).stable = s
  BY DEF Target, Targets

\* A deployment adds or updates one target; only the first one of a route becomes stable.
LEMMA DeployedSound ==
    ASSUME NEW r, Sound(r), NEW v \in Versions, NEW n \in Weights
    PROVE  Sound(ApplyModelDeployed(r, v, n))
<1> DEFINE s == ApplyModelDeployed(r, v, n)
<1>1. DOMAIN s = DOMAIN r \cup {v}
  BY DEF ApplyModelDeployed
<1>2. \A u \in DOMAIN r : u # v => s[u] = r[u]
  BY DEF ApplyModelDeployed
<1> DEFINE b == IF v \in DOMAIN r THEN r[v].stable ELSE r = NoRoute
<1>3. s[v] = Target(n, TRUE, b)
  BY DEF ApplyModelDeployed
<1>b. b \in BOOLEAN
  <2>1. CASE v \in DOMAIN r
    BY <2>1 DEF Sound, Targets
  <2>2. CASE v \notin DOMAIN r
    BY <2>2
  <2> QED
    BY <2>1, <2>2
<1>5. v \in DOMAIN r => b = r[v].stable
  OBVIOUS
<1>6. v \notin DOMAIN r /\ b => DOMAIN r = {}
  BY EmptyRoute
<1> HIDE DEF s, b
<1>4. s[v] \in Targets /\ s[v].stable = b
  BY <1>3, <1>b, TargetType
<1>7. DOMAIN s \subseteq Versions /\ \A u \in DOMAIN s : s[u] \in Targets
  BY <1>1, <1>2, <1>4 DEF Sound
<1>8. \A t, u \in DOMAIN s : s[t].stable /\ s[u].stable => t = u
  <2>1. CASE v \in DOMAIN r
    <3>1. \A u \in DOMAIN s : u \in DOMAIN r /\ s[u].stable = r[u].stable
      BY <2>1, <1>1, <1>2, <1>4, <1>5
    <3> QED
      BY <3>1 DEF Sound
  <2>2. CASE v \notin DOMAIN r /\ s[v].stable
    BY <2>2, <1>1, <1>4, <1>6
  <2>3. CASE v \notin DOMAIN r /\ ~s[v].stable
    BY <2>3, <1>1, <1>2 DEF Sound
  <2> QED
    BY <2>1, <2>2, <2>3
<1> QED
  BY <1>7, <1>8 DEF Sound, s

\* Whatever a handler or an RPC works out from a sound route is a sound route.
LEMMA ResultsSound ==
    ASSUME NEW r, Sound(r), NEW op \in Ops, NEW n \in Results(op, r)
    PROVE  Sound(n)
<1>1. CASE op = "deployed"
  <2>1. \E v \in Versions, k \in Weights : n = ApplyModelDeployed(r, v, k)
    BY <1>1 DEF Results
  <2> QED
    BY <2>1, DeployedSound
<1>2. CASE op = "undeployed"
  <2>1. \E v \in Versions : n = Restrict(r, DOMAIN r \ {v})
    BY <1>2 DEF Results
  <2> QED
    BY <2>1 DEF Restrict, Sound
<1>3. CASE op = "promoted"
  <2>1. PICK v \in DOMAIN r : n = ApplyModelPromoted(r, v)
    BY <1>3 DEF Results
  <2>2. /\ DOMAIN n = DOMAIN r /\ n[v] = Target(TotalWeight, TRUE, TRUE)
        /\ \A u \in DOMAIN r : u # v => n[u] = Target(0, FALSE, FALSE)
    BY <2>1 DEF ApplyModelPromoted
  <2>3. TotalWeight \in Weights /\ 0 \in Weights
    BY RouteAssumption DEF Weights
  <2>4. \A u \in DOMAIN n : n[u] \in Targets /\ (n[u].stable => u = v)
    BY <2>2, <2>3, TargetType
  <2> QED
    BY <2>2, <2>4 DEF Sound
<1>4. CASE op = "archived"
  BY <1>4, EmptyRoute DEF Results
<1>5. CASE op = "upsert"
  <2>1. PICK p \in Proposals(r) : n = UpsertRoute(r, p)
    BY <1>5 DEF Results
  <2>2. DOMAIN p \subseteq DOMAIN r /\ \A v \in DOMAIN p : p[v] \in Weights
    BY <2>1 DEF Proposals
  <2>3. DOMAIN n = DOMAIN p /\ \A v \in DOMAIN p : n[v] = Target(p[v], TRUE, r[v].stable)
    BY <2>1 DEF UpsertRoute
  <2>4. \A v \in DOMAIN n : n[v] \in Targets /\ n[v].stable = r[v].stable
    <3>1. \A v \in DOMAIN p : r[v].stable \in BOOLEAN
      BY <2>2 DEF Sound, Targets
    <3>2. \A v \in DOMAIN p : Target(p[v], TRUE, r[v].stable) \in Targets
                                /\ Target(p[v], TRUE, r[v].stable).stable = r[v].stable
      BY <2>2, <3>1, TargetType, Zenon
    <3> QED
      BY <2>3, <3>2
  <2> QED
    BY <2>2, <2>3, <2>4 DEF Sound
<1>6. CASE op = "split"
  <2>1. PICK p \in Proposals(r) : n = SetTrafficSplit(r, p)
    BY <1>6 DEF Results
  <2>2. DOMAIN p \subseteq DOMAIN r /\ \A v \in DOMAIN p : p[v] \in Weights
    BY <2>1 DEF Proposals
  <2>3. DOMAIN n = DOMAIN r
        /\ \A v \in DOMAIN r : n[v] = IF v \in DOMAIN p THEN [r[v] EXCEPT !.weight = p[v]] ELSE r[v]
    BY <2>1 DEF SetTrafficSplit
  <2>4. \A v \in DOMAIN n : n[v] \in Targets /\ n[v].stable = r[v].stable
    BY <2>2, <2>3 DEF Targets, Sound
  <2> QED
    BY <2>3, <2>4 DEF Sound
<1> QED
  BY <1>1, <1>2, <1>3, <1>4, <1>5, <1>6 DEF Ops

LEMMA RouteInit == Init => RouteInv /\ MirrorInv
<1> SUFFICES ASSUME Init PROVE RouteInv /\ MirrorInv
  OBVIOUS
<1>1. Sound(mirror)
  <2>1. CASE mirror = NoRoute
    BY <2>1, EmptyRoute
  <2>2. CASE mirror # NoRoute
    <3>1. PICK u \in Versions : mirror = [v \in {u} |-> Target(TotalWeight, TRUE, TRUE)]
      BY <2>2 DEF Init
    <3> QED
      BY <3>1, RouteAssumption DEF Sound, Target, Targets, Weights
  <2> QED
    BY <2>1, <2>2
<1> QED
  BY <1>1 DEF Init, RouteInv, WriterOK, MirrorInv, MirrorRestores, Idle

LEMMA RouteStep == RouteInv /\ MirrorInv /\ [Next]_vars => RouteInv' /\ MirrorInv'
<1> SUFFICES ASSUME RouteInv, MirrorInv, [Next]_vars PROVE RouteInv' /\ MirrorInv'
  OBVIOUS
<1>u. ASSUME UNCHANGED routes PROVE RouteInv' /\ MirrorInv'
  BY <1>u DEF routes, RouteInv, MirrorInv, WriterOK, MirrorRestores
<1>1. ASSUME NEW w \in Writers, Read(w) PROVE RouteInv' /\ MirrorInv'
  <2>1. PICK op \in Ops : \E n \in Results(op, table) : writer' = [writer EXCEPT ![w] = [pc |-> "swap", route |-> n]]
    BY <1>1 DEF Read
  <2>2. PICK n \in Results(op, table) : writer' = [writer EXCEPT ![w] = [pc |-> "swap", route |-> n]]
    BY <2>1
  <2>3. Sound(n)
    BY <2>1, <2>2, ResultsSound DEF RouteInv
  <2>4. UNCHANGED <<table, mirror, stale>> /\ writer[w].pc = "idle"
    BY <1>1 DEF Read
  <2>5. DOMAIN writer' = Writers /\ writer'[w] = [pc |-> "swap", route |-> n] /\ \A u \in Writers \ {w} : writer'[u] = writer[u]
    BY <2>2 DEF RouteInv
  <2>6. RouteInv'
    BY <2>3, <2>4, <2>5 DEF RouteInv, WriterOK
  <2>7. \A u \in Writers : writer'[u].pc = "mirror" <=> writer[u].pc = "mirror"
    BY <2>4, <2>5
  <2>8. \A u \in Writers : writer'[u].pc = "mirror" => writer'[u] = writer[u]
    BY <2>5
  <2> QED
    BY <2>4, <2>6, <2>7, <2>8 DEF MirrorInv, MirrorRestores
<1>2. ASSUME NEW w \in Writers, Swap(w) PROVE RouteInv' /\ MirrorInv'
  <2>1. /\ DOMAIN writer[w] = {"pc", "route"} /\ Sound(writer[w].route) /\ writer[w].pc = "swap"
    BY <1>2 DEF RouteInv, WriterOK, Swap, Idle
  <2>2. /\ DOMAIN writer' = Writers /\ writer'[w] = [writer[w] EXCEPT !.pc = "mirror"]
        /\ \A u \in Writers \ {w} : writer'[u] = writer[u]
    BY <1>2 DEF RouteInv, Swap
  <2>3. DOMAIN writer'[w] = {"pc", "route"} /\ writer'[w].pc = "mirror" /\ writer'[w].route = writer[w].route
    BY <2>1, <2>2
  <2>4. table' = writer[w].route /\ mirror' = mirror /\ stale' = (stale \/ \E u \in Writers \ {w} : writer[u].pc = "mirror")
    BY <1>2 DEF Swap
  <2>5. RouteInv'
    BY <2>1, <2>2, <2>3, <2>4 DEF RouteInv, WriterOK
  <2>6. ASSUME ~stale' PROVE \A u \in Writers \ {w} : writer'[u].pc # "mirror"
    BY <2>2, <2>4, <2>6
  <2> QED
    BY <2>3, <2>4, <2>5, <2>6 DEF MirrorInv, MirrorRestores
<1>3. ASSUME NEW w \in Writers, Mirror(w) PROVE RouteInv' /\ MirrorInv'
  <2>1. Sound(writer[w].route) /\ writer[w].pc = "mirror"
    BY <1>3 DEF RouteInv, WriterOK, Mirror, Idle
  <2>2. /\ DOMAIN writer' = Writers /\ writer'[w] = Idle /\ \A u \in Writers \ {w} : writer'[u] = writer[u]
    BY <1>3 DEF RouteInv, Mirror
  <2>3. mirror' = writer[w].route /\ UNCHANGED <<table, stale>>
    BY <1>3 DEF Mirror, MirrorOf
  <2>4. RouteInv'
    BY <2>1, <2>2, <2>3 DEF RouteInv, WriterOK
  <2>5. ~stale => writer[w].route = table /\ \A u \in Writers \ {w} : writer[u].pc # "mirror"
    BY <2>1 DEF MirrorInv
  <2>6. Idle.pc # "mirror"
    BY DEF Idle
  <2> QED
    BY <2>2, <2>3, <2>4, <2>5, <2>6 DEF MirrorInv, MirrorRestores
<1>4. ASSUME NEW w \in Writers, MirrorFails(w) PROVE RouteInv' /\ MirrorInv'
  <2>1. /\ DOMAIN writer' = Writers /\ writer'[w] = Idle /\ \A u \in Writers \ {w} : writer'[u] = writer[u]
        /\ UNCHANGED <<table, mirror>> /\ stale'
    BY <1>4 DEF RouteInv, MirrorFails
  <2> QED
    BY <2>1 DEF RouteInv, WriterOK, MirrorInv
<1>5. CASE Restart
  <2>1. table' = mirror /\ mirror' = mirror /\ writer' = [w \in Writers |-> Idle]
    BY <1>5 DEF Restart
  <2>2. Idle.pc # "mirror"
    BY DEF Idle
  <2> QED
    BY <2>1, <2>2 DEF RouteInv, WriterOK, MirrorInv, MirrorRestores
<1>6. CASE \E c \in Callers : Predict(c) \/ Gate(c) \/ Succeeds(c) \/ Errors(c)
  BY <1>6, <1>u DEF Predict, Gate, Succeeds, Errors, Record
<1>7. CASE (\E v \in Versions : Snapshot(v)) \/ QuotaExceeded \/ QuotaExpires \/ Tick
  BY <1>7, <1>u DEF Snapshot, QuotaExceeded, QuotaExpires, Tick
<1>8. CASE UNCHANGED vars
  BY <1>8, <1>u DEF vars
<1> QED
  BY <1>1, <1>2, <1>3, <1>4, <1>5, <1>6, <1>7, <1>8 DEF Next

\* The mirror holds the table's route whenever no writer is under way, unless a mirror
\* write was lost or overtaken (route_store.go).
THEOREM MirrorIsRestorable == Spec => []MirrorRestores
<1>1. RouteInv /\ MirrorInv => MirrorRestores
  BY DEF MirrorInv, MirrorRestores
<1> QED
  BY <1>1, RouteInit, RouteStep, PTL DEF Spec

\* A route never has two stable targets, however its writers overlap.
THEOREM OneStableTarget == Spec => []OneStable
<1>1. RouteInv => OneStable
  <2> SUFFICES ASSUME RouteInv PROVE OneStable
    OBVIOUS
  <2> DEFINE S == {v \in DOMAIN table : table[v].stable}
  <2>1. \A u, v \in S : u = v
    BY DEF RouteInv, Sound
  <2>2. CASE S = {}
    BY <2>2, FS_EmptySet DEF OneStable
  <2>3. CASE S # {}
    <3>1. PICK x \in S : TRUE
      BY <2>3
    <3>2. S = {x}
      BY <2>1, <3>1
    <3>3. Cardinality(S) = 1
      BY <3>2, FS_Singleton
    <3> QED
      BY <3>3 DEF OneStable
  <2> QED
    BY <2>2, <2>3
<1> QED
  BY <1>1, RouteInit, RouteStep, PTL DEF Spec

-----------------------------------------------------------------------------
(* Part 2: breakers *)

LEMMA BreakerTypes ==
    ASSUME NEW b \in Breakers
    PROVE  /\ newCircuitBreaker \in Breakers /\ MaybeHalfOpen(b) \in Breakers /\ Reserve(b) \in Breakers
           /\ RecordSuccess(b) \in Breakers /\ RecordFailure(b) \in Breakers /\ Aged(b) \in Breakers
<1> USE BreakerAssumption
<1>1. \A s \in {"closed", "open", "half"} : TransitionTo(b, s) \in Breakers
  BY DEF TransitionTo, Breakers, newCircuitBreaker
<1>2. newCircuitBreaker \in Breakers /\ MaybeHalfOpen(b) \in Breakers
  BY <1>1 DEF MaybeHalfOpen, Breakers, newCircuitBreaker
<1>3. Reserve(b) \in Breakers /\ Aged(b) \in Breakers
  BY DEF Reserve, Aged, Breakers
<1>4. CASE b.state = "closed"
  BY <1>1, <1>2, <1>3, <1>4 DEF RecordSuccess, RecordFailure, Breakers
<1>5. CASE b.state = "half"
  <2>1. RecordFailure(b) \in Breakers
    BY <1>1, <1>5 DEF RecordFailure
  <2>2. Release(b) \in Breakers /\ Release(b).succ = b.succ
    BY DEF Release, Breakers
  <2>3. b.succ + 1 < SuccessThreshold => [Release(b) EXCEPT !.succ = @ + 1] \in Breakers
    BY <2>2 DEF Breakers
  <2>4. b.succ \in Nat
    BY DEF Breakers
  <2>5. RecordSuccess(b) \in Breakers
    BY <1>1, <1>5, <2>3, <2>4 DEF RecordSuccess
  <2> QED
    BY <1>2, <1>3, <2>1, <2>5
<1>6. CASE b.state = "open"
  BY <1>2, <1>3, <1>6 DEF RecordSuccess, RecordFailure
<1> QED
  BY <1>4, <1>5, <1>6 DEF Breakers

Gated      == [pc : {"gate"}, version : Versions]
Underway   == [pc : {"out"}, version : Versions, left : 0..CallTimeout, probe : BOOLEAN]
CallStates == Gated \cup Underway \cup {Idle}

\* What the calls out to v have to do with its breaker.  While the circuit is open they
\* are all older than the trip, so they run out of time before it is due to half-open;
\* while it is half-open they are its probes, one slot each.
Judges(b, v) ==
    /\ b.state = "open" => \A c \in Out(v) : call[c].left + b.age <= CallTimeout
    /\ b.state = "half" => /\ IsFiniteSet(Out(v)) /\ b.inFlight = Cardinality(Out(v))
                           /\ \A c \in Out(v) : call[c].probe

ProbeInv ==
    /\ breakers \in [Versions -> Breakers]
    /\ call \in [Callers -> CallStates]
    /\ \A v \in Versions : Judges(breakers[v], v)

\* When a half-opening is due nobody is out any more.
LEMMA Realised ==
    ASSUME ProbeInv, NEW v \in Versions
    PROVE  MaybeHalfOpen(breakers[v]) \in Breakers /\ Judges(MaybeHalfOpen(breakers[v]), v)
<1> DEFINE b == breakers[v]
<1>1. b \in Breakers /\ MaybeHalfOpen(b) \in Breakers /\ Judges(b, v)
  BY BreakerTypes DEF ProbeInv
<1>2. CASE b.state = "open" /\ b.age >= ResetTimeout
  <2>1. MaybeHalfOpen(b).state = "half" /\ MaybeHalfOpen(b).inFlight = 0
    BY <1>2 DEF MaybeHalfOpen, TransitionTo, newCircuitBreaker
  <2>2. \A c \in Out(v) : call[c].left \in Nat
    BY DEF Out, ProbeInv, CallStates, Gated, Underway, Idle
  <2>3. Out(v) = {}
    BY <1>1, <1>2, <2>2, TimeoutAssumption, BreakerAssumption DEF Judges, Breakers
  <2> QED
    BY <1>1, <2>1, <2>3, FS_EmptySet DEF Judges
<1>3. CASE ~(b.state = "open" /\ b.age >= ResetTimeout)
  BY <1>1, <1>3 DEF MaybeHalfOpen
<1> QED
  BY <1>2, <1>3

LEMMA ProbeInit == Init => ProbeInv
<1> SUFFICES ASSUME Init PROVE ProbeInv
  OBVIOUS
<1>1. newCircuitBreaker \in Breakers /\ newCircuitBreaker.state = "closed"
  BY BreakerAssumption DEF Breakers, newCircuitBreaker
<1> QED
  BY <1>1 DEF Init, ProbeInv, Judges, CallStates

\* A step of one caller and one breaker: the other versions are left alone, so it is
\* enough to look at this one.
LEMMA StepAt ==
    ASSUME ProbeInv, NEW c \in Callers, NEW v \in Versions, NEW x \in CallStates, NEW b \in Breakers,
           call' = [call EXCEPT ![c] = x], breakers' = [breakers EXCEPT ![v] = b],
           call[c].pc = "out" => call[c].version = v,
           x.pc = "out" => x.version = v,
           b.state = "open" => \A d \in Out(v)' : call'[d].left + b.age <= CallTimeout,
           b.state = "half" => /\ IsFiniteSet(Out(v)') /\ b.inFlight = Cardinality(Out(v)')
                               /\ \A d \in Out(v)' : call'[d].probe
    PROVE  ProbeInv'
<1>1. breakers' \in [Versions -> Breakers] /\ call' \in [Callers -> CallStates]
  BY DEF ProbeInv
<1>2. call'[c] = x /\ \A d \in Callers \ {c} : call'[d] = call[d]
  BY DEF ProbeInv
<1>3. breakers'[v] = b /\ \A u \in Versions \ {v} : breakers'[u] = breakers[u]
  BY DEF ProbeInv
<1>4. ASSUME NEW u \in Versions PROVE Judges(breakers[u], u)'
  <2>1. CASE u = v
    BY <1>3, <2>1 DEF Judges
  <2>2. CASE u # v
    <3>1. Out(u)' = Out(u)
      BY <1>2, <2>2 DEF Out
    <3>2. \A d \in Out(u) : call'[d] = call[d]
      BY <1>2, <2>2 DEF Out
    <3>3. Judges(breakers[u], u)
      BY DEF ProbeInv
    <3> QED
      BY <1>3, <2>2, <3>1, <3>2, <3>3 DEF Judges
  <2> QED
    BY <2>1, <2>2
<1> QED
  BY <1>1, <1>4 DEF ProbeInv

\* A caller that is out, and what is left out to its version when it comes back.
LEMMA Returns ==
    ASSUME ProbeInv, NEW c \in Callers, NEW v \in Versions, call[c].pc = "out", call[c].version = v,
           call' = [call EXCEPT ![c] = Idle]
    PROVE  /\ call[c] \in Underway /\ c \in Out(v) /\ Out(v)' = Out(v) \ {c}
           /\ \A d \in Callers \ {c} : call'[d] = call[d]
<1>1. call[c] \in Underway
  BY DEF ProbeInv, CallStates, Gated, Idle
<1>2. call'[c] = Idle /\ \A d \in Callers \ {c} : call'[d] = call[d]
  BY DEF ProbeInv
<1>3. Idle.pc # "out"
  BY DEF Idle
<1> QED
  BY <1>1, <1>2, <1>3 DEF Out

LEMMA PredictStep ==
    ASSUME RouteInv, ProbeInv, NEW c \in Callers, Predict(c)
    PROVE  ProbeInv'
<1>1. UNCHANGED breakers
  BY DEF Predict
<1>2. CASE UNCHANGED call
  BY <1>1, <1>2 DEF ProbeInv, Judges, Out
<1>3. CASE \E v \in Pick(table) \cup Eligible(table) : call' = [call EXCEPT ![c] = [pc |-> "gate", version |-> v]]
  <2>1. PICK v \in Eligible(table) : call' = [call EXCEPT ![c] = [pc |-> "gate", version |-> v]]
    BY <1>3 DEF Pick
  <2>2. v \in Versions
    BY DEF Eligible, RouteInv, Sound
  <2> DEFINE x == [pc |-> "gate", version |-> v]
  <2>3. x \in CallStates /\ x.pc = "gate"
    BY <2>2 DEF CallStates, Gated
  <2>4. call[c].pc = "idle"
    BY DEF Predict
  <2>5. call'[c] = x /\ \A d \in Callers \ {c} : call'[d] = call[d]
    BY <2>1 DEF ProbeInv
  <2>6. call' \in [Callers -> CallStates]
    BY <2>1, <2>3 DEF ProbeInv
  <2>7. \A u \in Versions : Out(u)' = Out(u) /\ \A d \in Out(u) : call'[d] = call[d]
    BY <2>3, <2>4, <2>5 DEF Out
  <2> QED
    BY <1>1, <2>6, <2>7 DEF ProbeInv, Judges
<1> QED
  BY <1>2, <1>3 DEF Predict, Select

\* Success of a probe frees its slot; a success from before the trip changes nothing,
\* since its circuit is still open.
LEMMA SucceedsStep ==
    ASSUME ProbeInv, NEW c \in Callers, Succeeds(c)
    PROVE  ProbeInv'
<1>3. PICK v \in Versions : v = call[c].version
  BY DEF Succeeds, ProbeInv, CallStates, Gated, Underway, Idle
<1> DEFINE b == RecordSuccess(breakers[v])
<1>1. call[c].pc = "out" /\ call' = [call EXCEPT ![c] = Idle] /\ breakers' = [breakers EXCEPT ![v] = b]
  BY <1>3 DEF Succeeds, Record
<1>2. /\ call[c] \in Underway /\ c \in Out(v) /\ Out(v)' = Out(v) \ {c}
      /\ \A d \in Callers \ {c} : call'[d] = call[d]
  BY <1>1, <1>3, Returns
<1>4. breakers[v] \in Breakers /\ Judges(breakers[v], v)
  BY DEF ProbeInv
<1>5. b \in Breakers
  BY <1>4, BreakerTypes
<1>6. \A d \in Out(v)' : d \in Out(v) /\ call'[d] = call[d]
  BY <1>2 DEF Out
<1>7. b.state = "open" => \A d \in Out(v)' : call'[d].left + b.age <= CallTimeout
  <2>1. b.state = "open" => b = breakers[v]
    BY <1>4 DEF RecordSuccess, TransitionTo, newCircuitBreaker, Release, Breakers
  <2> QED
    BY <1>4, <1>6, <2>1 DEF Judges
<1>8. b.state = "half" => /\ IsFiniteSet(Out(v)') /\ b.inFlight = Cardinality(Out(v)')
                          /\ \A d \in Out(v)' : call'[d].probe
  <2> SUFFICES ASSUME b.state = "half" PROVE /\ IsFiniteSet(Out(v)') /\ b.inFlight = Cardinality(Out(v)')
                                             /\ \A d \in Out(v)' : call'[d].probe
    OBVIOUS
  <2>1. breakers[v].state = "half" /\ b.inFlight = IF breakers[v].inFlight > 0 THEN breakers[v].inFlight - 1 ELSE 0
    BY <1>4 DEF RecordSuccess, TransitionTo, newCircuitBreaker, Release, Breakers
  <2>2. /\ IsFiniteSet(Out(v)) /\ breakers[v].inFlight = Cardinality(Out(v))
        /\ \A d \in Out(v) : call[d].probe
    BY <1>4, <2>1 DEF Judges
  <2>3. IsFiniteSet(Out(v)') /\ Cardinality(Out(v)') = Cardinality(Out(v)) - 1
    BY <1>2, <2>2, FS_RemoveElement
  <2>4. Cardinality(Out(v)') \in Nat
    BY <2>3, FS_CardinalityType
  <2>5. b.inFlight = Cardinality(Out(v)')
    BY <2>1, <2>2, <2>3, <2>4, <1>4 DEF Breakers
  <2> QED
    BY <1>6, <2>2, <2>3, <2>5
<1>9. Idle \in CallStates /\ Idle.pc # "out"
  BY DEF CallStates, Idle
<1> HIDE DEF b
<1> QED
  BY <1>1, <1>3, <1>5, <1>7, <1>8, <1>9, StepAt

\* A failure trips the circuit or is counted; after a trip the clock starts at 0, and
\* nobody who is out has more than CallTimeout left.
LEMMA ErrorsStep ==
    ASSUME ProbeInv, NEW c \in Callers, Errors(c)
    PROVE  ProbeInv'
<1>3. PICK v \in Versions : v = call[c].version
  BY DEF Errors, ProbeInv, CallStates, Gated, Underway, Idle
<1> DEFINE b == RecordFailure(breakers[v])
<1>1. call[c].pc = "out" /\ call' = [call EXCEPT ![c] = Idle] /\ breakers' = [breakers EXCEPT ![v] = b]
  BY <1>3 DEF Errors, OnError, Record
<1>2. /\ call[c] \in Underway /\ c \in Out(v) /\ Out(v)' = Out(v) \ {c}
      /\ \A d \in Callers \ {c} : call'[d] = call[d]
  BY <1>1, <1>3, Returns
<1>4. breakers[v] \in Breakers /\ Judges(breakers[v], v)
  BY DEF ProbeInv
<1>5. b \in Breakers
  BY <1>4, BreakerTypes
<1>6. \A d \in Out(v)' : d \in Out(v) /\ call'[d] = call[d]
  BY <1>2 DEF Out
<1>7. b.state = "open" => \A d \in Out(v)' : call'[d].left + b.age <= CallTimeout
  <2>1. b.state = "open" => b.age = 0 \/ (b = breakers[v] /\ breakers[v].state = "open")
    BY <1>4 DEF RecordFailure, TransitionTo, newCircuitBreaker, Breakers
  <2>2. \A d \in Out(v) : call[d].left \in 0..CallTimeout
    BY DEF Out, ProbeInv, CallStates, Gated, Underway, Idle
  <2>3. CASE b.age = 0
    BY <1>6, <2>2, <2>3, TimeoutAssumption
  <2>4. CASE b = breakers[v] /\ breakers[v].state = "open"
    BY <1>4, <1>6, <2>4 DEF Judges
  <2> HIDE DEF b
  <2> QED
    BY <2>1, <2>3, <2>4
<1>8. b.state # "half"
  BY <1>4 DEF RecordFailure, TransitionTo, newCircuitBreaker, Breakers
<1>9. Idle \in CallStates /\ Idle.pc # "out"
  BY DEF CallStates, Idle
<1> HIDE DEF b
<1> QED
  BY <1>1, <1>3, <1>5, <1>7, <1>8, <1>9, StepAt

\* The breaker admits a call: freely when closed, as one more probe when half-open.
LEMMA GateStep ==
    ASSUME ProbeInv, NEW c \in Callers, Gate(c)
    PROVE  ProbeInv'
<1>0. call[c].pc = "gate"
  BY DEF Gate
<1>1. PICK v \in Versions : v = call[c].version
  BY <1>0 DEF ProbeInv, CallStates, Gated, Underway, Idle
<1> DEFINE b == MaybeHalfOpen(breakers[v])
           x == [pc |-> "out", version |-> v, left |-> CallTimeout, probe |-> b.state = "half"]
<1>2. /\ breakers' = [breakers EXCEPT ![v] = Reserve(b)]
      /\ call' = [call EXCEPT ![c] = IF ~Allowed(b) THEN Idle ELSE x]
  BY <1>1 DEF Gate
<1>3. b \in Breakers /\ Judges(b, v)
  BY Realised
<1>4. Reserve(b) \in Breakers
  BY <1>3, BreakerTypes
<1>5. x \in CallStates /\ x.version = v
  BY TimeoutAssumption DEF CallStates, Underway
<1>6. x.probe = (b.state = "half")
  OBVIOUS
<1>7. x.pc = "out"
  OBVIOUS
<1>8. Idle \in CallStates /\ Idle.pc # "out"
  BY DEF CallStates, Idle
<1>9. c \notin Out(v)
  BY <1>0 DEF Out
<1> HIDE DEF b, x
<1>10. CASE ~Allowed(b)
  <2>1. Reserve(b) = b
    BY <1>10 DEF Reserve, Allowed
  <2>2. call' = [call EXCEPT ![c] = Idle] /\ breakers' = [breakers EXCEPT ![v] = b]
    BY <1>2, <1>10, <2>1
  <2>3. call'[c] = Idle /\ \A d \in Callers \ {c} : call'[d] = call[d]
    BY <2>2 DEF ProbeInv
  <2>4. Out(v)' = Out(v) /\ \A d \in Out(v) : call'[d] = call[d]
    BY <1>8, <1>9, <2>3 DEF Out
  <2>5. b.state = "open" => \A d \in Out(v)' : call'[d].left + b.age <= CallTimeout
    BY <1>3, <2>4 DEF Judges
  <2>6. b.state = "half" => /\ IsFiniteSet(Out(v)') /\ b.inFlight = Cardinality(Out(v)')
                            /\ \A d \in Out(v)' : call'[d].probe
    BY <1>3, <2>4 DEF Judges
  <2> QED
    BY <1>0, <1>3, <1>8, <2>2, <2>5, <2>6, StepAt
<1>11. CASE Allowed(b)
  <2> DEFINE n == Reserve(b)
  <2>1. call' = [call EXCEPT ![c] = x] /\ breakers' = [breakers EXCEPT ![v] = n]
    BY <1>2, <1>11
  <2>2. call'[c] = x /\ \A d \in Callers \ {c} : call'[d] = call[d]
    BY <2>1 DEF ProbeInv
  <2>3. Out(v)' = Out(v) \cup {c} /\ \A d \in Out(v) : call'[d] = call[d]
    BY <1>5, <1>7, <1>9, <2>2 DEF Out
  <2>4. n.state = b.state /\ b.state # "open"
    BY <1>3, <1>11 DEF Allowed, Reserve, Breakers
  <2>5. ASSUME n.state = "half"
        PROVE  /\ IsFiniteSet(Out(v)') /\ n.inFlight = Cardinality(Out(v)')
               /\ \A d \in Out(v)' : call'[d].probe
    <3>1. b.state = "half"
      BY <2>4, <2>5
    <3>2. n.inFlight = b.inFlight + 1
      BY <1>3, <1>11, <3>1 DEF Allowed, Reserve, Breakers
    <3>3. /\ IsFiniteSet(Out(v)) /\ b.inFlight = Cardinality(Out(v))
          /\ \A d \in Out(v) : call[d].probe
      BY <1>3, <3>1 DEF Judges
    <3>4. IsFiniteSet(Out(v)') /\ Cardinality(Out(v)') = Cardinality(Out(v)) + 1
      BY <1>9, <2>3, <3>3, FS_AddElement
    <3>5. x.probe
      BY <1>6, <3>1
    <3>6. \A d \in Out(v)' : call'[d].probe
      BY <2>2, <2>3, <3>3, <3>5
    <3> HIDE DEF n
    <3> QED
      BY <3>2, <3>3, <3>4, <3>6
  <2>6. n \in Breakers
    BY <1>4
  <2> HIDE DEF n
  <2>7. n.state # "open"
    BY <2>4
  <2> QED
    BY <1>0, <1>5, <2>1, <2>5, <2>6, <2>7, StepAt
<1> QED
  BY <1>10, <1>11

LEMMA SnapshotStep ==
    ASSUME ProbeInv, NEW v \in Versions, Snapshot(v)
    PROVE  ProbeInv'
<1> DEFINE b == MaybeHalfOpen(breakers[v])
<1>1. b \in Breakers /\ Judges(b, v)
  BY Realised
<1>2. breakers' = [breakers EXCEPT ![v] = b] /\ UNCHANGED call
  BY DEF Snapshot
<1> HIDE DEF b
<1>3. \A u \in Versions : Out(u)' = Out(u)
  BY <1>2 DEF Out
<1>4. breakers' \in [Versions -> Breakers] /\ breakers'[v] = b /\ \A u \in Versions \ {v} : breakers'[u] = breakers[u]
  BY <1>1, <1>2 DEF ProbeInv
<1>5. ASSUME NEW u \in Versions PROVE Judges(breakers[u], u)'
  <2>1. Judges(breakers'[u], u)
    BY <1>1, <1>4 DEF ProbeInv
  <2> QED
    BY <1>2, <1>3, <2>1 DEF Judges
<1> QED
  BY <1>2, <1>4, <1>5 DEF ProbeInv

\* A tick to a breaker, and to a call.
LEMMA AgedIs ==
    ASSUME NEW b \in Breakers
    PROVE  /\ Aged(b).state = b.state /\ Aged(b).inFlight = b.inFlight
           /\ b.age \in Nat /\ Aged(b).age \in Nat /\ Aged(b).age <= b.age + 1
<1>1. /\ Aged(b).state = b.state /\ Aged(b).inFlight = b.inFlight
      /\ Aged(b).age = IF b.age < ResetTimeout THEN b.age + 1 ELSE b.age
  BY DEF Aged, Breakers
<1>2. b.age \in Nat
  BY BreakerAssumption DEF Breakers
<1> QED
  BY <1>1, <1>2

LEMMA WaitedIs ==
    ASSUME NEW x \in Underway, x.left > 0, NEW y, y = [x EXCEPT !.left = @ - 1]
    PROVE  /\ y \in Underway /\ y.left = x.left - 1 /\ x.left \in Nat
           /\ y.version = x.version /\ y.probe = x.probe /\ y.pc = "out"
<1>1. x.left \in 1..CallTimeout /\ x.pc = "out"
  BY TimeoutAssumption DEF Underway
<1>2. x.left - 1 \in 0..CallTimeout /\ x.left \in Nat
  BY <1>1, TimeoutAssumption
<1>3. y \in Underway /\ y.left = x.left - 1 /\ y.version = x.version /\ y.pc = "out"
  BY <1>1, <1>2 DEF Underway
<1>4. y.probe = x.probe
  BY DEF Underway
<1> QED
  BY <1>2, <1>3, <1>4

\* Time passes for the calls and the open circuits alike.
LEMMA TickStep ==
    ASSUME ProbeInv, Tick
    PROVE  ProbeInv'
<1>1. \A v \in Versions : breakers[v] \in Breakers /\ breakers'[v] = Aged(breakers[v]) /\ Aged(breakers[v]) \in Breakers
  BY BreakerTypes DEF Tick, ProbeInv
<1>2. breakers' \in [Versions -> Breakers]
  BY <1>1 DEF Tick
<1>3. \A c \in Callers : call[c].pc = "out" =>
         /\ call[c] \in Underway /\ call[c].left > 0 /\ call'[c] = [call[c] EXCEPT !.left = @ - 1]
  BY DEF Tick, ProbeInv, CallStates, Gated, Idle
<1>4. \A c \in Callers : call[c].pc = "out" =>
         /\ call'[c] \in Underway /\ call'[c].left = call[c].left - 1 /\ call[c].left \in Nat
         /\ call'[c].version = call[c].version /\ call'[c].probe = call[c].probe /\ call'[c].pc = "out"
  BY <1>3, WaitedIs
<1>5. \A c \in Callers : call[c].pc # "out" => call'[c] = call[c]
  BY DEF Tick
<1>6. call' \in [Callers -> CallStates]
  <2>1. \A c \in Callers : call'[c] \in CallStates
    BY <1>4, <1>5 DEF ProbeInv, CallStates
  <2>2. call' = [c \in Callers |-> call'[c]]
    BY DEF Tick
  <2> QED
    BY <2>1, <2>2
<1>7. \A v \in Versions : Out(v)' = Out(v)
  BY <1>4, <1>5 DEF Out
<1>8. ASSUME NEW v \in Versions PROVE Judges(breakers[v], v)'
  <2> DEFINE b == breakers[v]
             n == Aged(b)
  <2>1. /\ n.state = b.state /\ n.inFlight = b.inFlight
        /\ b.age \in Nat /\ n.age \in Nat /\ n.age <= b.age + 1
    BY <1>1, AgedIs
  <2>2. breakers'[v] = n /\ Judges(b, v)
    BY <1>1 DEF ProbeInv
  <2> HIDE DEF b, n
  <2>3. \A c \in Out(v) : /\ call'[c].left = call[c].left - 1 /\ call[c].left \in Nat
                          /\ call'[c].probe = call[c].probe
    BY <1>4 DEF Out
  <2>4. n.state = "open" => \A c \in Out(v) : call'[c].left + n.age <= CallTimeout
    BY <2>1, <2>2, <2>3, TimeoutAssumption DEF Judges
  <2>5. n.state = "half" => /\ IsFiniteSet(Out(v)) /\ n.inFlight = Cardinality(Out(v))
                            /\ \A c \in Out(v) : call'[c].probe
    BY <2>1, <2>2, <2>3 DEF Judges
  <2> QED
    BY <1>7, <2>2, <2>4, <2>5 DEF Judges
<1> QED
  BY <1>2, <1>6, <1>8 DEF ProbeInv

LEMMA ProbeStep == RouteInv /\ ProbeInv /\ [Next]_vars => ProbeInv'
<1> SUFFICES ASSUME RouteInv, ProbeInv, [Next]_vars PROVE ProbeInv'
  OBVIOUS
<1>u. ASSUME UNCHANGED <<breakers, call>> PROVE ProbeInv'
  BY <1>u DEF ProbeInv, Judges, Out
<1>1. CASE \E c \in Callers : Predict(c) \/ Gate(c) \/ Succeeds(c) \/ Errors(c)
  BY <1>1, PredictStep, GateStep, SucceedsStep, ErrorsStep
<1>2. CASE (\E v \in Versions : Snapshot(v)) \/ Tick
  BY <1>2, SnapshotStep, TickStep
<1>3. CASE Restart
  <2>1. newCircuitBreaker \in Breakers /\ newCircuitBreaker.state = "closed"
    BY BreakerAssumption DEF Breakers, newCircuitBreaker
  <2>2. breakers' = [v \in Versions |-> newCircuitBreaker] /\ call' = [c \in Callers |-> Idle]
    BY <1>3 DEF Restart
  <2> QED
    BY <2>1, <2>2 DEF ProbeInv, Judges, CallStates
<1>4. CASE \E w \in Writers : Read(w) \/ Swap(w) \/ Mirror(w) \/ MirrorFails(w)
  BY <1>4, <1>u DEF Read, Swap, Mirror, MirrorFails, serve
<1>5. CASE QuotaExceeded \/ QuotaExpires \/ UNCHANGED vars
  BY <1>5, <1>u DEF QuotaExceeded, QuotaExpires, vars, serve
<1> QED
  BY <1>1, <1>2, <1>3, <1>4, <1>5 DEF Next

\* The calls out to a half-open version are exactly its admitted probes, at most MaxProbes
\* of them: because a call's deadline is shorter than the open circuit's reset timeout,
\* no answer from before the trip is left to close the circuit or to free a probe's slot
\* (Allow, RecordSuccess and RecordFailure of circuit_breaker.go).
THEOREM HalfOpenJudgedByProbes == Spec => []HalfOpenIsProbed
<1>1. ProbeInv => HalfOpenIsProbed
  <2> SUFFICES ASSUME ProbeInv, NEW v \in Versions, breakers[v].state = "half"
               PROVE  /\ breakers[v].inFlight = Cardinality(Out(v)) /\ breakers[v].inFlight <= MaxProbes
                      /\ \A c \in Out(v) : call[c].probe
    BY DEF HalfOpenIsProbed
  <2>1. breakers[v].inFlight <= MaxProbes
    BY BreakerAssumption DEF ProbeInv, Breakers
  <2> QED
    BY <2>1 DEF ProbeInv, Judges
<1> QED
  BY <1>1, RouteInit, RouteStep, ProbeInit, ProbeStep, PTL DEF Spec

-----------------------------------------------------------------------------
(* Part 3: the registry's read side.  What its state looks like *)

\* Hashes as the handlers leave them: a field nobody wrote is unspecified.
VersionHashes == [stage : Stages \cup {"none", "unspecified"}, status : Statuses \cup {"none", "unspecified"}]
ModelHashes   == [there : BOOLEAN, production : ModelVersions \cup {NoVersion},
                  latest : ModelVersions \cup {NoVersion}, archived : BOOLEAN, updated : Nat]
LogEvents     == [subject : Subjects, v : ModelVersions \cup {NoVersion}, to : Stages,
                  demoted : ModelVersions \cup {NoVersion}]
Calls         == {"idle", "load", "put", "loadDemoted", "putDemoted", "model", "putModel", "ack"}

TruthTypeOK ==
    /\ model \in {"none", "active", "archived"}
    /\ DOMAIN rows \subseteq ModelVersions /\ rows \in [DOMAIN rows -> [stage : Stages, status : Statuses]]
    /\ model = "none" => DOMAIN rows = {}
    /\ log \in Seq(LogEvents)

RedisTypeOK ==
    /\ m \in ModelHashes /\ vs \in [ModelVersions -> VersionHashes]
    /\ at \in [Subjects -> [pc : Calls, i : Nat, v : VersionHashes, m : ModelHashes]]

QueueTypeOK ==
    /\ tries \in Seq(Nat) /\ Len(tries) = Len(log) /\ pending \subseteq DOMAIN log
    /\ last \in Nat /\ clean \in BOOLEAN /\ projFaults \in Nat /\ projFaults <= MaxProjFaults

-----------------------------------------------------------------------------
(* The read side is never ahead *)

\* A version that was once at stage t may now be at stage s.
MayFollow(s, t) ==
    /\ t = "archived" => s = "archived"
    /\ t = "production" => s \in {"production", "archived"}
    /\ t = "staging" => s # "dev"

\* Hash w says nothing of version v that Postgres does not say, or did not say once.
Behind(w, v) ==
    w # Absent => /\ v \in DOMAIN rows /\ MayFollow(rows[v].stage, w.stage)
                  /\ w.status = "ready" => rows[v].status = "ready"

ModelBehind(x) ==
    /\ x.production # NoVersion =>
        x.production \in DOMAIN rows /\ rows[x.production].stage \in {"production", "archived"}
    /\ x.archived => model = "archived"

\* What an event says still holds, up to later moves.
EventTrue(e) ==
    /\ e.subject = "registered" => model # "none"
    /\ e.subject \in {"created", "ready", "promoted"} => e.v \in DOMAIN rows
    /\ e.subject = "ready" => rows[e.v].status = "ready"
    /\ e.subject = "promoted" =>
        /\ e.to # "dev" /\ MayFollow(rows[e.v].stage, e.to)
        /\ e.demoted # NoVersion =>
            /\ e.to = "production" /\ e.demoted # e.v
            /\ e.demoted \in DOMAIN rows /\ rows[e.demoted].stage = "archived"
    /\ e.subject = "archived" => model = "archived"

EventsTrue == \A i \in DOMAIN log : EventTrue(log[i])

\* A handler at work has an event of its subject, is at a call that the event leads to,
\* and what it loaded is behind.
HandlerOK(s) ==
    at[s].pc # "idle" =>
        /\ at[s].i \in DOMAIN log /\ Ev(s).subject = s
        /\ at[s].pc = "put" => s \in {"created", "ready", "promoted"} /\ Behind(at[s].v, Ev(s).v)
        /\ at[s].pc \in {"loadDemoted", "putDemoted"} => s = "promoted" /\ Ev(s).demoted # NoVersion
        /\ at[s].pc = "putDemoted" => Behind(at[s].v, Ev(s).demoted)
        /\ at[s].pc \in {"model", "putModel"} => s \in {"created", "promoted", "archived"}
        /\ at[s].pc = "model" => s # "archived"
        /\ at[s].pc \in {"model", "putModel"} /\ s = "promoted" => Ev(s).to = "production"
        /\ at[s].pc = "putModel" => ModelBehind(at[s].m)

RedisBehind == (\A v \in ModelVersions : Behind(vs[v], v)) /\ ModelBehind(m)
HandlersOK  == \A s \in Subjects : HandlerOK(s)

BehindInv == TruthTypeOK /\ RedisTypeOK /\ QueueTypeOK /\ EventsTrue /\ RedisBehind /\ HandlersOK

-----------------------------------------------------------------------------
(* An announced version becomes visible *)

\* Past its first upsert a created event's version is there.
CreatedOK ==
    /\ at["created"].pc \in {"model", "putModel", "ack"} => vs[Ev("created").v] # Absent
    /\ at["created"].pc = "put" /\ at["created"].v # Absent => vs[Ev("created").v] # Absent

Busy(s, i) == IF at[s].pc # "idle" /\ at[s].i = i THEN 1 ELSE 0

\* Every delivery of an event whose version is not visible yet, but the one under way,
\* was ended by a fault.
FewTries ==
    \A i \in DOMAIN log :
        log[i].subject = "created" /\ vs[log[i].v] = Absent
        => i \in pending /\ tries[i] <= projFaults + Busy("created", i)

-----------------------------------------------------------------------------
(* Events applied one at a time and in order *)

\* The events that write the stage and the status of version v, and the model's pointer.
Restages(e, v) ==
    (e.subject \in {"created", "promoted"} /\ e.v = v) \/ (e.subject = "promoted" /\ e.demoted = v)
Restatuses(e, v) == e.subject \in {"created", "ready"} /\ e.v = v
Produces(e)      == e.subject = "promoted" /\ e.to = "production"
StageBy(e, v)    == IF e.subject = "created" THEN "dev" ELSE IF e.v = v THEN e.to ELSE "archived"

\* One handler at a time, on the newest event; what it loaded is still what is there.
OneByOne ==
    clean =>
        /\ last <= Len(log) /\ m.updated <= last
        /\ \A i \in DOMAIN log : i > last => i \in pending
        /\ \A s \in Subjects : at[s].pc # "idle" =>
            /\ at[s].i = last /\ last \in pending /\ \A t \in Subjects : t # s => at[t].pc = "idle"
            /\ at[s].pc = "put" => at[s].v = vs[Ev(s).v]
            /\ at[s].pc = "putDemoted" => at[s].v = vs[Ev(s).demoted]
            /\ at[s].pc = "putModel" => at[s].m = m /\ m.there

\* The order of the log: a version's creation, and the model's, come before all else.
LogOrder ==
    /\ \A i, j \in DOMAIN log :
        log[i].subject = "created" /\ (Restages(log[j], log[i].v) \/ Restatuses(log[j], log[i].v)) => i <= j
    /\ \A i \in DOMAIN log : log[i].subject = "registered" => i = 1
    /\ model = "none" => log = << >>
    /\ \A u, v \in Production(rows) : u = v

\* Without a lost emit the last event on a matter says what Postgres says.
LogTruth ==
    clean =>
        /\ model = "active" =>
            \A v \in ModelVersions : \A i \in DOMAIN log :
                Restages(log[i], v) /\ (\A j \in DOMAIN log : j > i => ~Restages(log[j], v))
                => rows[v].stage = StageBy(log[i], v)
        /\ \A v \in ModelVersions : \A i \in DOMAIN log :
                Restatuses(log[i], v) /\ (\A j \in DOMAIN log : j > i => ~Restatuses(log[j], v))
                => (rows[v].status = "ready") = (log[i].subject = "ready")
        /\ \A i \in DOMAIN log :
                Produces(log[i]) /\ (\A j \in DOMAIN log : j > i => ~Produces(log[j]))
                => Production(rows) \subseteq {log[i].v}
        /\ (\E i \in DOMAIN log : log[i].subject = "registered") =>
            /\ model = "archived" => \E i \in DOMAIN log : log[i].subject = "archived"
            /\ Production(rows) # {} => \E i \in DOMAIN log : Produces(log[i])

\* Nothing but its created event has touched a version whose creation is not handled yet.
NewIsNew ==
    clean => \A i \in DOMAIN log : log[i].subject = "created" =>
        /\ i > last => vs[log[i].v] = Absent
        /\ i = last => vs[log[i].v] \in {Absent, [stage |-> "dev", status |-> "pending"]}

\* What a handler has already written carries its event's value.
Written(s) ==
    /\ s = "registered" /\ at[s].pc = "ack" => m.there /\ ~m.archived
    /\ s = "created" /\ at[s].pc \in {"model", "putModel", "ack"} =>
        vs[Ev(s).v] = [stage |-> "dev", status |-> "pending"]
    /\ s = "created" /\ at[s].pc = "ack" => m.latest = Ev(s).v
    /\ s = "ready" /\ at[s].pc = "ack" => vs[Ev(s).v].status = "ready"
    /\ s = "promoted" /\ at[s].pc \in {"loadDemoted", "putDemoted", "model", "putModel", "ack"} =>
        vs[Ev(s).v].stage = Ev(s).to
    /\ s = "promoted" /\ at[s].pc \in {"model", "putModel", "ack"} /\ Ev(s).demoted # NoVersion =>
        vs[Ev(s).demoted].stage = "archived"
    /\ s = "promoted" /\ at[s].pc = "ack" /\ Ev(s).to = "production" => m.production = Ev(s).v
    /\ s = "archived" /\ at[s].pc = "ack" => m.archived

\* It does so in a clean history.
Progress == clean => \A s \in Subjects : Written(s)

\* What no pending event is about is as in Postgres.
Fresh ==
    clean =>
        /\ model = "active" => \A v \in ModelVersions :
            (\A i \in pending : ~Restages(log[i], v))
            => vs[v].stage = IF v \in DOMAIN rows THEN rows[v].stage ELSE "none"
        /\ \A v \in ModelVersions :
            (\A i \in pending : ~Restatuses(log[i], v))
            => vs[v].status = IF v \in DOMAIN rows THEN Shown(rows[v]).status ELSE "none"
        /\ (\A i \in pending : log[i].subject # "registered") =>
            /\ m.there = (model # "none")
            /\ (\A i \in pending : log[i].subject # "archived") => m.archived = (model = "archived")
            /\ (\A i \in pending : ~Produces(log[i])) => Production(rows) \subseteq {m.production}
            /\ (\A i \in pending : log[i].subject # "created") =>
                \A i \in DOMAIN log :
                    log[i].subject = "created" /\ (\A j \in DOMAIN log : j > i => log[j].subject # "created")
                    => m.latest = log[i].v

OrderInv == OneByOne /\ LogOrder /\ LogTruth /\ NewIsNew /\ Progress /\ Fresh

-----------------------------------------------------------------------------
(* The commands: Postgres only moves forward, and an event says what was committed *)

\* No version is lost, moves back or loses its artifact, and the model's life goes one way.
Forward ==
    /\ DOMAIN rows \subseteq DOMAIN rows'
    /\ \A v \in DOMAIN rows :
        MayFollow(rows'[v].stage, rows[v].stage) /\ (rows[v].status = "ready" => rows'[v].status = "ready")
    /\ model = "archived" => model' = "archived"
    /\ model # "none" => model' # "none"

\* What every command does: a forward move, and at most one event, which says what is so.
Announced(e) == Forward /\ e \in LogEvents /\ Emit(e) /\ (EventTrue(e))'
Silent       == Forward /\ UNCHANGED <<model, log, tries, pending, redis, at, last, clean, dead, projFaults>>

LEMMA MayFollowTransitive ==
    ASSUME NEW a, NEW b \in Stages, NEW c, MayFollow(b, a), MayFollow(c, b)
    PROVE  MayFollow(c, a)
  BY DEF MayFollow, Stages

LEMMA RowFields ==
    ASSUME TruthTypeOK, NEW v \in DOMAIN rows
    PROVE  /\ v \in ModelVersions /\ v # NoVersion
           /\ rows[v].stage \in Stages /\ rows[v].status \in Statuses
           /\ \A x : [rows[v] EXCEPT !.stage = x] = [stage |-> x, status |-> rows[v].status]
           /\ \A x : [rows[v] EXCEPT !.status = x] = [stage |-> rows[v].stage, status |-> x]
  BY VersionsAssumption DEF TruthTypeOK

\* The version in production, if there is one.
LEMMA IncumbentIs ==
    ASSUME Incumbent(rows) # NoVersion
    PROVE  Incumbent(rows) \in DOMAIN rows /\ rows[Incumbent(rows)].stage = "production"
<1>1. Production(rows) # {} /\ Incumbent(rows) = CHOOSE v \in Production(rows) : TRUE
  BY DEF Incumbent
<1>2. Incumbent(rows) \in Production(rows)
  BY <1>1, Zenon
<1> QED BY <1>2 DEF Production

LEMMA RegisterStep ==
    ASSUME TruthTypeOK, RegisterModel
    PROVE  /\ model = "none" /\ model' = "active" /\ rows' = rows /\ DOMAIN rows = {}
           /\ Announced(Event("registered", NoVersion, "dev", NoVersion))
<1> DEFINE e == Event("registered", NoVersion, "dev", NoVersion)
<1>1. model = "none" /\ model' = "active" /\ rows' = rows /\ DOMAIN rows = {} /\ Emit(e)
  BY DEF RegisterModel, TruthTypeOK
<1>2. e \in LogEvents /\ e.subject = "registered"
  BY DEF Event, LogEvents, Subjects, Stages
<1>3. Forward
  BY <1>1 DEF Forward
<1>4. EventTrue(e)'
  BY <1>1, <1>2 DEF EventTrue
<1> QED BY <1>1, <1>2, <1>3, <1>4 DEF Announced

LEMMA CreateStep ==
    ASSUME TruthTypeOK, NEW v \in ModelVersions, CreateVersion(v)
    PROVE  /\ model = "active" /\ model' = model /\ v \notin DOMAIN rows /\ DOMAIN rows' = DOMAIN rows \cup {v}
           /\ rows'[v] = [stage |-> "dev", status |-> "pending"] /\ \A w \in DOMAIN rows : rows'[w] = rows[w]
           /\ Announced(Event("created", v, "dev", NoVersion))
           /\ rows' \in [DOMAIN rows' -> [stage : Stages, status : Statuses]]
<1> DEFINE e == Event("created", v, "dev", NoVersion)
<1>1. model = "active" /\ model' = model /\ v \notin DOMAIN rows /\ Emit(e)
  BY DEF CreateVersion
<1>2. rows' = [w \in DOMAIN rows \cup {v} |-> IF w = v THEN [stage |-> "dev", status |-> "pending"] ELSE rows[w]]
  BY DEF CreateVersion
<1>3. /\ DOMAIN rows' = DOMAIN rows \cup {v}
      /\ rows'[v] = [stage |-> "dev", status |-> "pending"] /\ \A w \in DOMAIN rows : rows'[w] = rows[w]
  BY <1>1, <1>2
<1>4. rows' \in [DOMAIN rows' -> [stage : Stages, status : Statuses]]
  <2>1. [stage |-> "dev", status |-> "pending"] \in [stage : Stages, status : Statuses]
    BY DEF Stages, Statuses
  <2>2. \A w \in DOMAIN rows : rows[w] \in [stage : Stages, status : Statuses]
    BY DEF TruthTypeOK
  <2>3. \A w \in DOMAIN rows' : rows'[w] \in [stage : Stages, status : Statuses]
    BY <1>3, <2>1, <2>2
  <2>4. rows' = [w \in DOMAIN rows' |-> rows'[w]]
    BY <1>2
  <2> QED BY <2>3, <2>4
<1>5. e \in LogEvents /\ e.subject = "created" /\ e.v = v
  BY DEF Event, LogEvents, Subjects, Stages
<1>6. Forward
  BY <1>1, <1>3 DEF Forward, MayFollow
<1>7. EventTrue(e)'
  BY <1>3, <1>5 DEF EventTrue
<1> QED BY <1>1, <1>3, <1>4, <1>5, <1>6, <1>7 DEF Announced

\* One version's artifact is settled.
LEMMA SettleRow ==
    ASSUME TruthTypeOK, NEW v \in DOMAIN rows, NEW x \in Statuses, rows[v].status = "pending",
           rows' = [rows EXCEPT ![v].status = x], model' = model
    PROVE  /\ DOMAIN rows' = DOMAIN rows /\ rows'[v] = [stage |-> rows[v].stage, status |-> x]
           /\ \A w \in DOMAIN rows : w # v => rows'[w] = rows[w]
           /\ rows' \in [DOMAIN rows' -> [stage : Stages, status : Statuses]] /\ Forward
<1>1. rows[v].stage \in Stages /\ [rows[v] EXCEPT !.status = x] = [stage |-> rows[v].stage, status |-> x]
  BY RowFields
<1>2. rows' = [rows EXCEPT ![v] = [stage |-> rows[v].stage, status |-> x]]
  BY <1>1
<1>3. /\ DOMAIN rows' = DOMAIN rows /\ rows'[v] = [stage |-> rows[v].stage, status |-> x]
      /\ \A w \in DOMAIN rows : w # v => rows'[w] = rows[w]
  BY <1>2
<1>4. rows' \in [DOMAIN rows' -> [stage : Stages, status : Statuses]]
  BY <1>1, <1>2 DEF TruthTypeOK
<1>5. Forward
  BY <1>3 DEF Forward, MayFollow
<1> QED BY <1>3, <1>4, <1>5

LEMMA ReadyStep ==
    ASSUME TruthTypeOK, NEW v \in ModelVersions, MarkVersionReady(v)
    PROVE  /\ v \in DOMAIN rows /\ rows[v].status = "pending" /\ model' = model /\ DOMAIN rows' = DOMAIN rows
           /\ rows'[v] = [stage |-> rows[v].stage, status |-> "ready"]
           /\ \A w \in DOMAIN rows : w # v => rows'[w] = rows[w]
           /\ Announced(Event("ready", v, "dev", NoVersion))
           /\ rows' \in [DOMAIN rows' -> [stage : Stages, status : Statuses]]
<1> DEFINE e == Event("ready", v, "dev", NoVersion)
<1>1. v \in DOMAIN rows /\ rows[v].status = "pending" /\ model' = model /\ Emit(e)
      /\ rows' = [rows EXCEPT ![v].status = "ready"]
  BY DEF MarkVersionReady
<1>2. e \in LogEvents /\ e.subject = "ready" /\ e.v = v
  BY DEF Event, LogEvents, Subjects, Stages
<1>3. "ready" \in Statuses
  BY DEF Statuses
<1>4. /\ DOMAIN rows' = DOMAIN rows /\ rows'[v] = [stage |-> rows[v].stage, status |-> "ready"]
      /\ \A w \in DOMAIN rows : w # v => rows'[w] = rows[w]
      /\ rows' \in [DOMAIN rows' -> [stage : Stages, status : Statuses]] /\ Forward
  BY <1>1, <1>3, SettleRow
<1>5. EventTrue(e)'
  BY <1>1, <1>2, <1>4 DEF EventTrue
<1> QED BY <1>1, <1>2, <1>4, <1>5 DEF Announced

LEMMA FailStep ==
    ASSUME TruthTypeOK, NEW v \in ModelVersions, MarkVersionFailed(v)
    PROVE  /\ v \in DOMAIN rows /\ rows[v].status = "pending" /\ model' = model /\ DOMAIN rows' = DOMAIN rows
           /\ rows'[v] = [stage |-> rows[v].stage, status |-> "failed"]
           /\ \A w \in DOMAIN rows : w # v => rows'[w] = rows[w]
           /\ Silent
           /\ rows' \in [DOMAIN rows' -> [stage : Stages, status : Statuses]]
<1>1. v \in DOMAIN rows /\ rows[v].status = "pending" /\ rows' = [rows EXCEPT ![v].status = "failed"]
      /\ UNCHANGED <<model, log, tries, pending, redis, at, last, clean, dead, projFaults>>
  BY DEF MarkVersionFailed
<1>3. "failed" \in Statuses /\ model' = model
  BY <1>1 DEF Statuses
<1>4. /\ DOMAIN rows' = DOMAIN rows /\ rows'[v] = [stage |-> rows[v].stage, status |-> "failed"]
      /\ \A w \in DOMAIN rows : w # v => rows'[w] = rows[w]
      /\ rows' \in [DOMAIN rows' -> [stage : Stages, status : Statuses]] /\ Forward
  BY <1>1, <1>3, SettleRow
<1> QED BY <1>1, <1>3, <1>4 DEF Silent

\* The stage a promotion leaves a version at.
Promoted(v, to, d, w) == IF w = v THEN to ELSE IF w = d THEN "archived" ELSE rows[w].stage

LEMMA PromoteStep ==
    ASSUME TruthTypeOK, NEW v \in ModelVersions, NEW to \in Stages, PromoteVersion(v, to)
    PROVE  \E d \in ModelVersions \cup {NoVersion} :
           /\ d = (IF to = "production" THEN Incumbent(rows) ELSE NoVersion) /\ d # v
           /\ v \in DOMAIN rows /\ to # "dev" /\ Promotable(rows[v], to) /\ model' = model /\ DOMAIN rows' = DOMAIN rows
           /\ \A w \in DOMAIN rows : rows'[w] = [stage |-> Promoted(v, to, d, w), status |-> rows[w].status]
           /\ Announced(Event("promoted", v, to, d))
           /\ rows' \in [DOMAIN rows' -> [stage : Stages, status : Statuses]]
<1>0. PICK d : d = IF to = "production" THEN Incumbent(rows) ELSE NoVersion
  OBVIOUS
<1> DEFINE e == Event("promoted", v, to, d)
<1>1. v \in DOMAIN rows /\ Promotable(rows[v], to) /\ model' = model
  BY DEF PromoteVersion
<1>2. /\ rows' = [w \in DOMAIN rows |-> IF w = v THEN [rows[w] EXCEPT !.stage = to]
                                        ELSE IF w = d THEN [rows[w] EXCEPT !.stage = "archived"] ELSE rows[w]]
      /\ Emit(e)
  BY <1>0 DEF PromoteVersion
<1>3. d # NoVersion => d \in DOMAIN rows /\ rows[d].stage = "production" /\ to = "production"
  BY <1>0, IncumbentIs
<1>4. v # NoVersion /\ to # "dev" /\ MayFollow(to, rows[v].stage)
      /\ (to = "production" => rows[v].stage = "staging")
  BY <1>1, RowFields DEF Promotable, CanTransitionTo, MayFollow, Stages
<1>5. d # v /\ d \in ModelVersions \cup {NoVersion}
  BY <1>3, <1>4, RowFields
<1>6. DOMAIN rows' = DOMAIN rows
      /\ \A w \in DOMAIN rows : rows'[w] = [stage |-> Promoted(v, to, d, w), status |-> rows[w].status]
  <2>1. DOMAIN rows' = DOMAIN rows
    BY <1>2
  <2>2. ASSUME NEW w \in DOMAIN rows
        PROVE  rows'[w] = [stage |-> Promoted(v, to, d, w), status |-> rows[w].status]
    <3>1. rows'[w] = IF w = v THEN [rows[w] EXCEPT !.stage = to]
                     ELSE IF w = d THEN [rows[w] EXCEPT !.stage = "archived"] ELSE rows[w]
      BY <1>2
    <3>2. /\ [rows[w] EXCEPT !.stage = to] = [stage |-> to, status |-> rows[w].status]
          /\ [rows[w] EXCEPT !.stage = "archived"] = [stage |-> "archived", status |-> rows[w].status]
      BY RowFields
    <3>3. rows[w] = [stage |-> rows[w].stage, status |-> rows[w].status]
      BY DEF TruthTypeOK
    <3> QED BY <3>1, <3>2, <3>3 DEF Promoted
  <2> QED BY <2>1, <2>2
<1>7. \A w \in DOMAIN rows : Promoted(v, to, d, w) \in Stages /\ rows[w].status \in Statuses
  BY RowFields DEF Promoted, Stages
<1>8. rows' \in [DOMAIN rows' -> [stage : Stages, status : Statuses]]
  <2>1. \A w \in DOMAIN rows' : rows'[w] \in [stage : Stages, status : Statuses]
    BY <1>6, <1>7
  <2>2. rows' = [w \in DOMAIN rows' |-> rows'[w]]
    BY <1>2
  <2> QED BY <2>1, <2>2
<1>9. e \in LogEvents /\ e.subject = "promoted" /\ e.v = v /\ e.to = to /\ e.demoted = d
  BY <1>5 DEF Event, LogEvents, Subjects
<1>10. Forward
  <2>1. \A w \in DOMAIN rows : MayFollow(Promoted(v, to, d, w), rows[w].stage)
    BY <1>4 DEF Promoted, MayFollow
  <2> QED BY <2>1, <1>1, <1>6 DEF Forward
<1>11. EventTrue(e)'
  <2>1. rows'[v].stage = to /\ MayFollow(to, to)
    BY <1>1, <1>4, <1>6 DEF Promoted, MayFollow
  <2>2. d # NoVersion => d \in DOMAIN rows' /\ rows'[d].stage = "archived"
    BY <1>3, <1>5, <1>6 DEF Promoted
  <2>3. v \in DOMAIN rows'
    BY <1>1, <1>6
  <2> HIDE DEF e
  <2> QED BY <1>3, <1>4, <1>5, <1>9, <2>1, <2>2, <2>3 DEF EventTrue
<1>12. Announced(e)
  BY <1>2, <1>9, <1>10, <1>11 DEF Announced
<1> QED BY <1>0, <1>1, <1>4, <1>5, <1>6, <1>8, <1>12

LEMMA ArchiveStep ==
    ASSUME TruthTypeOK, ArchiveModel
    PROVE  /\ model = "active" /\ model' = "archived" /\ DOMAIN rows' = DOMAIN rows
           /\ \A w \in DOMAIN rows : rows'[w] = [stage |-> "archived", status |-> rows[w].status]
           /\ Announced(Event("archived", NoVersion, "archived", NoVersion))
           /\ rows' \in [DOMAIN rows' -> [stage : Stages, status : Statuses]]
<1> DEFINE e == Event("archived", NoVersion, "archived", NoVersion)
<1>1. model = "active" /\ model' = "archived" /\ Emit(e)
      /\ rows' = [v \in DOMAIN rows |-> [rows[v] EXCEPT !.stage = "archived"]]
  BY DEF ArchiveModel
<1>2. DOMAIN rows' = DOMAIN rows
      /\ \A w \in DOMAIN rows : rows'[w] = [stage |-> "archived", status |-> rows[w].status]
  BY <1>1, RowFields
<1>3. rows' \in [DOMAIN rows' -> [stage : Stages, status : Statuses]]
  <2>1. "archived" \in Stages /\ \A w \in DOMAIN rows : rows[w].status \in Statuses
    BY RowFields DEF Stages
  <2>2. \A w \in DOMAIN rows' : rows'[w] \in [stage : Stages, status : Statuses]
    BY <1>2, <2>1
  <2>3. rows' = [w \in DOMAIN rows' |-> rows'[w]]
    BY <1>1
  <2> QED BY <2>2, <2>3
<1>4. e \in LogEvents /\ e.subject = "archived"
  BY DEF Event, LogEvents, Subjects, Stages
<1>5. Forward
  BY <1>1, <1>2 DEF Forward, MayFollow
<1>6. EventTrue(e)'
  BY <1>1, <1>4 DEF EventTrue
<1> QED BY <1>1, <1>2, <1>3, <1>4, <1>5, <1>6 DEF Announced

\* Postgres after a command has its type.
LEMMA TruthTyped ==
    ASSUME model' \in {"active", "archived"} \/ (model' = model /\ model # "none"), DOMAIN rows' \subseteq ModelVersions,
           rows' \in [DOMAIN rows' -> [stage : Stages, status : Statuses]], TruthTypeOK, log' \in Seq(LogEvents)
    PROVE  TruthTypeOK'
  BY DEF TruthTypeOK

\* An event is logged, or is lost, which ends the clean history.
Sent(e) ==
    /\ Len(log') = Len(log) + 1 /\ DOMAIN log' = DOMAIN log \cup {Len(log) + 1} /\ Len(log) + 1 \notin DOMAIN log
    /\ log'[Len(log) + 1] = e /\ \A i \in DOMAIN log : log'[i] = log[i] /\ i < Len(log) + 1
    /\ tries'[Len(log) + 1] = 0 /\ \A i \in DOMAIN log : tries'[i] = tries[i]
    /\ pending' = pending \cup {Len(log) + 1} /\ clean' = clean /\ projFaults' = projFaults
NotSent ==
    log' = log /\ tries' = tries /\ pending' = pending /\ clean' = FALSE /\ projFaults' = projFaults + 1

LEMMA EmitStep ==
    ASSUME TruthTypeOK, QueueTypeOK, NEW e \in LogEvents, Emit(e)
    PROVE  /\ m' = m /\ vs' = vs /\ at' = at /\ last' = last
           /\ log' \in Seq(LogEvents) /\ QueueTypeOK' /\ (Sent(e) \/ NotSent)
<1> USE DEF TruthTypeOK, QueueTypeOK
<1>1. m' = m /\ vs' = vs /\ at' = at /\ last' = last
  BY DEF Emit, redis
<1>2. CASE /\ log' = Append(log, e) /\ tries' = Append(tries, 0) /\ pending' = pending \cup {Len(log) + 1}
           /\ projFaults' = projFaults /\ clean' = clean
  <2>1. log' \in Seq(LogEvents) /\ tries' \in Seq(Nat)
    BY <1>2
  <2>2. Len(log') = Len(log) + 1 /\ DOMAIN log' = DOMAIN log \cup {Len(log) + 1} /\ Len(log) + 1 \notin DOMAIN log
        /\ \A i \in DOMAIN log : i < Len(log) + 1
    BY <1>2
  <2>3. log'[Len(log) + 1] = e /\ \A i \in DOMAIN log : log'[i] = log[i]
    BY <1>2
  <2>4. tries'[Len(log) + 1] = 0 /\ \A i \in DOMAIN log : tries'[i] = tries[i]
    BY <1>2
  <2>5. Len(tries') = Len(log')
    BY <1>2
  <2>6. QueueTypeOK'
    BY <1>1, <1>2, <2>1, <2>2, <2>5
  <2> QED BY <1>1, <1>2, <2>1, <2>2, <2>3, <2>4, <2>6 DEF Sent
<1>3. CASE Fault /\ clean' = FALSE /\ UNCHANGED <<log, tries, pending>>
  <2>1. NotSent
    BY <1>3 DEF NotSent, Fault
  <2>2. projFaults' \in Nat /\ projFaults' <= MaxProjFaults
    BY <1>3, BoundsAssumption DEF Fault
  <2>3. QueueTypeOK'
    BY <1>1, <1>3, <2>2
  <2> QED BY <1>1, <1>3, <2>1, <2>3
<1>4. \/ /\ log' = Append(log, e) /\ tries' = Append(tries, 0) /\ pending' = pending \cup {Len(log) + 1}
         /\ projFaults' = projFaults /\ clean' = clean
      \/ Fault /\ clean' = FALSE /\ UNCHANGED <<log, tries, pending>>
  BY DEF Emit
<1> QED BY <1>2, <1>3, <1>4

\* A command is a forward move that is announced, or the silent failure of an upload.
LEMMA CommandStep ==
    ASSUME TruthTypeOK, QueueTypeOK, Commands
    PROVE  TruthTypeOK' /\ ((\E e : Announced(e)) \/ Silent)
<1>1. ASSUME NEW e, Announced(e) PROVE log' \in Seq(LogEvents)
  BY <1>1, EmitStep DEF Announced
<1>2. CASE RegisterModel
  BY <1>1, <1>2, RegisterStep, TruthTyped DEF TruthTypeOK
<1>3. CASE ArchiveModel
  BY <1>1, <1>3, ArchiveStep, TruthTyped DEF TruthTypeOK
<1>4. ASSUME NEW v \in ModelVersions, CreateVersion(v) PROVE TruthTypeOK' /\ \E e : Announced(e)
  BY <1>1, <1>4, CreateStep, TruthTyped DEF TruthTypeOK
<1>5. ASSUME NEW v \in ModelVersions, MarkVersionReady(v) PROVE TruthTypeOK' /\ \E e : Announced(e)
  <2>1. model' = model /\ model # "none"
    BY <1>5, ReadyStep DEF TruthTypeOK
  <2> QED BY <2>1, <1>1, <1>5, ReadyStep, TruthTyped DEF TruthTypeOK
<1>6. ASSUME NEW v \in ModelVersions, MarkVersionFailed(v) PROVE TruthTypeOK' /\ Silent
  <2>1. model' = model /\ model # "none" /\ log' = log
    BY <1>6, FailStep DEF TruthTypeOK, Silent
  <2> QED BY <2>1, <1>6, FailStep, TruthTyped DEF TruthTypeOK
<1>7. ASSUME NEW v \in ModelVersions, NEW to \in Stages, PromoteVersion(v, to)
      PROVE  TruthTypeOK' /\ \E e : Announced(e)
  <2>1. PICK d \in ModelVersions \cup {NoVersion} :
           /\ v \in DOMAIN rows /\ model' = model /\ DOMAIN rows' = DOMAIN rows
           /\ Announced(Event("promoted", v, to, d))
           /\ rows' \in [DOMAIN rows' -> [stage : Stages, status : Statuses]]
    BY <1>7, PromoteStep
  <2>2. model # "none"
    BY <2>1 DEF TruthTypeOK
  <2> QED BY <2>1, <2>2, <1>1, TruthTyped DEF TruthTypeOK
<1> QED BY <1>2, <1>3, <1>4, <1>5, <1>6, <1>7 DEF Commands

-----------------------------------------------------------------------------
(* The handlers, call by call *)

LEMMA HashTypes ==
    /\ Absent \in VersionHashes /\ Zero \in VersionHashes /\ NoModel \in ModelHashes
    /\ Absent.stage = "none" /\ Absent.status = "none"
    /\ Zero.stage = "unspecified" /\ Zero.status = "unspecified"
    /\ NoModel = [there |-> FALSE, production |-> NoVersion, latest |-> NoVersion, archived |-> FALSE, updated |-> 0]
  BY DEF Absent, Zero, NoModel, VersionHashes, ModelHashes

LEMMA VersionFields ==
    ASSUME NEW w \in VersionHashes
    PROVE  /\ w = [stage |-> w.stage, status |-> w.status]
           /\ \A x : [w EXCEPT !.stage = x] = [stage |-> x, status |-> w.status]
           /\ \A x : [w EXCEPT !.status = x] = [stage |-> w.stage, status |-> x]
           /\ Base(w) \in VersionHashes /\ (w # Absent => Base(w) = w) /\ (w = Absent => Base(w) = Zero)
  BY HashTypes DEF VersionHashes, Base

LEMMA VersionTyped ==
    ASSUME NEW w \in VersionHashes
    PROVE  /\ \A x \in Stages : [stage |-> x, status |-> w.status] \in VersionHashes
           /\ \A x \in Statuses : [stage |-> w.stage, status |-> x] \in VersionHashes
  BY DEF VersionHashes

\* What a handler that writes the model may set beside the time of its event.
LEMMA ModelFields ==
    ASSUME NEW x \in ModelHashes
    PROVE  /\ x = [there |-> x.there, production |-> x.production, latest |-> x.latest,
                   archived |-> x.archived, updated |-> x.updated]
           /\ x.there \in BOOLEAN /\ x.archived \in BOOLEAN /\ x.updated \in Nat
           /\ x.production \in ModelVersions \cup {NoVersion} /\ x.latest \in ModelVersions \cup {NoVersion}
  BY DEF ModelHashes

\* Handler s is at call l of event i with what it loaded; the others are where they were.
Now(s, l, i, w, x) ==
    /\ at'[s].pc = l /\ at'[s].i = i /\ at'[s].v = w /\ at'[s].m = x
    /\ \A t \in Subjects : t # s => at'[t] = at[t]

LEMMA Handled ==
    ASSUME RedisTypeOK, NEW s \in Subjects, NEW l \in Calls, NEW i \in Nat,
           NEW w \in VersionHashes, NEW x \in ModelHashes, at' = [at EXCEPT ![s] = Handling(l, i, w, x)]
    PROVE  Now(s, l, i, w, x) /\ at' \in [Subjects -> [pc : Calls, i : Nat, v : VersionHashes, m : ModelHashes]]
<1>1. Handling(l, i, w, x) \in [pc : Calls, i : Nat, v : VersionHashes, m : ModelHashes]
  BY DEF Handling
<1>2. at' \in [Subjects -> [pc : Calls, i : Nat, v : VersionHashes, m : ModelHashes]]
  BY <1>1 DEF RedisTypeOK
<1>3. at'[s] = Handling(l, i, w, x) /\ \A t \in Subjects : t # s => at'[t] = at[t]
  BY DEF RedisTypeOK
<1>4. at'[s].pc = l /\ at'[s].i = i /\ at'[s].v = w /\ at'[s].m = x
  BY <1>3 DEF Handling
<1> QED BY <1>2, <1>3, <1>4 DEF Now

\* The state that no handler's call writes.
Stays == /\ model' = model /\ rows' = rows /\ log' = log /\ tries' = tries /\ pending' = pending
         /\ last' = last /\ clean' = clean /\ projFaults' = projFaults

LEMMA MovesStay == ASSUME NEW s, Moves(s) PROVE Stays
  BY DEF Moves, Stays, truth

LEMMA EventFields ==
    ASSUME TruthTypeOK, EventsTrue, NEW s \in Subjects, at[s].i \in DOMAIN log, Ev(s).subject = s
    PROVE  /\ Ev(s) \in LogEvents /\ EventTrue(Ev(s)) /\ Ev(s).to \in Stages
           /\ s \in {"created", "ready", "promoted"} => Ev(s).v \in DOMAIN rows /\ Ev(s).v \in ModelVersions
           /\ s = "promoted" /\ Ev(s).demoted # NoVersion =>
                Ev(s).demoted \in DOMAIN rows /\ Ev(s).demoted \in ModelVersions /\ Ev(s).demoted # Ev(s).v
                /\ Ev(s).to = "production"
<1>1. Ev(s) \in LogEvents /\ EventTrue(Ev(s))
  BY DEF TruthTypeOK, EventsTrue, Ev
<1>2. Ev(s).to \in Stages
  BY <1>1 DEF LogEvents
<1> QED BY <1>1, <1>2 DEF EventTrue, TruthTypeOK

LEMMA RegisteredStep ==
    ASSUME BehindInv, UpsertRegistered
    PROVE  /\ Stays /\ vs' = vs /\ at["registered"].pc = "load"
           /\ m' = [there |-> TRUE, production |-> NoVersion, latest |-> NoVersion, archived |-> FALSE,
                    updated |-> at["registered"].i]
           /\ Now("registered", "ack", at["registered"].i, Absent, NoModel) /\ RedisTypeOK'
<1> DEFINE i == at["registered"].i
<1>1. Stays /\ vs' = vs /\ at["registered"].pc = "load"
  BY MovesStay DEF UpsertRegistered
<1>2. i \in Nat /\ "registered" \in Subjects /\ "ack" \in Calls
  BY DEF BehindInv, RedisTypeOK, Subjects, Calls
<1>3. m' = [there |-> TRUE, production |-> NoVersion, latest |-> NoVersion, archived |-> FALSE, updated |-> i]
  BY DEF UpsertRegistered, NoModel
<1>4. m' \in ModelHashes
  BY <1>2, <1>3 DEF ModelHashes
<1>5. at' = [at EXCEPT !["registered"] = Handling("ack", i, Absent, NoModel)]
  BY DEF UpsertRegistered, Goto
<1>6. /\ Now("registered", "ack", i, Absent, NoModel)
      /\ at' \in [Subjects -> [pc : Calls, i : Nat, v : VersionHashes, m : ModelHashes]]
  BY <1>2, <1>5, HashTypes, Handled DEF BehindInv
<1> QED BY <1>1, <1>3, <1>4, <1>6 DEF BehindInv, RedisTypeOK

LEMMA LoadVersionStep ==
    ASSUME BehindInv, NEW s \in Subjects, LoadVersion(s)
    PROVE  /\ Stays /\ vs' = vs /\ m' = m /\ s \in {"created", "ready", "promoted"} /\ at[s].pc = "load"
           /\ at[s].i \in DOMAIN log /\ Ev(s).subject = s /\ Ev(s).v \in ModelVersions
           /\ Now(s, "put", at[s].i, vs[Ev(s).v], NoModel) /\ RedisTypeOK'
<1>1. Stays /\ vs' = vs /\ m' = m /\ s \in {"created", "ready", "promoted"} /\ at[s].pc = "load"
  BY MovesStay DEF LoadVersion, redis
<1>2. at[s].i \in DOMAIN log /\ Ev(s).subject = s
  BY <1>1 DEF BehindInv, HandlersOK, HandlerOK
<1>3. Ev(s).v \in ModelVersions
  BY <1>1, <1>2, EventFields DEF BehindInv
<1>4. at[s].i \in Nat /\ vs[Ev(s).v] \in VersionHashes /\ "put" \in Calls
  BY <1>3 DEF BehindInv, RedisTypeOK, Calls
<1>5. at' = [at EXCEPT ![s] = Handling("put", at[s].i, vs[Ev(s).v], NoModel)]
  BY DEF LoadVersion
<1>6. /\ Now(s, "put", at[s].i, vs[Ev(s).v], NoModel)
      /\ at' \in [Subjects -> [pc : Calls, i : Nat, v : VersionHashes, m : ModelHashes]]
  BY <1>4, <1>5, HashTypes, Handled DEF BehindInv
<1> QED BY <1>1, <1>2, <1>3, <1>6 DEF BehindInv, RedisTypeOK

\* What the three handlers of a version write, and where they go on.
VersionWritten(s, x) ==
    /\ s = "created" /\ at[s].v # Absent => vs' = vs
    /\ s = "created" /\ at[s].v = Absent => vs'[x] = [stage |-> "dev", status |-> "pending"]
    /\ s = "ready" => vs'[x] = [stage |-> Base(at[s].v).stage, status |-> "ready"]
    /\ s = "promoted" => vs'[x] = [stage |-> Ev(s).to, status |-> Base(at[s].v).status]
    /\ \A u \in ModelVersions : u # x => vs'[u] = vs[u]

GoesTo(s, l) ==
    /\ s = "created" => l = "model"
    /\ s = "ready" => l = "ack"
    /\ s = "promoted" /\ Ev(s).demoted # NoVersion => l = "loadDemoted"
    /\ s = "promoted" /\ Ev(s).demoted = NoVersion => l = IF Ev(s).to = "production" THEN "model" ELSE "ack"

LEMMA UpsertVersionStep ==
    ASSUME BehindInv, NEW s \in Subjects, UpsertVersion(s)
    PROVE  /\ Stays /\ m' = m /\ s \in {"created", "ready", "promoted"} /\ at[s].pc = "put"
           /\ at[s].i \in DOMAIN log /\ Ev(s).subject = s /\ Ev(s).v \in ModelVersions
           /\ VersionWritten(s, Ev(s).v)
           /\ \E l \in Calls : GoesTo(s, l) /\ Now(s, l, at[s].i, Absent, NoModel)
           /\ RedisTypeOK'
<1>1. Stays /\ m' = m /\ at[s].pc = "put"
  BY MovesStay DEF UpsertVersion
<1>2. at[s].i \in DOMAIN log /\ Ev(s).subject = s /\ s \in {"created", "ready", "promoted"}
  BY <1>1 DEF BehindInv, HandlersOK, HandlerOK
<1>3. Ev(s).v \in ModelVersions /\ Ev(s).to \in Stages
  BY <1>2, EventFields DEF BehindInv
<1>4. at[s].i \in Nat /\ at[s].v \in VersionHashes /\ vs \in [ModelVersions -> VersionHashes]
  BY DEF BehindInv, RedisTypeOK
<1>5. vs' = IF s = "created" /\ at[s].v # Absent THEN vs ELSE [vs EXCEPT ![Ev(s).v] = Merged(s)]
  BY DEF UpsertVersion
<1>6. /\ s = "created" /\ at[s].v = Absent => Merged(s) = [stage |-> "dev", status |-> "pending"]
      /\ s = "ready" => Merged(s) = [stage |-> Base(at[s].v).stage, status |-> "ready"]
      /\ s = "promoted" => Merged(s) = [stage |-> Ev(s).to, status |-> Base(at[s].v).status]
  <2>1. Base(at[s].v) \in VersionHashes
    BY <1>4, VersionFields
  <2>2. /\ \A x : [Base(at[s].v) EXCEPT !.stage = x] = [stage |-> x, status |-> Base(at[s].v).status]
        /\ \A x : [Base(at[s].v) EXCEPT !.status = x] = [stage |-> Base(at[s].v).stage, status |-> x]
    BY <2>1, VersionFields
  <2>3. s = "created" /\ at[s].v = Absent => Merged(s) = [stage |-> "dev", status |-> "pending"]
    BY DEF Merged
  <2>4. s = "ready" => Merged(s) = [Base(at[s].v) EXCEPT !.status = "ready"]
    BY DEF Merged
  <2>5. s = "promoted" => Merged(s) = [Base(at[s].v) EXCEPT !.stage = Ev(s).to]
    BY DEF Merged
  <2>6. s = "ready" => Merged(s) = [stage |-> Base(at[s].v).stage, status |-> "ready"]
    BY <2>2, <2>4
  <2>7. s = "promoted" => Merged(s) = [stage |-> Ev(s).to, status |-> Base(at[s].v).status]
    BY <2>2, <2>5
  <2> QED BY <2>3, <2>6, <2>7
<1>7. ~(s = "created" /\ at[s].v # Absent) => Merged(s) \in VersionHashes
  <2>1. Base(at[s].v) \in VersionHashes /\ [stage |-> "dev", status |-> "pending"] \in VersionHashes
    BY <1>4, VersionFields DEF VersionHashes, Stages, Statuses
  <2>2. "ready" \in Statuses
    BY DEF Statuses
  <2> QED BY <1>2, <1>3, <1>6, <2>1, <2>2, VersionTyped
<1>8. vs' \in [ModelVersions -> VersionHashes]
  BY <1>3, <1>4, <1>5, <1>7
<1>9. VersionWritten(s, Ev(s).v)
  <2>1. CASE s = "created" /\ at[s].v # Absent
    BY <2>1, <1>5 DEF VersionWritten
  <2>2. CASE ~(s = "created" /\ at[s].v # Absent)
    <3>1. vs'[Ev(s).v] = Merged(s) /\ \A u \in ModelVersions : u # Ev(s).v => vs'[u] = vs[u]
      BY <2>2, <1>3, <1>4, <1>5
    <3> QED BY <2>2, <3>1, <1>6 DEF VersionWritten
  <2> QED BY <2>1, <2>2
<1>10. PICK l : l = Settles(s)
  OBVIOUS
<1>11. GoesTo(s, l) /\ l \in Calls
  <2>1. CASE s = "created"
    BY <2>1, <1>10 DEF GoesTo, Settles, Calls
  <2>2. CASE s = "ready"
    BY <2>2, <1>10 DEF GoesTo, Settles, Calls
  <2>3. CASE s = "promoted" /\ Ev(s).demoted # NoVersion
    BY <2>3, <1>10 DEF GoesTo, Settles, Calls
  <2>4. CASE s = "promoted" /\ Ev(s).demoted = NoVersion
    <3>1. l = IF Ev(s).to = "production" THEN "model" ELSE "ack"
      BY <2>4, <1>10 DEF Settles
    <3> QED BY <2>4, <3>1 DEF GoesTo, Calls
  <2> QED BY <1>2, <2>1, <2>2, <2>3, <2>4
<1>12. at' = [at EXCEPT ![s] = Handling(l, at[s].i, Absent, NoModel)]
  BY <1>10 DEF UpsertVersion, Goto
<1>13. /\ Now(s, l, at[s].i, Absent, NoModel)
       /\ at' \in [Subjects -> [pc : Calls, i : Nat, v : VersionHashes, m : ModelHashes]]
  BY <1>4, <1>11, <1>12, HashTypes, Handled DEF BehindInv
<1>14. RedisTypeOK'
  BY <1>1, <1>8, <1>13 DEF BehindInv, RedisTypeOK
<1> QED BY <1>1, <1>2, <1>3, <1>9, <1>11, <1>13, <1>14

LEMMA LoadDemotedStep ==
    ASSUME BehindInv, LoadDemoted
    PROVE  /\ Stays /\ vs' = vs /\ m' = m /\ at["promoted"].pc = "loadDemoted"
           /\ at["promoted"].i \in DOMAIN log /\ Ev("promoted").subject = "promoted"
           /\ Ev("promoted").demoted \in ModelVersions /\ Ev("promoted").demoted # NoVersion
           /\ Now("promoted", "putDemoted", at["promoted"].i, vs[Ev("promoted").demoted], NoModel) /\ RedisTypeOK'
<1> DEFINE i == at["promoted"].i
<1> DEFINE w == vs[Ev("promoted").demoted]
<1>1. Stays /\ vs' = vs /\ m' = m /\ at["promoted"].pc = "loadDemoted" /\ "promoted" \in Subjects
  BY MovesStay DEF LoadDemoted, redis, Subjects
<1>2. i \in DOMAIN log /\ Ev("promoted").subject = "promoted" /\ Ev("promoted").demoted # NoVersion
  BY <1>1 DEF BehindInv, HandlersOK, HandlerOK
<1>3. Ev("promoted").demoted \in ModelVersions
  BY <1>1, <1>2, EventFields DEF BehindInv
<1>4. i \in Nat /\ w \in VersionHashes /\ "putDemoted" \in Calls
  BY <1>1, <1>3 DEF BehindInv, RedisTypeOK, Calls
<1>5. at' = [at EXCEPT !["promoted"] = Handling("putDemoted", i, w, NoModel)]
  BY DEF LoadDemoted
<1>6. /\ Now("promoted", "putDemoted", i, w, NoModel)
      /\ at' \in [Subjects -> [pc : Calls, i : Nat, v : VersionHashes, m : ModelHashes]]
  BY <1>1, <1>4, <1>5, HashTypes, Handled DEF BehindInv
<1> QED BY <1>1, <1>2, <1>3, <1>6 DEF BehindInv, RedisTypeOK

LEMMA UpsertDemotedStep ==
    ASSUME BehindInv, UpsertDemoted
    PROVE  /\ Stays /\ m' = m /\ at["promoted"].pc = "putDemoted"
           /\ at["promoted"].i \in DOMAIN log /\ Ev("promoted").subject = "promoted"
           /\ Ev("promoted").demoted \in ModelVersions /\ Ev("promoted").demoted # NoVersion
           /\ vs'[Ev("promoted").demoted] = [stage |-> "archived", status |-> Base(at["promoted"].v).status]
           /\ \A u \in ModelVersions : u # Ev("promoted").demoted => vs'[u] = vs[u]
           /\ Now("promoted", "model", at["promoted"].i, Absent, NoModel) /\ RedisTypeOK'
<1> DEFINE i == at["promoted"].i
<1> DEFINE w == at["promoted"].v
<1> DEFINE x == Ev("promoted").demoted
<1>1. Stays /\ m' = m /\ at["promoted"].pc = "putDemoted" /\ "promoted" \in Subjects
  BY MovesStay DEF UpsertDemoted, Subjects
<1>2. i \in DOMAIN log /\ Ev("promoted").subject = "promoted" /\ x # NoVersion
  BY <1>1 DEF BehindInv, HandlersOK, HandlerOK
<1>3. x \in ModelVersions
  BY <1>1, <1>2, EventFields DEF BehindInv
<1>4. i \in Nat /\ w \in VersionHashes /\ "model" \in Calls /\ vs \in [ModelVersions -> VersionHashes]
  BY <1>1 DEF BehindInv, RedisTypeOK, Calls
<1>5. vs' = [vs EXCEPT ![x] = Demoted(w)]
  BY DEF UpsertDemoted
<1>6. Base(w) \in VersionHashes
  BY <1>4, VersionFields
<1>7. Demoted(w) = [stage |-> "archived", status |-> Base(w).status]
  BY <1>6, VersionFields DEF Demoted
<1>8. Demoted(w) \in VersionHashes
  BY <1>6, <1>7, VersionTyped DEF Stages
<1>9. vs' \in [ModelVersions -> VersionHashes] /\ vs'[x] = Demoted(w)
      /\ \A u \in ModelVersions : u # x => vs'[u] = vs[u]
  BY <1>3, <1>4, <1>5, <1>8
<1>10. at' = [at EXCEPT !["promoted"] = Handling("model", i, Absent, NoModel)]
  BY DEF UpsertDemoted, Goto
<1>11. /\ Now("promoted", "model", i, Absent, NoModel)
       /\ at' \in [Subjects -> [pc : Calls, i : Nat, v : VersionHashes, m : ModelHashes]]
  BY <1>1, <1>4, <1>10, HashTypes, Handled DEF BehindInv
<1>12. RedisTypeOK'
  BY <1>1, <1>9, <1>11 DEF BehindInv, RedisTypeOK
<1> QED BY <1>1, <1>2, <1>3, <1>7, <1>9, <1>11, <1>12

\* The model was there: its hash is loaded, or the created event is older than it.
ModelLoaded(s) ==
    /\ Stays /\ vs' = vs /\ m' = m /\ m.there
    /\ s \in {"created", "promoted", "archived"} /\ at[s].i \in DOMAIN log /\ Ev(s).subject = s
    /\ at[s].pc = IF s = "archived" THEN "load" ELSE "model"
    /\ \/ s = "created" /\ at[s].i < m.updated /\ Now(s, "ack", at[s].i, Absent, NoModel)
       \/ ~(s = "created" /\ at[s].i < m.updated) /\ Now(s, "putModel", at[s].i, Absent, m)
    /\ RedisTypeOK'

\* The handlers in S end without an acknowledgement: what was tried for the last time is
\* given up, which ends the clean history.
Ended(S) ==
    /\ \A s \in Subjects : IF s \in S THEN at'[s].pc = "idle" ELSE at'[s] = at[s]
    /\ model' = model /\ rows' = rows /\ log' = log /\ tries' = tries /\ m' = m /\ vs' = vs /\ last' = last
    /\ pending' \subseteq pending
    /\ \A j \in pending : j \notin pending' =>
        tries[j] = MaxDeliver /\ \E s \in S : s \in Subjects /\ at[s].pc # "idle" /\ at[s].i = j
    /\ clean' => clean /\ pending' = pending
    /\ \/ projFaults' = projFaults + 1
       \/ projFaults' = projFaults /\ \A s \in S : at[s].pc = IF s = "archived" THEN "load" ELSE "model"
    /\ RedisTypeOK' /\ QueueTypeOK'

LEMMA ReturnStep ==
    ASSUME BehindInv, NEW I, Return(I), NEW S, I = {at[s].i : s \in {t \in S : at[t].pc # "idle"}},
           S \subseteq Subjects,
           \A s \in Subjects : IF s \in S THEN at'[s].pc = "idle" ELSE at'[s] = at[s],
           at' \in [Subjects -> [pc : Calls, i : Nat, v : VersionHashes, m : ModelHashes]],
           \/ projFaults' = projFaults + 1 /\ projFaults < MaxProjFaults
           \/ projFaults' = projFaults /\ \A s \in S : at[s].pc = IF s = "archived" THEN "load" ELSE "model"
    PROVE  Ended(S)
<1> DEFINE gone == {i \in I : tries[i] = MaxDeliver}
<1>1. pending' = pending \ gone /\ clean' = (clean /\ gone = {}) /\ dead' = dead \cup gone
      /\ UNCHANGED <<truth, tries, redis, last>>
  BY DEF Return
<1>2. model' = model /\ rows' = rows /\ log' = log /\ tries' = tries /\ m' = m /\ vs' = vs /\ last' = last
  BY <1>1 DEF truth, redis
<1>3. \A j \in gone : tries[j] = MaxDeliver /\ \E s \in S : s \in Subjects /\ at[s].pc # "idle" /\ at[s].i = j
  OBVIOUS
<1> HIDE DEF gone
<1>4. pending' \subseteq pending /\ \A j \in pending : j \notin pending' => j \in gone
  BY <1>1
<1>5. clean' \in BOOLEAN /\ (clean' => clean /\ pending' = pending)
  BY <1>1 DEF BehindInv, QueueTypeOK
<1>6. projFaults' \in Nat /\ projFaults' <= MaxProjFaults
  BY BoundsAssumption DEF BehindInv, QueueTypeOK
<1>7. QueueTypeOK'
  BY <1>2, <1>4, <1>5, <1>6 DEF BehindInv, QueueTypeOK
<1>8. RedisTypeOK'
  BY <1>2 DEF BehindInv, RedisTypeOK
<1> QED BY <1>2, <1>3, <1>4, <1>5, <1>7, <1>8 DEF Ended

\* A handler that ends alone.
LEMMA NakStep ==
    ASSUME BehindInv, NEW s \in Subjects, Nak(s), at[s].pc # "idle",
           \/ projFaults' = projFaults + 1 /\ projFaults < MaxProjFaults
           \/ projFaults' = projFaults /\ at[s].pc = IF s = "archived" THEN "load" ELSE "model"
    PROVE  Ended({s})
<1>1. at' = [at EXCEPT ![s] = Handling("idle", 0, Absent, NoModel)] /\ Return({at[s].i})
  BY DEF Nak, Waiting
<1>2. "idle" \in Calls /\ 0 \in Nat
  BY DEF Calls
<1>3. /\ Now(s, "idle", 0, Absent, NoModel)
      /\ at' \in [Subjects -> [pc : Calls, i : Nat, v : VersionHashes, m : ModelHashes]]
  BY <1>1, <1>2, HashTypes, Handled DEF BehindInv
<1>4. \A t \in Subjects : IF t \in {s} THEN at'[t].pc = "idle" ELSE at'[t] = at[t]
  BY <1>3 DEF Now
<1>5. {at[s].i} = {at[u].i : u \in {t \in {s} : at[t].pc # "idle"}}
  OBVIOUS
<1>6. \/ projFaults' = projFaults + 1 /\ projFaults < MaxProjFaults
      \/ projFaults' = projFaults /\ \A u \in {s} : at[u].pc = IF u = "archived" THEN "load" ELSE "model"
  OBVIOUS
<1>7. {s} \subseteq Subjects
  OBVIOUS
<1>8. PICK I : I = {at[s].i}
  OBVIOUS
<1> QED BY <1>1, <1>3, <1>4, <1>5, <1>6, <1>7, <1>8, ReturnStep

LEMMA CrashStep == ASSUME BehindInv, Crash PROVE Ended(Subjects)
<1>1. /\ projFaults' = projFaults + 1 /\ projFaults < MaxProjFaults
      /\ at' = [s \in Subjects |-> Waiting]
      /\ Return({at[s].i : s \in {t \in Subjects : at[t].pc # "idle"}})
  BY DEF Crash, Fault
<1>2. Waiting \in [pc : Calls, i : Nat, v : VersionHashes, m : ModelHashes] /\ Waiting.pc = "idle"
  BY HashTypes DEF Waiting, Handling, Calls
<1>3. at' \in [Subjects -> [pc : Calls, i : Nat, v : VersionHashes, m : ModelHashes]]
      /\ \A s \in Subjects : at'[s].pc = "idle"
  BY <1>1, <1>2
<1>4. PICK I : I = {at[s].i : s \in {t \in Subjects : at[t].pc # "idle"}}
  OBVIOUS
<1> QED BY <1>1, <1>3, <1>4, ReturnStep

LEMMA LoadModelStep ==
    ASSUME BehindInv, NEW s \in Subjects, LoadModel(s)
    PROVE  ModelLoaded(s) \/ Ended({s})
<1>1. at[s].pc = "model" \/ (s = "archived" /\ at[s].pc = "load")
  BY DEF LoadModel
<1>2. /\ s \in {"created", "promoted", "archived"} /\ at[s].i \in DOMAIN log /\ Ev(s).subject = s
      /\ at[s].pc = IF s = "archived" THEN "load" ELSE "model"
  BY <1>1 DEF BehindInv, HandlersOK, HandlerOK
<1>3. CASE ~m.there
  <2>1. Nak(s) /\ projFaults' = projFaults /\ at[s].pc # "idle"
    BY <1>2, <1>3 DEF LoadModel
  <2> QED BY <1>2, <2>1, NakStep
<1>4. CASE m.there
  <2>1. /\ at' = [at EXCEPT ![s] =
                    IF s = "created" /\ at[s].i < m.updated THEN Handling("ack", at[s].i, Absent, NoModel)
                    ELSE Handling("putModel", at[s].i, Absent, m)]
        /\ m' = m /\ vs' = vs /\ Moves(s)
    BY <1>4 DEF LoadModel, redis
  <2>2. at[s].i \in Nat /\ m \in ModelHashes /\ {"ack", "putModel"} \subseteq Calls
    BY DEF BehindInv, RedisTypeOK, Calls
  <2>3. CASE s = "created" /\ at[s].i < m.updated
    <3>1. at' = [at EXCEPT ![s] = Handling("ack", at[s].i, Absent, NoModel)]
      BY <2>1, <2>3
    <3>2. /\ Now(s, "ack", at[s].i, Absent, NoModel)
          /\ at' \in [Subjects -> [pc : Calls, i : Nat, v : VersionHashes, m : ModelHashes]]
      BY <2>2, <3>1, HashTypes, Handled DEF BehindInv
    <3>3. RedisTypeOK'
      BY <2>1, <3>2 DEF BehindInv, RedisTypeOK
    <3> QED BY <1>2, <1>4, <2>1, <2>3, <3>2, <3>3, MovesStay DEF ModelLoaded
  <2>4. CASE ~(s = "created" /\ at[s].i < m.updated)
    <3>1. at' = [at EXCEPT ![s] = Handling("putModel", at[s].i, Absent, m)]
      BY <2>1, <2>4
    <3>2. /\ Now(s, "putModel", at[s].i, Absent, m)
          /\ at' \in [Subjects -> [pc : Calls, i : Nat, v : VersionHashes, m : ModelHashes]]
      BY <2>2, <3>1, HashTypes, Handled DEF BehindInv
    <3>3. RedisTypeOK'
      BY <2>1, <3>2 DEF BehindInv, RedisTypeOK
    <3> QED BY <1>2, <1>4, <2>1, <2>4, <3>2, <3>3, MovesStay DEF ModelLoaded
  <2> QED BY <2>3, <2>4
<1> QED BY <1>3, <1>4

\* One field of the hash that was loaded is overwritten.
ModelWritten(s, x) ==
    m' = [there |-> x.there,
          production |-> IF s = "promoted" THEN Ev(s).v ELSE x.production,
          latest |-> IF s = "created" THEN Ev(s).v ELSE x.latest,
          archived |-> IF s = "archived" THEN TRUE ELSE x.archived,
          updated |-> Later(at[s].i, x.updated)]

ModelKeys == {"there", "production", "latest", "archived", "updated"}

\* Overwriting one field of a hash.
LEMMA ModelUpdates ==
    ASSUME NEW x, x = [a \in ModelKeys |-> x[a]], NEW k \in ModelKeys, NEW n, NEW z
    PROVE  LET y == [[x EXCEPT !.updated = n] EXCEPT ![k] = z]
           IN  y = [a \in ModelKeys |-> IF a = k THEN z ELSE IF a = "updated" THEN n ELSE x[a]]
<1>1. PICK y : y = [x EXCEPT !.updated = n]
  OBVIOUS
<1>2. y = [a \in ModelKeys |-> IF a = "updated" THEN n ELSE x[a]]
  BY <1>1 DEF ModelKeys
<1>3. [y EXCEPT ![k] = z] = [a \in ModelKeys |-> IF a = k THEN z ELSE IF a = "updated" THEN n ELSE x[a]]
  BY <1>2
<1> QED BY <1>1, <1>3, Zenon

LEMMA UpsertModelStep ==
    ASSUME BehindInv, NEW s \in Subjects, UpsertModel(s)
    PROVE  /\ Stays /\ vs' = vs /\ s \in {"created", "promoted", "archived"} /\ at[s].pc = "putModel"
           /\ at[s].i \in DOMAIN log /\ Ev(s).subject = s /\ (s # "archived" => Ev(s).v \in ModelVersions)
           /\ ModelWritten(s, at[s].m) /\ Now(s, "ack", at[s].i, Absent, NoModel) /\ RedisTypeOK'
<1>1. Stays /\ vs' = vs /\ at[s].pc = "putModel"
  BY MovesStay DEF UpsertModel
<1>2. s \in {"created", "promoted", "archived"} /\ at[s].i \in DOMAIN log /\ Ev(s).subject = s
  BY <1>1 DEF BehindInv, HandlersOK, HandlerOK
<1>3. s # "archived" => Ev(s).v \in ModelVersions
  BY <1>2, EventFields DEF BehindInv
<1>4. at[s].i \in Nat /\ at[s].m \in ModelHashes /\ "ack" \in Calls
  BY DEF BehindInv, RedisTypeOK, Calls
<1>5. PICK x : x = at[s].m
  OBVIOUS
<1>6. PICK n : n = Later(at[s].i, x.updated)
  OBVIOUS
<1>7. x = [a \in ModelKeys |-> x[a]] /\ {"latest", "production", "archived"} \subseteq ModelKeys
  BY <1>4, <1>5 DEF ModelHashes, ModelKeys
<1>8. \A k \in ModelKeys : \A z : [[x EXCEPT !.updated = n] EXCEPT ![k] = z] =
           [a \in ModelKeys |-> IF a = k THEN z ELSE IF a = "updated" THEN n ELSE x[a]]
  BY <1>7, ModelUpdates, Zenon
<1>9. m' = CASE s = "created"  -> [[x EXCEPT !.updated = n] EXCEPT !.latest = Ev(s).v]
             [] s = "promoted" -> [[x EXCEPT !.updated = n] EXCEPT !.production = Ev(s).v]
             [] s = "archived" -> [[x EXCEPT !.updated = n] EXCEPT !.archived = TRUE]
  BY <1>5, <1>6, Zenon DEF UpsertModel
<1>10. ModelWritten(s, x)
  <2>1. CASE s = "created"
    <3>1. m' = [[x EXCEPT !.updated = n] EXCEPT !.latest = Ev(s).v]
      BY <2>1, <1>9, Zenon
    <3>2. m' = [a \in ModelKeys |-> IF a = "latest" THEN Ev(s).v ELSE IF a = "updated" THEN n ELSE x[a]]
      BY <1>7, <1>8, <3>1, Zenon
    <3> QED BY <2>1, <3>2, <1>6 DEF ModelWritten, ModelKeys
  <2>2. CASE s = "promoted"
    <3>1. m' = [[x EXCEPT !.updated = n] EXCEPT !.production = Ev(s).v]
      BY <2>2, <1>9, Zenon
    <3>2. m' = [a \in ModelKeys |-> IF a = "production" THEN Ev(s).v ELSE IF a = "updated" THEN n ELSE x[a]]
      BY <1>7, <1>8, <3>1, Zenon
    <3> QED BY <2>2, <3>2, <1>6 DEF ModelWritten, ModelKeys
  <2>3. CASE s = "archived"
    <3>1. m' = [[x EXCEPT !.updated = n] EXCEPT !.archived = TRUE]
      BY <2>3, <1>9, Zenon
    <3>2. m' = [a \in ModelKeys |-> IF a = "archived" THEN TRUE ELSE IF a = "updated" THEN n ELSE x[a]]
      BY <1>7, <1>8, <3>1, Zenon
    <3> QED BY <2>3, <3>2, <1>6 DEF ModelWritten, ModelKeys
  <2> QED BY <1>2, <2>1, <2>2, <2>3
<1>11. n \in Nat
  BY <1>4, <1>5, <1>6, ModelFields DEF Later
<1>12. m' \in ModelHashes
  BY <1>2, <1>3, <1>4, <1>5, <1>6, <1>10, <1>11, ModelFields DEF ModelWritten, ModelHashes
<1>13. at' = [at EXCEPT ![s] = Handling("ack", at[s].i, Absent, NoModel)]
  BY DEF UpsertModel, Goto
<1>14. /\ Now(s, "ack", at[s].i, Absent, NoModel)
       /\ at' \in [Subjects -> [pc : Calls, i : Nat, v : VersionHashes, m : ModelHashes]]
  BY <1>4, <1>13, HashTypes, Handled DEF BehindInv
<1>15. RedisTypeOK'
  BY <1>1, <1>12, <1>14 DEF BehindInv, RedisTypeOK
<1> QED BY <1>1, <1>2, <1>3, <1>5, <1>10, <1>14, <1>15

LEMMA AckStep ==
    ASSUME BehindInv, NEW s \in Subjects, Ack(s)
    PROVE  /\ at[s].pc = "ack" /\ at[s].i \in DOMAIN log /\ Ev(s).subject = s /\ pending' = pending \ {at[s].i}
           /\ Now(s, "idle", 0, Absent, NoModel) /\ m' = m /\ vs' = vs
           /\ model' = model /\ rows' = rows /\ log' = log /\ tries' = tries
           /\ last' = last /\ clean' = clean /\ projFaults' = projFaults
           /\ RedisTypeOK' /\ QueueTypeOK'
<1>1. /\ at[s].pc = "ack" /\ pending' = pending \ {at[s].i} /\ m' = m /\ vs' = vs
      /\ model' = model /\ rows' = rows /\ log' = log /\ tries' = tries
      /\ last' = last /\ clean' = clean /\ projFaults' = projFaults
  BY DEF Ack, truth, redis
<1>2. at[s].i \in DOMAIN log /\ Ev(s).subject = s
  BY <1>1 DEF BehindInv, HandlersOK, HandlerOK
<1>3. at' = [at EXCEPT ![s] = Handling("idle", 0, Absent, NoModel)] /\ "idle" \in Calls /\ 0 \in Nat
  BY DEF Ack, Waiting, Calls
<1>4. /\ Now(s, "idle", 0, Absent, NoModel)
      /\ at' \in [Subjects -> [pc : Calls, i : Nat, v : VersionHashes, m : ModelHashes]]
  BY <1>3, HashTypes, Handled DEF BehindInv
<1>5. RedisTypeOK' /\ QueueTypeOK'
  BY <1>1, <1>4 DEF BehindInv, RedisTypeOK, QueueTypeOK
<1> QED BY <1>1, <1>2, <1>4, <1>5

LEMMA DeliverStep ==
    ASSUME BehindInv, NEW s \in Subjects, NEW i \in pending, Deliver(s, i)
    PROVE  /\ at[s].pc = "idle" /\ i \in DOMAIN log /\ log[i].subject = s /\ i \in Nat
           /\ tries'[i] = tries[i] + 1 /\ \A j \in DOMAIN log : j # i => tries'[j] = tries[j]
           /\ Now(s, "load", i, Absent, NoModel) /\ m' = m /\ vs' = vs
           /\ model' = model /\ rows' = rows /\ log' = log /\ pending' = pending /\ projFaults' = projFaults
           /\ clean' = (clean /\ Others(s) = {} /\ i \in {last, last + 1}) /\ last' = i
           /\ RedisTypeOK' /\ QueueTypeOK'
<1>1. /\ at[s].pc = "idle" /\ log[i].subject = s
      /\ m' = m /\ vs' = vs
      /\ model' = model /\ rows' = rows /\ log' = log /\ pending' = pending /\ projFaults' = projFaults
      /\ clean' = (clean /\ Others(s) = {} /\ i \in {last, last + 1}) /\ last' = i
      /\ tries' = [tries EXCEPT ![i] = @ + 1]
  BY DEF Deliver, truth, redis
<1>2. i \in DOMAIN log /\ i \in Nat /\ i \in DOMAIN tries
  BY DEF BehindInv, QueueTypeOK, TruthTypeOK
<1>3. tries'[i] = tries[i] + 1 /\ (\A j \in DOMAIN log : j # i => tries'[j] = tries[j])
      /\ tries' \in Seq(Nat) /\ Len(tries') = Len(tries)
  BY <1>1, <1>2 DEF BehindInv, QueueTypeOK, TruthTypeOK
<1>4. at' = [at EXCEPT ![s] = Handling("load", i, Absent, NoModel)] /\ "load" \in Calls
  BY DEF Deliver, Calls
<1>5. /\ Now(s, "load", i, Absent, NoModel)
      /\ at' \in [Subjects -> [pc : Calls, i : Nat, v : VersionHashes, m : ModelHashes]]
  BY <1>2, <1>4, HashTypes, Handled DEF BehindInv
<1>6. RedisTypeOK'
  BY <1>1, <1>5 DEF BehindInv, RedisTypeOK
<1>7. QueueTypeOK'
  BY <1>1, <1>2, <1>3 DEF BehindInv, QueueTypeOK
<1> QED BY <1>1, <1>2, <1>3, <1>5, <1>6, <1>7

\* Every step that is not a command.
LEMMA ConsumerStep ==
    ASSUME BehindInv, ProjNext, ~Commands
    PROVE  \/ \E S : S \subseteq Subjects /\ Ended(S)
           \/ \E s \in Subjects :
                \/ \E i \in pending : Deliver(s, i)
                \/ s = "registered" /\ UpsertRegistered
                \/ LoadVersion(s) \/ UpsertVersion(s)
                \/ s = "promoted" /\ (LoadDemoted \/ UpsertDemoted)
                \/ ModelLoaded(s) \/ UpsertModel(s) \/ Ack(s)
<1>1. CASE Crash
  BY <1>1, CrashStep
<1>2. ASSUME NEW s \in Subjects, CallFails(s) PROVE Ended({s})
  BY <1>2, NakStep DEF CallFails, Fault
<1>3. ASSUME NEW s \in Subjects, AckLost(s) PROVE Ended({s})
  BY <1>3, NakStep DEF AckLost, Fault
<1>4. ASSUME NEW s \in Subjects, LoadModel(s) PROVE ModelLoaded(s) \/ Ended({s})
  BY <1>4, LoadModelStep
<1>5. \A s \in Subjects : {s} \subseteq Subjects
  OBVIOUS
<1>6. Crash \/ \E s \in Subjects : (\E i \in pending : Deliver(s, i)) \/ Handler(s) \/ CallFails(s) \/ AckLost(s)
  BY Zenon DEF ProjNext
<1> QED BY <1>1, <1>2, <1>3, <1>4, <1>5, <1>6, Zenon DEF Handler

-----------------------------------------------------------------------------
(* Part 4: NeverAhead *)

\* In the catalogue of a first start at most one version is in production.
LEMMA OneIncumbent ==
    ASSUME NEW f, DOMAIN f \subseteq ModelVersions, Cardinality(Production(f)) <= 1
    PROVE  \A u, v \in Production(f) : u = v
<1>1. IsFiniteSet(Production(f))
  <2>1. Production(f) \subseteq ModelVersions
    BY DEF Production
  <2> QED BY <2>1, VersionsAssumption, FS_Subset
<1>2. Cardinality(Production(f)) \in Nat
  BY <1>1, FS_CardinalityType
<1>3. CASE Cardinality(Production(f)) = 0
  BY <1>1, <1>3, FS_EmptySet
<1>4. CASE Cardinality(Production(f)) = 1
  <2>1. \E x : Production(f) = {x}
    BY <1>1, <1>4, FS_Singleton
  <2> QED BY <2>1
<1> QED BY <1>2, <1>3, <1>4

\* The first state: an empty registry, or one in use whose read side has caught up.
LEMMA InitFacts ==
    ASSUME ProjInit
    PROVE  /\ TruthTypeOK /\ RedisTypeOK /\ QueueTypeOK
           /\ \A u, v \in Production(rows) : u = v
           /\ model # "archived" /\ log = << >> /\ pending = {} /\ DOMAIN log = {}
           /\ last = 0 /\ m.updated = 0 /\ projFaults = 0 /\ (\A s \in Subjects : at[s].pc = "idle")
           /\ \A v \in ModelVersions : IF v \in DOMAIN rows THEN vs[v] = Shown(rows[v]) ELSE vs[v] = Absent
           /\ \A v \in DOMAIN rows : Shown(rows[v]) =
                [stage |-> rows[v].stage, status |-> IF rows[v].status = "failed" THEN "pending" ELSE rows[v].status]
           /\ m.production = Incumbent(rows) /\ m.archived = FALSE /\ m.there = (model # "none")
<1>1. PICK D \in SUBSET ModelVersions : rows \in [D -> {r \in Lifecycle : r.stage = "dev" => r.status = "pending"}]
  BY DEF ProjInit
<1>2. DOMAIN rows = D /\ \A v \in DOMAIN rows : rows[v] \in Lifecycle
  BY <1>1
<1>3. Lifecycle \subseteq [stage : Stages, status : Statuses]
  BY DEF Lifecycle, Stages, Statuses
<1>4. rows \in [DOMAIN rows -> [stage : Stages, status : Statuses]]
  BY <1>1, <1>2, <1>3
<1>5. model \in {"none", "active"} /\ (model = "none" => rows = << >>) /\ log = << >> /\ tries = << >> /\ pending = {}
      /\ last = 0 /\ clean = TRUE /\ projFaults = 0 /\ at = [s \in Subjects |-> Waiting]
      /\ Cardinality(Production(rows)) <= 1
  BY DEF ProjInit
<1>6. log \in Seq(LogEvents) /\ DOMAIN log = {} /\ Len(log) = 0
  BY <1>5
<1>7. model = "none" => DOMAIN rows = {}
  BY <1>5
<1>8. TruthTypeOK
  BY <1>2, <1>4, <1>5, <1>6, <1>7 DEF TruthTypeOK
<1>9. QueueTypeOK
  BY <1>5, <1>6, BoundsAssumption DEF QueueTypeOK
<1>10. vs = [v \in ModelVersions |-> IF v \in DOMAIN rows THEN Shown(rows[v]) ELSE Absent]
  BY DEF ProjInit
<1>11. \A v \in DOMAIN rows : /\ Shown(rows[v]) = [stage |-> rows[v].stage,
                                     status |-> IF rows[v].status = "failed" THEN "pending" ELSE rows[v].status]
                              /\ Shown(rows[v]) \in VersionHashes
  <2>1. ASSUME NEW v \in DOMAIN rows, NEW x, x = IF rows[v].status = "failed" THEN "pending" ELSE rows[v].status
        PROVE  Shown(rows[v]) = [stage |-> rows[v].stage, status |-> x] /\ Shown(rows[v]) \in VersionHashes
    <3>1. Shown(rows[v]) = [rows[v] EXCEPT !.status = x]
      BY <2>1 DEF Shown
    <3>2. rows[v].stage \in Stages /\ x \in Statuses /\ [rows[v] EXCEPT !.status = x] = [stage |-> rows[v].stage, status |-> x]
      BY <2>1, <1>8, RowFields DEF Statuses
    <3> QED BY <3>1, <3>2 DEF VersionHashes
  <2> QED BY <2>1
<1>12. vs \in [ModelVersions -> VersionHashes]
  BY <1>10, <1>11, HashTypes
<1>13. PICK l \in (IF rows = << >> THEN {NoVersion} ELSE DOMAIN rows) :
         m = [there |-> model # "none", production |-> Incumbent(rows), latest |-> l, archived |-> FALSE, updated |-> 0]
  BY DEF ProjInit
<1>14. Incumbent(rows) \in ModelVersions \cup {NoVersion} /\ l \in ModelVersions \cup {NoVersion}
  BY <1>8, <1>13, IncumbentIs DEF TruthTypeOK
<1>15. m \in ModelHashes
  BY <1>13, <1>14 DEF ModelHashes
<1>16. Waiting \in [pc : Calls, i : Nat, v : VersionHashes, m : ModelHashes] /\ Waiting.pc = "idle"
  BY HashTypes DEF Waiting, Handling, Calls
<1>17. RedisTypeOK /\ \A s \in Subjects : at[s].pc = "idle"
  BY <1>5, <1>12, <1>15, <1>16 DEF RedisTypeOK
<1>18. \A u, v \in Production(rows) : u = v
  BY <1>2, <1>5, OneIncumbent
<1>19. m.production = Incumbent(rows) /\ m.archived = FALSE /\ m.there = (model # "none") /\ m.updated = 0
  BY <1>13
<1>20. \A v \in ModelVersions : IF v \in DOMAIN rows THEN vs[v] = Shown(rows[v]) ELSE vs[v] = Absent
  BY <1>10
<1> QED BY <1>5, <1>6, <1>8, <1>9, <1>11, <1>17, <1>18, <1>19, <1>20

LEMMA BehindInit == ProjInit => BehindInv
<1> SUFFICES ASSUME ProjInit PROVE BehindInv
  OBVIOUS
<1>1. TruthTypeOK /\ RedisTypeOK /\ QueueTypeOK /\ EventsTrue /\ HandlersOK
  BY InitFacts DEF EventsTrue, HandlersOK, HandlerOK
<1>2. ASSUME NEW v \in ModelVersions PROVE Behind(vs[v], v)
  <2>1. CASE v \in DOMAIN rows
    <3>1. vs[v].stage = rows[v].stage /\ (vs[v].status = "ready" => rows[v].status = "ready")
      BY <2>1, InitFacts
    <3> QED BY <2>1, <3>1 DEF Behind, MayFollow
  <2>2. CASE v \notin DOMAIN rows
    BY <2>2, InitFacts DEF Behind
  <2> QED BY <2>1, <2>2
<1>3. ModelBehind(m)
  BY InitFacts, IncumbentIs DEF ModelBehind
<1> QED BY <1>1, <1>2, <1>3 DEF BehindInv, RedisBehind

\* What is behind stays behind, and what is true of an event stays true, as Postgres moves.
LEMMA StaysBehind ==
    ASSUME TruthTypeOK, Forward, NEW w, NEW v, Behind(w, v), w # Absent
    PROVE  /\ v \in DOMAIN rows' /\ MayFollow(rows'[v].stage, w.stage)
           /\ w.status = "ready" => rows'[v].status = "ready"
<1>1. v \in DOMAIN rows /\ MayFollow(rows[v].stage, w.stage) /\ (w.status = "ready" => rows[v].status = "ready")
  BY DEF Behind
<1>2. rows[v].stage \in Stages
  BY <1>1, RowFields
<1>3. v \in DOMAIN rows' /\ MayFollow(rows'[v].stage, rows[v].stage) /\ (rows[v].status = "ready" => rows'[v].status = "ready")
  BY <1>1 DEF Forward
<1> QED BY <1>1, <1>2, <1>3, MayFollowTransitive

LEMMA ModelStaysBehind ==
    ASSUME TruthTypeOK, Forward, NEW x, ModelBehind(x)
    PROVE  /\ x.production # NoVersion =>
                x.production \in DOMAIN rows' /\ rows'[x.production].stage \in {"production", "archived"}
           /\ x.archived => model' = "archived"
  BY DEF ModelBehind, Forward, MayFollow

LEMMA EventStaysTrue ==
    ASSUME TruthTypeOK, Forward, NEW e \in LogEvents, EventTrue(e)
    PROVE  (EventTrue(e))'
<1>1. e.subject \in {"created", "ready", "promoted"} => e.v \in DOMAIN rows /\ e.v \in DOMAIN rows'
  BY DEF EventTrue, Forward
<1>2. e.subject = "promoted" => MayFollow(rows'[e.v].stage, e.to)
  <2>1. SUFFICES ASSUME e.subject = "promoted" PROVE MayFollow(rows'[e.v].stage, e.to)
    OBVIOUS
  <2>2. MayFollow(rows[e.v].stage, e.to) /\ MayFollow(rows'[e.v].stage, rows[e.v].stage) /\ rows[e.v].stage \in Stages
    BY <1>1, <2>1, RowFields DEF EventTrue, Forward
  <2> QED BY <2>2, MayFollowTransitive
<1>3. e.subject = "promoted" /\ e.demoted # NoVersion => e.demoted \in DOMAIN rows' /\ rows'[e.demoted].stage = "archived"
  BY DEF EventTrue, Forward, MayFollow
<1> QED BY <1>1, <1>2, <1>3 DEF EventTrue, Forward

\* The log a command leaves has the old events in their places.
LEMMA CommandKeeps ==
    ASSUME BehindInv, Commands
    PROVE  /\ m' = m /\ vs' = vs /\ at' = at /\ Forward /\ TruthTypeOK' /\ RedisTypeOK' /\ QueueTypeOK'
           /\ \A i \in DOMAIN log : i \in DOMAIN log' /\ log'[i] = log[i]
           /\ EventsTrue'
<1>1. TruthTypeOK' /\ ((\E e : Announced(e)) \/ Silent)
  BY CommandStep DEF BehindInv
<1>2. \A i \in DOMAIN log : (EventTrue(log[i]))' \/ log'[i] # log[i]
  <2>1. SUFFICES ASSUME NEW i \in DOMAIN log, log'[i] = log[i] PROVE (EventTrue(log[i]))'
    OBVIOUS
  <2>2. PICK e \in LogEvents : e = log[i]
    BY DEF BehindInv, TruthTypeOK
  <2>3. EventTrue(e) /\ Forward
    BY <1>1, <2>2 DEF BehindInv, EventsTrue, Announced, Silent
  <2>4. (EventTrue(e))'
    BY <2>3, EventStaysTrue DEF BehindInv
  <2> QED BY <2>1, <2>2, <2>4 DEF EventTrue
<1>3. ASSUME NEW e, Announced(e)
      PROVE  /\ m' = m /\ vs' = vs /\ at' = at /\ Forward /\ QueueTypeOK'
             /\ \A i \in DOMAIN log : i \in DOMAIN log' /\ log'[i] = log[i]
             /\ EventsTrue'
  <2>1. Forward /\ e \in LogEvents /\ Emit(e) /\ (EventTrue(e))'
    BY <1>3 DEF Announced
  <2>2. m' = m /\ vs' = vs /\ at' = at /\ QueueTypeOK' /\ (Sent(e) \/ NotSent)
    BY <2>1, EmitStep DEF BehindInv
  <2>3. \A i \in DOMAIN log : i \in DOMAIN log' /\ log'[i] = log[i]
    BY <2>2 DEF Sent, NotSent
  <2>4. \A i \in DOMAIN log' : i \in DOMAIN log \/ log'[i] = e
    BY <2>2 DEF Sent, NotSent
  <2>5. EventsTrue'
    <3>1. SUFFICES ASSUME NEW i \in DOMAIN log' PROVE (EventTrue(log[i]))'
      BY DEF EventsTrue
    <3>2. CASE i \in DOMAIN log
      BY <1>2, <2>3, <3>2
    <3>3. CASE log'[i] = e
      BY <2>1, <3>3 DEF EventTrue
    <3> QED BY <2>4, <3>2, <3>3
  <2> QED BY <2>1, <2>2, <2>3, <2>5
<1>4. ASSUME Silent
      PROVE  /\ m' = m /\ vs' = vs /\ at' = at /\ Forward /\ QueueTypeOK'
             /\ \A i \in DOMAIN log : i \in DOMAIN log' /\ log'[i] = log[i]
             /\ EventsTrue'
  <2>1. m' = m /\ vs' = vs /\ at' = at /\ Forward /\ log' = log
    BY <1>4 DEF Silent, redis
  <2>2. QueueTypeOK'
    BY <1>4 DEF Silent, BehindInv, QueueTypeOK
  <2>3. EventsTrue'
    BY <1>2, <2>1 DEF EventsTrue
  <2> QED BY <2>1, <2>2, <2>3
<1>5. /\ m' = m /\ vs' = vs /\ at' = at /\ Forward /\ QueueTypeOK'
      /\ \A i \in DOMAIN log : i \in DOMAIN log' /\ log'[i] = log[i]
      /\ EventsTrue'
  BY <1>1, <1>3, <1>4
<1>6. RedisTypeOK'
  BY <1>5 DEF BehindInv, RedisTypeOK
<1> QED BY <1>1, <1>5, <1>6

LEMMA BehindCommand == ASSUME BehindInv, Commands PROVE BehindInv'
<1>1. /\ m' = m /\ vs' = vs /\ at' = at /\ Forward /\ TruthTypeOK' /\ RedisTypeOK' /\ QueueTypeOK'
      /\ \A i \in DOMAIN log : i \in DOMAIN log' /\ log'[i] = log[i]
      /\ EventsTrue'
  BY CommandKeeps
<1>2. RedisBehind'
  <2>1. ASSUME NEW v \in ModelVersions PROVE Behind(vs[v], v)'
    BY <1>1, StaysBehind DEF BehindInv, RedisBehind, Behind
  <2>2. ModelBehind(m)'
    BY <1>1, ModelStaysBehind DEF BehindInv, RedisBehind, ModelBehind
  <2> QED BY <2>1, <2>2 DEF RedisBehind
<1>3. HandlersOK'
  <2>0. TruthTypeOK /\ Forward
    BY <1>1 DEF BehindInv
  <2>1. SUFFICES ASSUME NEW s \in Subjects, at[s].pc # "idle" PROVE HandlerOK(s)'
    BY <1>1 DEF HandlersOK, HandlerOK
  <2>2. HandlerOK(s) /\ at[s].i \in DOMAIN log
    BY <2>1 DEF BehindInv, HandlersOK, HandlerOK
  <2>3. Ev(s)' = Ev(s) /\ at[s].i \in DOMAIN log'
    BY <1>1, <2>2 DEF Ev
  <2>4. ASSUME at[s].pc = "put" PROVE Behind(at[s].v, Ev(s).v)'
    <3>1. Behind(at[s].v, Ev(s).v)
      BY <2>1, <2>2, <2>4 DEF HandlerOK
    <3>2. at[s].v # Absent =>
              /\ Ev(s).v \in DOMAIN rows' /\ MayFollow(rows'[Ev(s).v].stage, at[s].v.stage)
              /\ at[s].v.status = "ready" => rows'[Ev(s).v].status = "ready"
      BY <2>0, <3>1, StaysBehind
    <3> QED BY <1>1, <2>3, <3>2 DEF Behind
  <2>5. ASSUME at[s].pc = "putDemoted" PROVE Behind(at[s].v, Ev(s).demoted)'
    <3>1. Behind(at[s].v, Ev(s).demoted)
      BY <2>1, <2>2, <2>5 DEF HandlerOK
    <3>2. at[s].v # Absent =>
              /\ Ev(s).demoted \in DOMAIN rows' /\ MayFollow(rows'[Ev(s).demoted].stage, at[s].v.stage)
              /\ at[s].v.status = "ready" => rows'[Ev(s).demoted].status = "ready"
      BY <2>0, <3>1, StaysBehind
    <3> QED BY <1>1, <2>3, <3>2 DEF Behind
  <2>6. at[s].pc = "putModel" => ModelBehind(at[s].m)'
    BY <1>1, <2>2, ModelStaysBehind DEF BehindInv, HandlerOK, ModelBehind
  <2> QED BY <1>1, <2>1, <2>2, <2>3, <2>4, <2>5, <2>6 DEF HandlerOK
<1> QED BY <1>1, <1>2, <1>3 DEF BehindInv

\* A handler that another one's call leaves where it was.
LEMMA HandlerKept ==
    ASSUME model' = model, rows' = rows, log' = log, NEW t \in Subjects, at'[t] = at[t], HandlerOK(t)
    PROVE  HandlerOK(t)'
  BY DEF HandlerOK, Ev, Behind, ModelBehind

\* Calls change neither Postgres nor the log.
LEMMA TruthKept ==
    ASSUME BehindInv, model' = model, rows' = rows, log' = log PROVE TruthTypeOK' /\ EventsTrue'
  BY DEF BehindInv, TruthTypeOK, EventsTrue, EventTrue

LEMMA QueueKept == ASSUME BehindInv, Stays PROVE QueueTypeOK'
  BY DEF BehindInv, QueueTypeOK, Stays

\* Handler s has moved: the invariant holds if what it wrote and loaded is behind.
LEMMA BehindMove ==
    ASSUME BehindInv, model' = model, rows' = rows, log' = log, RedisTypeOK', QueueTypeOK',
           NEW s \in Subjects, \A t \in Subjects : t # s => at'[t] = at[t],
           HandlerOK(s)', RedisBehind'
    PROVE  BehindInv'
<1>1. \A t \in Subjects : HandlerOK(t)'
  BY HandlerKept DEF BehindInv, HandlersOK
<1> QED BY <1>1, TruthKept DEF BehindInv, HandlersOK

LEMMA BehindSame ==
    ASSUME BehindInv, model' = model, rows' = rows, m' = m, vs' = vs PROVE RedisBehind'
  BY DEF BehindInv, RedisBehind, Behind, ModelBehind

LEMMA BehindEnded == ASSUME BehindInv, NEW S, Ended(S) PROVE BehindInv'
<1>1. model' = model /\ rows' = rows /\ log' = log /\ m' = m /\ vs' = vs /\ RedisTypeOK' /\ QueueTypeOK'
      /\ \A s \in Subjects : at'[s].pc = "idle" \/ at'[s] = at[s]
  BY DEF Ended
<1>2. ASSUME NEW s \in Subjects PROVE HandlerOK(s)'
  <2>1. CASE at'[s].pc = "idle"
    BY <2>1 DEF HandlerOK
  <2>2. CASE at'[s] = at[s]
    BY <1>1, <2>2, HandlerKept DEF BehindInv, HandlersOK
  <2> QED BY <1>1, <2>1, <2>2
<1> QED BY <1>1, <1>2, TruthKept, BehindSame DEF BehindInv, HandlersOK

LEMMA BehindConsumer == ASSUME BehindInv, ProjNext, ~Commands PROVE BehindInv'
<1>1. ASSUME NEW s \in Subjects, NEW i \in pending, Deliver(s, i) PROVE BehindInv'
  <2>1. /\ i \in DOMAIN log /\ log[i].subject = s
        /\ Now(s, "load", i, Absent, NoModel) /\ m' = m /\ vs' = vs
        /\ model' = model /\ rows' = rows /\ log' = log /\ RedisTypeOK' /\ QueueTypeOK'
    BY <1>1, DeliverStep
  <2>2. HandlerOK(s)'
    BY <2>1 DEF Now, HandlerOK, Ev
  <2> QED BY <2>1, <2>2, BehindSame, BehindMove DEF Now
<1>2. ASSUME UpsertRegistered PROVE BehindInv'
  <2>1. /\ Stays /\ vs' = vs /\ at["registered"].pc = "load" /\ "registered" \in Subjects
        /\ m' = [there |-> TRUE, production |-> NoVersion, latest |-> NoVersion, archived |-> FALSE,
                 updated |-> at["registered"].i]
        /\ Now("registered", "ack", at["registered"].i, Absent, NoModel) /\ RedisTypeOK'
    BY <1>2, RegisteredStep DEF Subjects
  <2>2. at["registered"].i \in DOMAIN log /\ Ev("registered").subject = "registered"
    BY <2>1 DEF BehindInv, HandlersOK, HandlerOK
  <2>3. HandlerOK("registered")'
    BY <2>1, <2>2 DEF Now, HandlerOK, Ev, Stays
  <2>4. RedisBehind'
    BY <2>1 DEF BehindInv, RedisBehind, Behind, ModelBehind, Stays
  <2> QED BY <2>1, <2>3, <2>4, QueueKept, BehindMove DEF Now, Stays
<1>3. ASSUME NEW s \in Subjects, LoadVersion(s) PROVE BehindInv'
  <2>1. /\ Stays /\ vs' = vs /\ m' = m /\ s \in {"created", "ready", "promoted"} /\ at[s].pc = "load"
        /\ at[s].i \in DOMAIN log /\ Ev(s).subject = s /\ Ev(s).v \in ModelVersions
        /\ Now(s, "put", at[s].i, vs[Ev(s).v], NoModel) /\ RedisTypeOK'
    BY <1>3, LoadVersionStep
  <2>2. Behind(at[s].v, Ev(s).v)'
    BY <2>1 DEF BehindInv, RedisBehind, Behind, Stays, Now, Ev
  <2>3. HandlerOK(s)'
    BY <2>1, <2>2 DEF Now, HandlerOK, Ev, Stays
  <2> QED BY <2>1, <2>3, BehindSame, QueueKept, BehindMove DEF Now, Stays
<1>4. ASSUME NEW s \in Subjects, UpsertVersion(s) PROVE BehindInv'
  <2>1. /\ Stays /\ m' = m /\ s \in {"created", "ready", "promoted"} /\ at[s].pc = "put"
        /\ at[s].i \in DOMAIN log /\ Ev(s).subject = s /\ Ev(s).v \in ModelVersions
        /\ VersionWritten(s, Ev(s).v) /\ RedisTypeOK'
    BY <1>4, UpsertVersionStep
  <2>2. PICK l \in Calls : GoesTo(s, l) /\ Now(s, l, at[s].i, Absent, NoModel)
    BY <1>4, UpsertVersionStep
  <2>3. EventTrue(Ev(s)) /\ Ev(s).v \in DOMAIN rows
    BY <2>1, EventFields DEF BehindInv
  <2>4. l \in {"model", "ack", "loadDemoted"} /\ (l = "loadDemoted" => s = "promoted" /\ Ev(s).demoted # NoVersion)
        /\ (l = "model" => s \in {"created", "promoted"} /\ (s = "promoted" => Ev(s).to = "production"))
    BY <2>1, <2>2, <2>3 DEF GoesTo, EventTrue
  <2>5. HandlerOK(s)'
    BY <2>1, <2>2, <2>4 DEF Now, HandlerOK, Ev, Stays
  <2>6. at[s].v \in VersionHashes /\ Behind(at[s].v, Ev(s).v)
    BY <2>1 DEF BehindInv, RedisTypeOK, HandlersOK, HandlerOK
  <2>7. MayFollow(rows[Ev(s).v].stage, Base(at[s].v).stage)
        /\ (Base(at[s].v).status = "ready" => rows[Ev(s).v].status = "ready")
    BY <2>6, VersionFields, HashTypes DEF Behind, MayFollow
  <2>8. MayFollow(rows[Ev(s).v].stage, "dev")
    BY DEF MayFollow
  <2>9. Behind(vs'[Ev(s).v], Ev(s).v)
    BY <2>1, <2>3, <2>7, <2>8 DEF VersionWritten, Behind, EventTrue, BehindInv, RedisBehind
  <2>10. \A u \in ModelVersions : u # Ev(s).v => vs'[u] = vs[u]
    BY <2>1 DEF VersionWritten
  <2>11. \A u \in ModelVersions : Behind(vs'[u], u)
    BY <2>9, <2>10 DEF BehindInv, RedisBehind
  <2>12. RedisBehind'
    BY <2>1, <2>11 DEF BehindInv, RedisBehind, Behind, ModelBehind, Stays
  <2> QED BY <2>1, <2>2, <2>5, <2>12, QueueKept, BehindMove DEF Now, Stays
<1>5. ASSUME LoadDemoted PROVE BehindInv'
  <2>1. /\ Stays /\ vs' = vs /\ m' = m /\ at["promoted"].pc = "loadDemoted" /\ "promoted" \in Subjects
        /\ at["promoted"].i \in DOMAIN log /\ Ev("promoted").subject = "promoted"
        /\ Ev("promoted").demoted \in ModelVersions /\ Ev("promoted").demoted # NoVersion
        /\ Now("promoted", "putDemoted", at["promoted"].i, vs[Ev("promoted").demoted], NoModel) /\ RedisTypeOK'
    BY <1>5, LoadDemotedStep DEF Subjects
  <2>2. Behind(at["promoted"].v, Ev("promoted").demoted)'
    BY <2>1 DEF BehindInv, RedisBehind, Behind, Stays, Now, Ev
  <2>3. HandlerOK("promoted")'
    BY <2>1, <2>2 DEF Now, HandlerOK, Ev, Stays
  <2> QED BY <2>1, <2>3, BehindSame, QueueKept, BehindMove DEF Now, Stays
<1>6. ASSUME UpsertDemoted PROVE BehindInv'
  <2> DEFINE x == Ev("promoted").demoted
  <2>1. /\ Stays /\ m' = m /\ at["promoted"].pc = "putDemoted" /\ "promoted" \in Subjects
        /\ at["promoted"].i \in DOMAIN log /\ Ev("promoted").subject = "promoted"
        /\ x \in ModelVersions /\ x # NoVersion
        /\ vs'[x] = [stage |-> "archived", status |-> Base(at["promoted"].v).status]
        /\ (\A u \in ModelVersions : u # x => vs'[u] = vs[u])
        /\ Now("promoted", "model", at["promoted"].i, Absent, NoModel) /\ RedisTypeOK'
    BY <1>6, UpsertDemotedStep DEF Subjects
  <2>2. EventTrue(Ev("promoted")) /\ x \in DOMAIN rows /\ Ev("promoted").to = "production"
    BY <2>1, EventFields DEF BehindInv
  <2>3. rows[x].stage = "archived"
    BY <2>1, <2>2 DEF EventTrue
  <2>4. HandlerOK("promoted")'
    BY <2>1, <2>2 DEF Now, HandlerOK, Ev, Stays
  <2>5. at["promoted"].v \in VersionHashes /\ Behind(at["promoted"].v, x)
    BY <2>1 DEF BehindInv, RedisTypeOK, HandlersOK, HandlerOK
  <2>6. Base(at["promoted"].v).status = "ready" => rows[x].status = "ready"
    BY <2>5, VersionFields, HashTypes DEF Behind
  <2>7. Behind(vs'[x], x)
    BY <2>1, <2>2, <2>3, <2>6 DEF Behind, MayFollow
  <2>8. \A u \in ModelVersions : Behind(vs'[u], u)
    BY <2>1, <2>7 DEF BehindInv, RedisBehind
  <2>9. RedisBehind'
    BY <2>1, <2>8 DEF BehindInv, RedisBehind, Behind, ModelBehind, Stays
  <2> QED BY <2>1, <2>4, <2>9, QueueKept, BehindMove DEF Now, Stays
<1>7. ASSUME NEW s \in Subjects, ModelLoaded(s) PROVE BehindInv'
  <2>1. /\ Stays /\ vs' = vs /\ m' = m /\ RedisTypeOK'
        /\ s \in {"created", "promoted", "archived"} /\ at[s].i \in DOMAIN log /\ Ev(s).subject = s
        /\ at[s].pc = IF s = "archived" THEN "load" ELSE "model"
        /\ \/ Now(s, "ack", at[s].i, Absent, NoModel)
           \/ Now(s, "putModel", at[s].i, Absent, m)
    BY <1>7 DEF ModelLoaded
  <2>2. s = "promoted" => Ev(s).to = "production"
    BY <2>1 DEF BehindInv, HandlersOK, HandlerOK
  <2>3. RedisBehind'
    BY <2>1, BehindSame DEF Stays
  <2>4. at'[s].pc = "putModel" => ModelBehind(at[s].m)'
    BY <2>1, <2>3 DEF Now, RedisBehind, ModelBehind
  <2>5. HandlerOK(s)'
    BY <2>1, <2>2, <2>4 DEF Now, HandlerOK, Ev, Stays
  <2> QED BY <2>1, <2>3, <2>5, QueueKept, BehindMove DEF Now, Stays
<1>8. ASSUME NEW s \in Subjects, UpsertModel(s) PROVE BehindInv'
  <2>1. /\ Stays /\ vs' = vs /\ s \in {"created", "promoted", "archived"} /\ at[s].pc = "putModel"
        /\ at[s].i \in DOMAIN log /\ Ev(s).subject = s
        /\ ModelWritten(s, at[s].m) /\ Now(s, "ack", at[s].i, Absent, NoModel) /\ RedisTypeOK'
    BY <1>8, UpsertModelStep
  <2>2. ModelBehind(at[s].m) /\ (s = "promoted" => Ev(s).to = "production")
    BY <2>1 DEF BehindInv, HandlersOK, HandlerOK
  <2>3. EventTrue(Ev(s))
    BY <2>1, EventFields DEF BehindInv
  <2>4. s = "promoted" => Ev(s).v \in DOMAIN rows /\ rows[Ev(s).v].stage \in {"production", "archived"}
    BY <2>1, <2>2, <2>3 DEF EventTrue, MayFollow
  <2>5. s = "archived" => model = "archived"
    BY <2>1, <2>3 DEF EventTrue
  <2>6. ModelBehind(m)'
    BY <2>1, <2>2, <2>4, <2>5 DEF ModelWritten, ModelBehind, Stays
  <2>7. RedisBehind'
    BY <2>1, <2>6 DEF BehindInv, RedisBehind, Behind, Stays
  <2>8. HandlerOK(s)'
    BY <2>1 DEF Now, HandlerOK, Ev, Stays
  <2> QED BY <2>1, <2>7, <2>8, QueueKept, BehindMove DEF Now, Stays
<1>9. ASSUME NEW s \in Subjects, Ack(s) PROVE BehindInv'
  <2>1. /\ Now(s, "idle", 0, Absent, NoModel) /\ m' = m /\ vs' = vs
        /\ model' = model /\ rows' = rows /\ log' = log /\ RedisTypeOK' /\ QueueTypeOK'
    BY <1>9, AckStep
  <2>2. HandlerOK(s)'
    BY <2>1 DEF Now, HandlerOK
  <2> QED BY <2>1, <2>2, BehindSame, BehindMove DEF Now
<1> QED BY <1>1, <1>2, <1>3, <1>4, <1>5, <1>6, <1>7, <1>8, <1>9, ConsumerStep, BehindEnded

\* Nothing changes in a stuttering step.
LEMMA BehindStutter == ASSUME BehindInv, UNCHANGED projVars PROVE BehindInv'
<1>1. model' = model /\ rows' = rows /\ log' = log /\ m' = m /\ vs' = vs /\ at' = at
      /\ tries' = tries /\ pending' = pending /\ last' = last /\ clean' = clean /\ projFaults' = projFaults
  BY DEF projVars, truth, redis
<1>2. RedisTypeOK' /\ QueueTypeOK'
  BY <1>1 DEF BehindInv, RedisTypeOK, QueueTypeOK
<1>3. HandlersOK'
  BY <1>1, HandlerKept DEF BehindInv, HandlersOK
<1> QED BY <1>1, <1>2, <1>3, TruthKept, BehindSame DEF BehindInv

\* Types, and everything in Redis, in a handler's hands and in the log is behind Postgres.
THEOREM ProjectionInvariant == ProjSpec => []BehindInv
<1>1. BehindInv /\ [ProjNext]_projVars => BehindInv'
  BY BehindCommand, BehindConsumer, BehindStutter
<1> QED BY BehindInit, <1>1, PTL DEF ProjSpec

\* The read side shows no stage, READY artifact, production pointer or archival before
\* its commit, however the five consumers interleave, repeat or die half way.
THEOREM ReadSideNeverAhead == ProjSpec => []NeverAhead
<1>1. BehindInv => NeverAhead
  <2>1. SUFFICES ASSUME BehindInv PROVE NeverAhead
    OBVIOUS
  <2>2. ASSUME NEW v \in ModelVersions
        PROVE  /\ vs[v] # Absent => v \in DOMAIN rows
               /\ vs[v].stage \in Stages => ~CanTransitionTo(rows[v].stage, vs[v].stage) \/ vs[v].stage = rows[v].stage
               /\ vs[v].stage \in {"staging", "production"} => rows[v].stage # "dev"
               /\ vs[v].status = "ready" => rows[v].status = "ready"
    <3>1. Behind(vs[v], v)
      BY <2>1, <2>2 DEF BehindInv, RedisBehind
    <3>2. vs[v] = Absent => vs[v].stage = "none" /\ vs[v].status = "none"
      BY HashTypes
    <3>3. vs[v] # Absent => rows[v].stage \in Stages
      BY <2>1, <3>1, RowFields DEF BehindInv, Behind
    <3> QED BY <3>1, <3>2, <3>3 DEF Behind, MayFollow, CanTransitionTo, Stages
  <2>3. ModelBehind(m)
    BY <2>1 DEF BehindInv, RedisBehind
  <2> QED BY <2>2, <2>3 DEF NeverAhead, ModelBehind
<1> QED BY ProjectionInvariant, <1>1, PTL

-----------------------------------------------------------------------------
(* Part 5: AnnouncedIsVisible *)

VisibleInv == CreatedOK /\ FewTries

LEMMA VisibleInit == ProjInit => VisibleInv
  BY InitFacts DEF VisibleInv, CreatedOK, FewTries, Subjects

\* A hash that a handler wrote is not absent, and none is ever removed.
LEMMA WrittenIsThere ==
    ASSUME BehindInv, CreatedOK, NEW s \in Subjects, UpsertVersion(s)
    PROVE  vs'[Ev(s).v] # Absent /\ \A u \in ModelVersions : vs[u] # Absent => vs'[u] # Absent
<1>1. /\ s \in {"created", "ready", "promoted"} /\ VersionWritten(s, Ev(s).v) /\ at[s].pc = "put"
      /\ at[s].i \in DOMAIN log /\ Ev(s).subject = s
  BY UpsertVersionStep
<1>2. Ev(s).to \in Stages
  BY <1>1, EventFields DEF BehindInv
<1>3. \A x \in Stages : \A y : [stage |-> x, status |-> y] # Absent
  BY DEF Stages, Absent
<1>4. \A x : [stage |-> x, status |-> "ready"] # Absent
  BY DEF Absent
<1>5. vs'[Ev(s).v] # Absent
  <2>1. CASE s = "created" /\ at[s].v # Absent
    BY <1>1, <2>1 DEF VersionWritten, CreatedOK
  <2>2. CASE s = "created" /\ at[s].v = Absent
    BY <1>1, <1>3, <2>2 DEF VersionWritten, Stages
  <2>3. CASE s = "ready"
    BY <1>1, <1>4, <2>3 DEF VersionWritten
  <2>4. CASE s = "promoted"
    BY <1>1, <1>2, <1>3, <2>4 DEF VersionWritten
  <2> QED BY <1>1, <2>1, <2>2, <2>3, <2>4
<1> QED BY <1>1, <1>5 DEF VersionWritten

LEMMA VisibleCommand == ASSUME BehindInv, VisibleInv, Commands PROVE VisibleInv'
<1>1. vs' = vs /\ at' = at /\ \A i \in DOMAIN log : i \in DOMAIN log' /\ log'[i] = log[i]
  BY CommandKeeps
<1>2. CreatedOK'
  <2>1. at["created"].pc # "idle" => Ev("created")' = Ev("created")
    BY <1>1 DEF BehindInv, HandlersOK, HandlerOK, Ev, Subjects
  <2> QED BY <1>1, <2>1 DEF VisibleInv, CreatedOK
<1>3. ASSUME NEW e, Announced(e) PROVE FewTries'
  <2>1. Sent(e) \/ NotSent
    BY <1>3, EmitStep DEF Announced, BehindInv
  <2>2. projFaults \in Nat /\ \A i \in DOMAIN log : tries[i] \in Nat
    BY DEF BehindInv, QueueTypeOK, TruthTypeOK
  <2>3. SUFFICES ASSUME NEW i \in DOMAIN log', log'[i].subject = "created", vs'[log'[i].v] = Absent
                 PROVE  i \in pending' /\ tries'[i] <= projFaults' + Busy("created", i)
    BY <1>1 DEF FewTries, Busy
  <2>4. Busy("created", i) \in {0, 1}
    BY DEF Busy
  <2>5. CASE i \in DOMAIN log
    <3>1. i \in pending /\ tries[i] <= projFaults + Busy("created", i)
      BY <1>1, <2>3, <2>5 DEF VisibleInv, FewTries
    <3>2. i \in pending' /\ tries'[i] = tries[i] /\ (projFaults' = projFaults \/ projFaults' = projFaults + 1)
      BY <2>1, <2>5, <3>1 DEF Sent, NotSent
    <3> QED BY <2>2, <2>4, <2>5, <3>1, <3>2
  <2>6. CASE i \notin DOMAIN log
    <3>1. i \in pending' /\ tries'[i] = 0 /\ projFaults' = projFaults
      BY <2>1, <2>3, <2>6 DEF Sent, NotSent
    <3> QED BY <2>2, <2>4, <3>1
  <2> QED BY <2>5, <2>6
<1>4. ASSUME Silent PROVE FewTries'
  BY <1>4 DEF VisibleInv, FewTries, Busy, Silent, redis
<1> QED BY <1>2, <1>3, <1>4, CommandStep DEF VisibleInv, BehindInv

\* A call of handler s that keeps its event, and the queue, and removes no hash.
LEMMA TriesMove ==
    ASSUME BehindInv, FewTries, Stays, NEW s \in Subjects, at[s].pc # "idle", at'[s].pc # "idle", at'[s].i = at[s].i,
           \A t \in Subjects : t # s => at'[t] = at[t], \A u \in ModelVersions : vs[u] # Absent => vs'[u] # Absent
    PROVE  FewTries'
<1>1. SUFFICES ASSUME NEW i \in DOMAIN log, log[i].subject = "created", vs'[log[i].v] = Absent
               PROVE  i \in pending /\ tries[i] <= projFaults + Busy("created", i)'
  BY DEF FewTries, Stays
<1>2. log[i].v \in ModelVersions
  BY <1>1 DEF BehindInv, EventsTrue, EventTrue, TruthTypeOK
<1>3. i \in pending /\ tries[i] <= projFaults + Busy("created", i)
  BY <1>1, <1>2 DEF FewTries
<1>4. Busy("created", i)' = Busy("created", i)
  BY DEF Busy, Subjects
<1> QED BY <1>3, <1>4

LEMMA VisibleEnded ==
    ASSUME MaxProjFaults < MaxDeliver, BehindInv, VisibleInv, NEW S, S \subseteq Subjects, Ended(S)
    PROVE  VisibleInv'
<1>1. /\ log' = log /\ tries' = tries /\ vs' = vs /\ "created" \in Subjects
      /\ IF "created" \in S THEN at'["created"].pc = "idle" ELSE at'["created"] = at["created"]
      /\ QueueTypeOK'
  BY DEF Ended, Subjects
<1>2. CreatedOK'
  BY <1>1 DEF VisibleInv, CreatedOK, Ev
<1>3. projFaults \in Nat /\ projFaults' \in Nat /\ projFaults' <= MaxProjFaults
      /\ (\A i \in DOMAIN log : tries[i] \in Nat)
  BY <1>1 DEF BehindInv, QueueTypeOK, TruthTypeOK
<1>4. SUFFICES ASSUME NEW i \in DOMAIN log, log[i].subject = "created", vs[log[i].v] = Absent
               PROVE  i \in pending' /\ tries[i] <= projFaults' + Busy("created", i)'
  BY <1>1, <1>2 DEF VisibleInv, FewTries
<1>5. i \in pending /\ tries[i] <= projFaults + Busy("created", i)
  BY <1>4 DEF VisibleInv, FewTries
<1>6. projFaults' = projFaults + 1 \/ projFaults' = projFaults
  BY DEF Ended
<1>7. CASE "created" \in S /\ at["created"].pc # "idle" /\ at["created"].i = i
  <2>1. at["created"].pc # "model"
    BY <1>4, <1>7 DEF VisibleInv, CreatedOK, Ev
  <2>2. projFaults' = projFaults + 1
    BY <1>7, <2>1 DEF Ended
  <2>3. Busy("created", i) = 1 /\ Busy("created", i)' = 0
    BY <1>1, <1>7 DEF Busy
  <2>4. tries[i] <= projFaults' /\ tries[i] # MaxDeliver
    BY <1>3, <1>5, <2>2, <2>3, BoundsAssumption
  <2>5. i \in pending'
    BY <1>5, <2>4 DEF Ended
  <2> QED BY <1>3, <2>3, <2>4, <2>5
<1>8. CASE ~("created" \in S /\ at["created"].pc # "idle" /\ at["created"].i = i)
  <2>1. \A s \in S : at[s].pc # "idle" => at[s].i # i
    <3>1. SUFFICES ASSUME NEW s \in S, at[s].pc # "idle", at[s].i = i PROVE FALSE
      OBVIOUS
    <3>2. s = "created"
      BY <1>4, <3>1 DEF BehindInv, HandlersOK, HandlerOK, Ev
    <3> QED BY <1>8, <3>1, <3>2
  <2>2. i \in pending'
    BY <1>5, <2>1 DEF Ended
  <2>3. Busy("created", i)' = Busy("created", i) /\ Busy("created", i) \in {0, 1}
    BY <1>1, <1>8 DEF Busy
  <2> QED BY <1>3, <1>5, <1>6, <2>2, <2>3
<1> QED BY <1>7, <1>8

LEMMA VisibleConsumer ==
    ASSUME MaxProjFaults < MaxDeliver, BehindInv, VisibleInv, ProjNext, ~Commands PROVE VisibleInv'
<1>c. "created" \in Subjects
  BY DEF Subjects
<1>1. ASSUME NEW s \in Subjects, NEW i \in pending, Deliver(s, i) PROVE VisibleInv'
  <2>1. /\ at[s].pc = "idle" /\ i \in DOMAIN log /\ log[i].subject = s
        /\ tries'[i] = tries[i] + 1 /\ (\A j \in DOMAIN log : j # i => tries'[j] = tries[j])
        /\ Now(s, "load", i, Absent, NoModel) /\ vs' = vs
        /\ log' = log /\ pending' = pending /\ projFaults' = projFaults
    BY <1>1, DeliverStep
  <2>2. CreatedOK'
    BY <1>c, <2>1 DEF VisibleInv, CreatedOK, Now, Ev
  <2>3. SUFFICES ASSUME NEW j \in DOMAIN log, log[j].subject = "created", vs[log[j].v] = Absent
                 PROVE  j \in pending /\ tries'[j] <= projFaults + Busy("created", j)'
    BY <2>1, <2>2 DEF VisibleInv, FewTries
  <2>4. j \in pending /\ tries[j] <= projFaults + Busy("created", j)
    BY <2>3 DEF VisibleInv, FewTries
  <2>5. CASE j # i
    <3>1. Busy("created", j) = Busy("created", j)' \/ (Busy("created", j) = 0 /\ Busy("created", j)' \in {0, 1})
      BY <1>c, <2>1, <2>5 DEF Busy, Now
    <3>2. projFaults \in Nat /\ tries[j] \in Nat
      BY DEF BehindInv, QueueTypeOK, TruthTypeOK
    <3> QED BY <2>1, <2>4, <2>5, <3>1, <3>2
  <2>6. CASE j = i
    <3>1. s = "created" /\ Busy("created", j) = 0 /\ Busy("created", j)' = 1
      BY <2>1, <2>3, <2>6 DEF Busy, Now
    <3>2. projFaults \in Nat /\ tries[j] \in Nat
      BY DEF BehindInv, QueueTypeOK, TruthTypeOK
    <3> QED BY <2>1, <2>4, <2>6, <3>1, <3>2
  <2> QED BY <2>5, <2>6
<1>2. ASSUME UpsertRegistered PROVE VisibleInv'
  <2>1. /\ Stays /\ vs' = vs /\ at["registered"].pc = "load" /\ "registered" \in Subjects
        /\ Now("registered", "ack", at["registered"].i, Absent, NoModel)
    BY <1>2, RegisteredStep DEF Subjects
  <2>2. CreatedOK'
    BY <1>c, <2>1 DEF VisibleInv, CreatedOK, Now, Ev, Stays
  <2>3. FewTries'
    BY <2>1, TriesMove DEF VisibleInv, Now
  <2> QED BY <2>2, <2>3 DEF VisibleInv
<1>3. ASSUME NEW s \in Subjects, LoadVersion(s) PROVE VisibleInv'
  <2>1. /\ Stays /\ vs' = vs /\ at[s].pc = "load" /\ Now(s, "put", at[s].i, vs[Ev(s).v], NoModel)
    BY <1>3, LoadVersionStep
  <2>2. CreatedOK'
    BY <1>c, <2>1 DEF VisibleInv, CreatedOK, Now, Ev, Stays
  <2>3. FewTries'
    BY <2>1, TriesMove DEF VisibleInv, Now
  <2> QED BY <2>2, <2>3 DEF VisibleInv
<1>4. ASSUME NEW s \in Subjects, UpsertVersion(s) PROVE VisibleInv'
  <2>1. Stays /\ at[s].pc = "put" /\ Ev(s).v \in ModelVersions
    BY <1>4, UpsertVersionStep
  <2>2. PICK l \in Calls : GoesTo(s, l) /\ Now(s, l, at[s].i, Absent, NoModel) /\ l # "idle"
    BY <1>4, UpsertVersionStep DEF GoesTo
  <2>3. vs'[Ev(s).v] # Absent /\ \A u \in ModelVersions : vs[u] # Absent => vs'[u] # Absent
    BY <1>4, WrittenIsThere DEF VisibleInv
  <2>4. CreatedOK'
    <3>1. CASE s = "created"
      BY <2>1, <2>2, <2>3, <3>1 DEF CreatedOK, Now, Ev, Stays
    <3>2. CASE s # "created"
      <4>1. at'["created"] = at["created"] /\ log' = log
        BY <1>c, <2>1, <2>2, <3>2 DEF Now, Stays
      <4>2. at["created"].pc # "idle" => Ev("created").v \in ModelVersions
        BY <1>c, EventFields DEF BehindInv, HandlersOK, HandlerOK
      <4> QED BY <4>1, <4>2, <2>3 DEF VisibleInv, CreatedOK, Ev
    <3> QED BY <3>1, <3>2
  <2>5. FewTries'
    BY <2>1, <2>2, <2>3, TriesMove DEF VisibleInv, Now
  <2> QED BY <2>4, <2>5 DEF VisibleInv
<1>5. ASSUME LoadDemoted PROVE VisibleInv'
  <2>1. /\ Stays /\ vs' = vs /\ at["promoted"].pc = "loadDemoted" /\ "promoted" \in Subjects
        /\ Now("promoted", "putDemoted", at["promoted"].i, vs[Ev("promoted").demoted], NoModel)
    BY <1>5, LoadDemotedStep DEF Subjects
  <2>2. CreatedOK'
    BY <1>c, <2>1 DEF VisibleInv, CreatedOK, Now, Ev, Stays
  <2>3. FewTries'
    BY <2>1, TriesMove DEF VisibleInv, Now
  <2> QED BY <2>2, <2>3 DEF VisibleInv
<1>6. ASSUME UpsertDemoted PROVE VisibleInv'
  <2> DEFINE x == Ev("promoted").demoted
  <2>1. /\ Stays /\ at["promoted"].pc = "putDemoted" /\ "promoted" \in Subjects
        /\ vs'[x] = [stage |-> "archived", status |-> Base(at["promoted"].v).status]
        /\ (\A u \in ModelVersions : u # x => vs'[u] = vs[u])
        /\ Now("promoted", "model", at["promoted"].i, Absent, NoModel)
    BY <1>6, UpsertDemotedStep DEF Subjects
  <2>2. vs'[x] # Absent
    BY <2>1 DEF Absent
  <2>3. \A u \in ModelVersions : vs[u] # Absent => vs'[u] # Absent
    BY <2>1, <2>2
  <2>4. CreatedOK'
    <3>1. at'["created"] = at["created"] /\ log' = log
      BY <1>c, <2>1 DEF Now, Stays
    <3>2. at["created"].pc # "idle" => Ev("created").v \in ModelVersions
      BY <1>c, EventFields DEF BehindInv, HandlersOK, HandlerOK
    <3> QED BY <3>1, <3>2, <2>3 DEF VisibleInv, CreatedOK, Ev
  <2>5. FewTries'
    BY <2>1, <2>3, TriesMove DEF VisibleInv, Now
  <2> QED BY <2>4, <2>5 DEF VisibleInv
<1>7. ASSUME NEW s \in Subjects, ModelLoaded(s) PROVE VisibleInv'
  <2>1. /\ Stays /\ vs' = vs /\ at[s].pc = (IF s = "archived" THEN "load" ELSE "model")
        /\ at'[s].pc \in {"ack", "putModel"} /\ at'[s].i = at[s].i
        /\ \A t \in Subjects : t # s => at'[t] = at[t]
    BY <1>7 DEF ModelLoaded, Now
  <2>2. CreatedOK'
    BY <1>c, <2>1 DEF VisibleInv, CreatedOK, Ev, Stays
  <2>3. FewTries'
    BY <2>1, TriesMove DEF VisibleInv
  <2> QED BY <2>2, <2>3 DEF VisibleInv
<1>8. ASSUME NEW s \in Subjects, UpsertModel(s) PROVE VisibleInv'
  <2>1. Stays /\ vs' = vs /\ at[s].pc = "putModel" /\ Now(s, "ack", at[s].i, Absent, NoModel)
    BY <1>8, UpsertModelStep
  <2>2. CreatedOK'
    BY <1>c, <2>1 DEF VisibleInv, CreatedOK, Now, Ev, Stays
  <2>3. FewTries'
    BY <2>1, TriesMove DEF VisibleInv, Now
  <2> QED BY <2>2, <2>3 DEF VisibleInv
<1>9. ASSUME NEW s \in Subjects, Ack(s) PROVE VisibleInv'
  <2>1. /\ at[s].pc = "ack" /\ Ev(s).subject = s /\ pending' = pending \ {at[s].i}
        /\ Now(s, "idle", 0, Absent, NoModel) /\ vs' = vs /\ log' = log /\ tries' = tries /\ projFaults' = projFaults
    BY <1>9, AckStep
  <2>2. CreatedOK'
    BY <1>c, <2>1 DEF VisibleInv, CreatedOK, Now, Ev
  <2>3. SUFFICES ASSUME NEW j \in DOMAIN log, log[j].subject = "created", vs[log[j].v] = Absent
                 PROVE  j \in pending' /\ tries[j] <= projFaults + Busy("created", j)'
    BY <2>1, <2>2 DEF VisibleInv, FewTries
  <2>4. j \in pending /\ tries[j] <= projFaults + Busy("created", j)
    BY <2>3 DEF VisibleInv, FewTries
  <2>5. at[s].i # j
    BY <2>1, <2>3 DEF VisibleInv, CreatedOK, Ev
  <2>6. Busy("created", j)' = Busy("created", j)
    BY <1>c, <2>1, <2>5 DEF Busy, Now
  <2> QED BY <2>1, <2>4, <2>5, <2>6
<1> QED BY <1>1, <1>2, <1>3, <1>4, <1>5, <1>6, <1>7, <1>8, <1>9, ConsumerStep, VisibleEnded

LEMMA VisibleStutter == ASSUME VisibleInv, UNCHANGED projVars PROVE VisibleInv'
  BY DEF VisibleInv, CreatedOK, FewTries, Busy, Ev, projVars, truth, redis

\* With fewer faults than deliveries, a version whose creation was announced is visible
\* once its event is settled, though its model may be missing: handleVersionCreated
\* stores the version before it looks for the model.
THEOREM AnnouncedVersionIsVisible ==
    ASSUME MaxProjFaults < MaxDeliver
    PROVE  ProjSpec => []AnnouncedIsVisible
<1>1. BehindInv /\ VisibleInv /\ [ProjNext]_projVars => VisibleInv'
  BY VisibleCommand, VisibleConsumer, VisibleStutter
<1>2. VisibleInv => AnnouncedIsVisible
  BY DEF VisibleInv, FewTries, AnnouncedIsVisible
<1> QED BY VisibleInit, ProjectionInvariant, <1>1, <1>2, PTL DEF ProjSpec

-----------------------------------------------------------------------------
(* Part 6: ConvergesInOrder.  One handler at a time *)

\* A command keeps a clean history only by sending its event, or having none to send.
LEMMA CleanCommand ==
    ASSUME BehindInv, Commands, clean'
    PROVE  clean /\ last' = last /\ ((\E e : Announced(e) /\ Sent(e)) \/ (Silent /\ log' = log /\ pending' = pending))
<1>1. ASSUME NEW e, Announced(e) PROVE clean /\ last' = last /\ Sent(e)
  <2>1. last' = last /\ (Sent(e) \/ NotSent)
    BY <1>1, EmitStep DEF Announced, BehindInv
  <2> QED BY <2>1 DEF Sent, NotSent
<1>2. ASSUME Silent PROVE clean /\ last' = last /\ log' = log /\ pending' = pending
  BY <1>2 DEF Silent
<1> QED BY <1>1, <1>2, CommandStep DEF BehindInv

LEMMA LogLength == ASSUME TruthTypeOK PROVE Len(log) \in Nat /\ DOMAIN log = 1..Len(log)
  BY DEF TruthTypeOK

LEMMA InOrderCommand == ASSUME BehindInv, OneByOne, Commands PROVE OneByOne'
<1>1. SUFFICES ASSUME clean' PROVE OneByOne'
  BY DEF OneByOne
<1>2. m' = m /\ vs' = vs /\ at' = at /\ (\A i \in DOMAIN log : i \in DOMAIN log' /\ log'[i] = log[i])
  BY CommandKeeps
<1>3. clean /\ last' = last
  BY <1>1, CleanCommand
<1>4. pending \subseteq pending' /\ Len(log) <= Len(log') /\ \A i \in DOMAIN log' : i \in DOMAIN log \/ i \in pending'
  <2>1. ASSUME NEW e, Sent(e)
        PROVE  pending \subseteq pending' /\ Len(log) <= Len(log') /\ \A i \in DOMAIN log' : i \in DOMAIN log \/ i \in pending'
    BY <2>1, LogLength DEF Sent, BehindInv
  <2>2. ASSUME log' = log, pending' = pending
        PROVE  pending \subseteq pending' /\ Len(log) <= Len(log') /\ \A i \in DOMAIN log' : i \in DOMAIN log \/ i \in pending'
    BY <2>2, LogLength DEF BehindInv
  <2> QED BY <1>1, <2>1, <2>2, CleanCommand
<1>5. last \in Nat /\ Len(log) \in Nat /\ Len(log') \in Nat
  BY LogLength, CommandKeeps DEF BehindInv, QueueTypeOK, TruthTypeOK
<1>6. last' <= Len(log') /\ m'.updated <= last' /\ (\A i \in DOMAIN log' : i > last' => i \in pending')
  BY <1>2, <1>3, <1>4, <1>5 DEF OneByOne
<1>7. \A s \in Subjects : at[s].pc # "idle" => Ev(s)' = Ev(s)
  BY <1>2 DEF BehindInv, HandlersOK, HandlerOK, Ev
<1> QED BY <1>2, <1>3, <1>4, <1>6, <1>7 DEF OneByOne

\* A call of handler s.
LEMMA InOrderMove ==
    ASSUME BehindInv, OneByOne, Stays, NEW s \in Subjects, at[s].pc # "idle", at'[s].i = at[s].i,
           \A t \in Subjects : t # s => at'[t] = at[t],
           clean => /\ m'.updated <= last
                    /\ at'[s].pc = "put" => at'[s].v = vs'[Ev(s).v]
                    /\ at'[s].pc = "putDemoted" => at'[s].v = vs'[Ev(s).demoted]
                    /\ at'[s].pc = "putModel" => at'[s].m = m' /\ m'.there
    PROVE  OneByOne'
  BY DEF OneByOne, Stays, Ev

LEMMA InOrderEnded == ASSUME BehindInv, OneByOne, NEW S, Ended(S) PROVE OneByOne'
<1>1. SUFFICES ASSUME clean' PROVE OneByOne'
  BY DEF OneByOne
<1>2. clean /\ pending' = pending /\ log' = log /\ m' = m /\ vs' = vs /\ last' = last
      /\ \A s \in Subjects : at'[s].pc = "idle" \/ at'[s] = at[s]
  BY <1>1 DEF Ended
<1> QED BY <1>2 DEF OneByOne, Ev

LEMMA InOrderConsumer == ASSUME BehindInv, OneByOne, ProjNext, ~Commands PROVE OneByOne'
<1>n. last \in Nat /\ Len(log) \in Nat /\ DOMAIN log = 1..Len(log) /\ m.updated \in Nat
      /\ \A s \in Subjects : at[s].i \in Nat /\ at[s].m \in ModelHashes
  BY LogLength, ModelFields DEF BehindInv, QueueTypeOK, RedisTypeOK
<1>1. ASSUME NEW s \in Subjects, NEW i \in pending, Deliver(s, i) PROVE OneByOne'
  <2>1. /\ i \in DOMAIN log /\ Now(s, "load", i, Absent, NoModel) /\ m' = m /\ vs' = vs
        /\ log' = log /\ pending' = pending
        /\ clean' = (clean /\ Others(s) = {} /\ i \in {last, last + 1}) /\ last' = i
    BY <1>1, DeliverStep
  <2>2. SUFFICES ASSUME clean' PROVE OneByOne'
    BY DEF OneByOne
  <2>3. clean /\ i \in {last, last + 1} /\ \A t \in Subjects : t # s => at[t].pc = "idle"
    BY <2>1, <2>2 DEF Others
  <2>4. i <= Len(log) /\ m.updated <= i /\ \A j \in DOMAIN log : j > i => j \in pending
    <3>1. m.updated <= last /\ last <= i /\ \A j \in DOMAIN log : j > last => j \in pending
      BY <1>n, <2>3 DEF OneByOne
    <3> QED BY <1>n, <2>1, <3>1
  <2>5. \A t \in Subjects : at'[t].pc # "idle" => t = s
    BY <2>1, <2>3 DEF Now
  <2>6. at'[s].pc = "load" /\ at'[s].i = i /\ \A t \in Subjects : t # s => at'[t].pc = "idle"
    BY <2>1, <2>3 DEF Now
  <2> QED BY <2>1, <2>4, <2>5, <2>6 DEF OneByOne
<1>2. ASSUME UpsertRegistered PROVE OneByOne'
  <2>1. /\ Stays /\ at["registered"].pc = "load" /\ "registered" \in Subjects /\ m'.updated = at["registered"].i
        /\ Now("registered", "ack", at["registered"].i, Absent, NoModel)
    BY <1>2, RegisteredStep DEF Subjects
  <2>2. clean => m'.updated <= last
    BY <1>n, <2>1 DEF OneByOne
  <2> QED BY <2>1, <2>2, InOrderMove DEF Now
<1>3. ASSUME NEW s \in Subjects, LoadVersion(s) PROVE OneByOne'
  <2>1. /\ Stays /\ vs' = vs /\ m' = m /\ at[s].pc = "load" /\ Now(s, "put", at[s].i, vs[Ev(s).v], NoModel)
    BY <1>3, LoadVersionStep
  <2>2. clean => m'.updated <= last
    BY <2>1 DEF OneByOne
  <2> QED BY <2>1, <2>2, InOrderMove DEF Now
<1>4. ASSUME NEW s \in Subjects, UpsertVersion(s) PROVE OneByOne'
  <2>1. Stays /\ m' = m /\ at[s].pc = "put" /\ s \in {"created", "ready", "promoted"}
    BY <1>4, UpsertVersionStep
  <2>2. PICK l \in Calls : GoesTo(s, l) /\ Now(s, l, at[s].i, Absent, NoModel)
    BY <1>4, UpsertVersionStep
  <2>3. l \in {"model", "ack", "loadDemoted"}
    BY <2>1, <2>2 DEF GoesTo
  <2>4. clean => m'.updated <= last
    BY <2>1 DEF OneByOne
  <2> QED BY <2>1, <2>2, <2>3, <2>4, InOrderMove DEF Now
<1>5. ASSUME LoadDemoted PROVE OneByOne'
  <2>1. /\ Stays /\ vs' = vs /\ m' = m /\ at["promoted"].pc = "loadDemoted" /\ "promoted" \in Subjects
        /\ Now("promoted", "putDemoted", at["promoted"].i, vs[Ev("promoted").demoted], NoModel)
    BY <1>5, LoadDemotedStep DEF Subjects
  <2>2. clean => m'.updated <= last
    BY <2>1 DEF OneByOne
  <2> QED BY <2>1, <2>2, InOrderMove DEF Now
<1>6. ASSUME UpsertDemoted PROVE OneByOne'
  <2>1. /\ Stays /\ m' = m /\ at["promoted"].pc = "putDemoted" /\ "promoted" \in Subjects
        /\ Now("promoted", "model", at["promoted"].i, Absent, NoModel)
    BY <1>6, UpsertDemotedStep DEF Subjects
  <2>2. clean => m'.updated <= last
    BY <2>1 DEF OneByOne
  <2> QED BY <2>1, <2>2, InOrderMove DEF Now
<1>7. ASSUME NEW s \in Subjects, ModelLoaded(s) PROVE OneByOne'
  <2>1. /\ Stays /\ m' = m /\ m.there /\ at[s].pc # "idle" /\ at'[s].i = at[s].i
        /\ (at'[s].pc = "ack" \/ (at'[s].pc = "putModel" /\ at'[s].m = m))
        /\ \A t \in Subjects : t # s => at'[t] = at[t]
    BY <1>7 DEF ModelLoaded, Now
  <2>2. clean => m'.updated <= last
    BY <2>1 DEF OneByOne
  <2> QED BY <2>1, <2>2, InOrderMove
<1>8. ASSUME NEW s \in Subjects, UpsertModel(s) PROVE OneByOne'
  <2>1. Stays /\ at[s].pc = "putModel" /\ Now(s, "ack", at[s].i, Absent, NoModel) /\ ModelWritten(s, at[s].m)
    BY <1>8, UpsertModelStep
  <2>2. m'.updated = Later(at[s].i, at[s].m.updated)
    BY <2>1 DEF ModelWritten
  <2>3. clean => m'.updated <= last
    BY <1>n, <2>1, <2>2 DEF OneByOne, Later
  <2> QED BY <2>1, <2>3, InOrderMove DEF Now
<1>9. ASSUME NEW s \in Subjects, Ack(s) PROVE OneByOne'
  <2>1. /\ at[s].pc = "ack" /\ pending' = pending \ {at[s].i} /\ Now(s, "idle", 0, Absent, NoModel)
        /\ m' = m /\ vs' = vs /\ log' = log /\ last' = last /\ clean' = clean
    BY <1>9, AckStep
  <2>2. SUFFICES ASSUME clean PROVE OneByOne'
    BY <2>1 DEF OneByOne
  <2>3. at[s].i = last /\ \A t \in Subjects : at'[t].pc = "idle"
    BY <2>1, <2>2 DEF OneByOne, Now
  <2>4. \A i \in DOMAIN log : i > last => i \in pending'
    BY <1>n, <2>1, <2>2, <2>3 DEF OneByOne
  <2> QED BY <2>1, <2>2, <2>3, <2>4 DEF OneByOne
<1> QED BY <1>1, <1>2, <1>3, <1>4, <1>5, <1>6, <1>7, <1>8, <1>9, ConsumerStep, InOrderEnded

-----------------------------------------------------------------------------
(* What the log says *)

\* The stage, and the status as it is shown, of version u stay.
SameStage(u)  == (u \in DOMAIN rows' <=> u \in DOMAIN rows) /\ (u \in DOMAIN rows => rows'[u].stage = rows[u].stage)
SameStatus(u) ==
    /\ u \in DOMAIN rows' <=> u \in DOMAIN rows
    /\ u \in DOMAIN rows =>
        /\ rows'[u].status = "ready" <=> rows[u].status = "ready"
        /\ Shown(rows'[u]).status = Shown(rows[u]).status

\* Postgres changes exactly in what event e is about.
Follows(e) ==
    /\ model' # "none" /\ (e.subject # "registered" => model # "none")
    /\ model' = "archived" => model = "archived" \/ e.subject = "archived"
    /\ model' = "active" => model = "active" \/ e.subject = "registered"
    /\ e.subject = "archived" => model' = "archived"
    /\ e.subject = "registered" => model = "none" /\ DOMAIN rows = {} /\ DOMAIN rows' = {} /\ model' = "active"
    /\ e.subject = "created" => e.v \notin DOMAIN rows /\ e.v \in ModelVersions
    /\ model' = "active" => \A u \in ModelVersions :
        IF Restages(e, u) THEN rows'[u].stage = StageBy(e, u) ELSE SameStage(u)
    /\ \A u \in ModelVersions :
        IF Restatuses(e, u) THEN (rows'[u].status = "ready") <=> (e.subject = "ready") ELSE SameStatus(u)
    /\ Production(rows') \subseteq IF Produces(e) THEN {e.v} ELSE Production(rows)

\* Nothing that an event would announce changes.
Unannounced ==
    /\ model' = model /\ model # "none" /\ Production(rows') \subseteq Production(rows)
    /\ \A u \in ModelVersions : SameStage(u) /\ SameStatus(u)

LEMMA ShownStatus ==
    ASSUME NEW r \in [stage : Stages, status : Statuses]
    PROVE  /\ Shown(r).status = IF r.status = "failed" THEN "pending" ELSE r.status
           /\ Shown(r) = [stage |-> r.stage, status |-> Shown(r).status]
<1>1. PICK x : x = IF r.status = "failed" THEN "pending" ELSE r.status
  OBVIOUS
<1>2. Shown(r) = [r EXCEPT !.status = x]
  BY <1>1 DEF Shown
<1>3. [r EXCEPT !.status = x] = [stage |-> r.stage, status |-> x]
  OBVIOUS
<1> QED BY <1>1, <1>2, <1>3

\* Rows whose status is the same show the same.
LEMMA SameShown ==
    ASSUME TruthTypeOK, rows' \in [DOMAIN rows' -> [stage : Stages, status : Statuses]],
           NEW u \in DOMAIN rows, u \in DOMAIN rows',
           rows'[u].status = rows[u].status \/ (rows[u].status = "pending" /\ rows'[u].status = "failed")
    PROVE  SameStatus(u)
<1>1. rows[u] \in [stage : Stages, status : Statuses] /\ rows'[u] \in [stage : Stages, status : Statuses]
  BY DEF TruthTypeOK
<1>2. /\ Shown(rows[u]).status = IF rows[u].status = "failed" THEN "pending" ELSE rows[u].status
      /\ Shown(rows'[u]).status = IF rows'[u].status = "failed" THEN "pending" ELSE rows'[u].status
  BY <1>1, ShownStatus
<1> QED BY <1>2 DEF SameStatus

LEMMA CommandFollows ==
    ASSUME BehindInv, LogOrder, Commands
    PROVE  (\E e : Announced(e) /\ Follows(e)) \/ (Silent /\ Unannounced)
<1>t. TruthTypeOK /\ NoVersion \notin ModelVersions /\ DOMAIN rows \subseteq ModelVersions
  BY VersionsAssumption DEF BehindInv, TruthTypeOK
<1>m. DOMAIN rows # {} => model # "none"
  BY <1>t DEF TruthTypeOK
<1>1. CASE RegisterModel
  <2>1. PICK e : e = Event("registered", NoVersion, "dev", NoVersion)
    OBVIOUS
  <2>2. model = "none" /\ model' = "active" /\ rows' = rows /\ DOMAIN rows = {} /\ Announced(e)
    BY <1>1, <1>t, <2>1, RegisterStep
  <2>3. e.subject = "registered" /\ \A u : ~Restages(e, u) /\ ~Restatuses(e, u) /\ ~Produces(e)
    BY <2>1 DEF Event, Restages, Restatuses, Produces
  <2> HIDE DEF Restages, Restatuses, Produces
  <2>4. Follows(e)
    BY <2>2, <2>3 DEF Follows, SameStage, SameStatus, Production
  <2> QED BY <2>2, <2>4
<1>2. CASE ArchiveModel
  <2>1. PICK e : e = Event("archived", NoVersion, "archived", NoVersion)
    OBVIOUS
  <2>2. /\ model = "active" /\ model' = "archived" /\ DOMAIN rows' = DOMAIN rows /\ Announced(e)
        /\ \A w \in DOMAIN rows : rows'[w] = [stage |-> "archived", status |-> rows[w].status]
        /\ rows' \in [DOMAIN rows' -> [stage : Stages, status : Statuses]]
    BY <1>2, <1>t, <2>1, ArchiveStep
  <2>3. e.subject = "archived" /\ \A u : ~Restatuses(e, u) /\ ~Produces(e)
    BY <2>1 DEF Event, Restatuses, Produces
  <2>4. \A u \in ModelVersions : SameStatus(u)
    <3>1. ASSUME NEW u \in DOMAIN rows PROVE SameStatus(u)
      BY <1>t, <2>2, SameShown
    <3> QED BY <2>2, <3>1 DEF SameStatus
  <2>5. Production(rows') = {}
    BY <2>2 DEF Production
  <2> QED BY <2>2, <2>3, <2>4, <2>5 DEF Follows
<1>3. ASSUME NEW v \in ModelVersions, CreateVersion(v) PROVE \E e : Announced(e) /\ Follows(e)
  <2>1. PICK e : e = Event("created", v, "dev", NoVersion)
    OBVIOUS
  <2>2. /\ model = "active" /\ model' = model /\ v \notin DOMAIN rows /\ DOMAIN rows' = DOMAIN rows \cup {v}
        /\ rows'[v] = [stage |-> "dev", status |-> "pending"] /\ (\A w \in DOMAIN rows : rows'[w] = rows[w])
        /\ Announced(e)
    BY <1>3, <1>t, <2>1, CreateStep
  <2>3. e.subject = "created" /\ e.v = v /\ ~Produces(e) /\ StageBy(e, v) = "dev"
        /\ \A u : (Restages(e, u) <=> u = v) /\ (Restatuses(e, u) <=> u = v)
    BY <2>1 DEF Event, Restages, Restatuses, Produces, StageBy
  <2>4. \A u \in ModelVersions : u # v => SameStage(u) /\ SameStatus(u)
    BY <2>2 DEF SameStage, SameStatus
  <2>5. Production(rows') \subseteq Production(rows)
    BY <2>2 DEF Production
  <2>6. Follows(e)
    BY <2>2, <2>3, <2>4, <2>5 DEF Follows
  <2> QED BY <2>2, <2>6
<1>4. ASSUME NEW v \in ModelVersions, MarkVersionReady(v) PROVE \E e : Announced(e) /\ Follows(e)
  <2>1. PICK e : e = Event("ready", v, "dev", NoVersion)
    OBVIOUS
  <2>2. /\ v \in DOMAIN rows /\ rows[v].status = "pending" /\ model' = model /\ DOMAIN rows' = DOMAIN rows
        /\ rows'[v] = [stage |-> rows[v].stage, status |-> "ready"]
        /\ (\A w \in DOMAIN rows : w # v => rows'[w] = rows[w])
        /\ Announced(e)
    BY <1>4, <1>t, <2>1, ReadyStep
  <2>3. e.subject = "ready" /\ e.v = v /\ ~Produces(e) /\ \A u : ~Restages(e, u) /\ (Restatuses(e, u) <=> u = v)
    BY <2>1 DEF Event, Restages, Restatuses, Produces
  <2>4. \A u \in ModelVersions : SameStage(u) /\ (u # v => SameStatus(u))
    BY <2>2 DEF SameStage, SameStatus
  <2>5. Production(rows') \subseteq Production(rows)
    BY <2>2 DEF Production
  <2>6. model' \in {"active", "archived"}
    BY <1>m, <1>t, <2>2 DEF TruthTypeOK
  <2>7. Follows(e)
    BY <2>2, <2>3, <2>4, <2>5, <2>6 DEF Follows
  <2> QED BY <2>2, <2>7
<1>5. ASSUME NEW v \in ModelVersions, MarkVersionFailed(v) PROVE Silent /\ Unannounced
  <2>1. /\ v \in DOMAIN rows /\ rows[v].status = "pending" /\ model' = model /\ DOMAIN rows' = DOMAIN rows
        /\ rows'[v] = [stage |-> rows[v].stage, status |-> "failed"]
        /\ (\A w \in DOMAIN rows : w # v => rows'[w] = rows[w]) /\ Silent
        /\ rows' \in [DOMAIN rows' -> [stage : Stages, status : Statuses]]
    BY <1>5, <1>t, FailStep
  <2>2. \A u \in ModelVersions : SameStage(u)
    BY <2>1 DEF SameStage
  <2>3. \A u \in ModelVersions : SameStatus(u)
    <3>1. ASSUME NEW u \in DOMAIN rows PROVE SameStatus(u)
      BY <1>t, <2>1, SameShown
    <3> QED BY <2>1, <3>1 DEF SameStatus
  <2>4. Production(rows') \subseteq Production(rows)
    BY <2>1 DEF Production
  <2> QED BY <1>m, <2>1, <2>2, <2>3, <2>4 DEF Unannounced
<1>6. ASSUME NEW v \in ModelVersions, NEW to \in Stages, PromoteVersion(v, to)
      PROVE  \E e : Announced(e) /\ Follows(e)
  <2>1. PICK d \in ModelVersions \cup {NoVersion} :
           /\ d = (IF to = "production" THEN Incumbent(rows) ELSE NoVersion) /\ d # v
           /\ v \in DOMAIN rows /\ to # "dev" /\ Promotable(rows[v], to) /\ model' = model /\ DOMAIN rows' = DOMAIN rows
           /\ \A w \in DOMAIN rows : rows'[w] = [stage |-> Promoted(v, to, d, w), status |-> rows[w].status]
           /\ Announced(Event("promoted", v, to, d))
           /\ rows' \in [DOMAIN rows' -> [stage : Stages, status : Statuses]]
    BY <1>6, <1>t, PromoteStep
  <2>2. PICK e : e = Event("promoted", v, to, d)
    OBVIOUS
  <2>3. e.subject = "promoted" /\ e.v = v /\ e.to = to /\ (Produces(e) <=> to = "production") /\ StageBy(e, v) = to
        /\ (\A u : (Restages(e, u) <=> u \in {v, d}) /\ ~Restatuses(e, u)) /\ (d # v => StageBy(e, d) = "archived")
    BY <2>2 DEF Event, Restages, Restatuses, Produces, StageBy
  <2>4. d # NoVersion => d \in DOMAIN rows
    BY <2>1, IncumbentIs
  <2>5. \A u \in ModelVersions : SameStatus(u)
    <3>1. ASSUME NEW u \in DOMAIN rows PROVE SameStatus(u)
      BY <1>t, <2>1, SameShown
    <3> QED BY <2>1, <3>1 DEF SameStatus
  <2>6. \A u \in ModelVersions : IF Restages(e, u) THEN rows'[u].stage = StageBy(e, u) ELSE SameStage(u)
    <3>1. SUFFICES ASSUME NEW u \in ModelVersions PROVE IF u \in {v, d} THEN rows'[u].stage = StageBy(e, u) ELSE SameStage(u)
      BY <2>3
    <3>2. u = v => rows'[u].stage = StageBy(e, u)
      BY <2>1, <2>3 DEF Promoted
    <3>3. u = d => rows'[u].stage = StageBy(e, u)
      BY <1>t, <2>1, <2>3, <2>4 DEF Promoted
    <3>4. u \notin {v, d} => SameStage(u)
      BY <2>1 DEF Promoted, SameStage
    <3> QED BY <3>2, <3>3, <3>4
  <2>7. Production(rows') \subseteq IF Produces(e) THEN {e.v} ELSE Production(rows)
    <3>1. ASSUME NEW u \in Production(rows'), u # v PROVE u \in Production(rows) /\ u # d
      <4>1. u \in DOMAIN rows /\ Promoted(v, to, d, u) = "production"
        BY <2>1, <3>1 DEF Production
      <4> QED BY <3>1, <4>1 DEF Promoted, Production
    <3>2. CASE to = "production"
      <4>1. ASSUME NEW u \in Production(rows'), u # v PROVE FALSE
        <5>1. Incumbent(rows) \in Production(rows)
          BY <3>1, <4>1, Zenon DEF Incumbent
        <5>2. u = Incumbent(rows)
          BY <3>1, <4>1, <5>1 DEF LogOrder
        <5> QED BY <2>1, <3>1, <3>2, <4>1, <5>2
      <4> QED BY <2>3, <3>2, <4>1
    <3>3. CASE to # "production"
      <4>1. v \notin Production(rows')
        BY <2>1, <3>3 DEF Production, Promoted
      <4> QED BY <2>3, <3>1, <3>3, <4>1
    <3> QED BY <3>2, <3>3
  <2>8. model' \in {"active", "archived"}
    BY <1>m, <1>t, <2>1 DEF TruthTypeOK
  <2>9. Follows(e)
    BY <2>1, <2>3, <2>5, <2>6, <2>7, <2>8 DEF Follows
  <2> QED BY <2>1, <2>2, <2>9
<1> QED BY <1>1, <1>2, <1>3, <1>4, <1>5, <1>6 DEF Commands

LEMMA TouchedExists ==
    ASSUME BehindInv, NEW i \in DOMAIN log, NEW v \in ModelVersions, Restages(log[i], v) \/ Restatuses(log[i], v)
    PROVE  v \in DOMAIN rows
<1>1. EventTrue(log[i])
  BY DEF BehindInv, EventsTrue
<1> QED BY <1>1, VersionsAssumption DEF Restages, Restatuses, EventTrue

LEMMA OrderCommand == ASSUME BehindInv, LogOrder, Commands PROVE LogOrder'
<1>1. Len(log) \in Nat /\ DOMAIN log = 1..Len(log) /\ TruthTypeOK /\ QueueTypeOK
  BY LogLength DEF BehindInv
<1>2. ASSUME NEW e, Announced(e), Follows(e) PROVE LogOrder'
  <2>1. Sent(e) \/ NotSent
    BY <1>1, <1>2, EmitStep DEF Announced
  <2>2. \A u, v \in Production(rows') : u = v
    BY <1>2 DEF Follows, LogOrder
  <2>3. model' # "none"
    BY <1>2 DEF Follows
  <2>4. CASE NotSent
    BY <2>2, <2>3, <2>4 DEF NotSent, LogOrder, Restages, Restatuses, Production
  <2>5. CASE Sent(e)
    <3>1. /\ DOMAIN log' = DOMAIN log \cup {Len(log) + 1} /\ Len(log) + 1 \notin DOMAIN log
          /\ log'[Len(log) + 1] = e /\ \A i \in DOMAIN log : log'[i] = log[i] /\ i < Len(log) + 1
      BY <2>5 DEF Sent
    <3>2. ASSUME NEW i \in DOMAIN log', NEW j \in DOMAIN log', log'[i].subject = "created",
                 Restages(log'[j], log'[i].v) \/ Restatuses(log'[j], log'[i].v)
          PROVE  i <= j
      <4>1. CASE i \in DOMAIN log /\ j \in DOMAIN log
        BY <3>1, <3>2, <4>1 DEF LogOrder
      <4>2. CASE j = Len(log) + 1
        BY <1>1, <3>1, <4>2
      <4>3. CASE i = Len(log) + 1 /\ j \in DOMAIN log
        <5>1. e.subject = "created" /\ (Restages(log[j], e.v) \/ Restatuses(log[j], e.v))
          BY <3>1, <3>2, <4>3
        <5>2. e.v \notin DOMAIN rows /\ e.v \in ModelVersions
          BY <1>2, <5>1 DEF Follows
        <5> QED BY <4>3, <5>1, <5>2, TouchedExists
      <4> QED BY <3>1, <4>1, <4>2, <4>3
    <3>3. ASSUME NEW i \in DOMAIN log', log'[i].subject = "registered" PROVE i = 1
      <4>1. CASE i \in DOMAIN log
        BY <3>1, <3>3, <4>1 DEF LogOrder
      <4>2. CASE i = Len(log) + 1
        <5>1. log = << >>
          BY <1>2, <3>1, <3>3, <4>2 DEF LogOrder, Follows
        <5> QED BY <4>2, <5>1
      <4> QED BY <3>1, <4>1, <4>2
    <3> QED BY <2>2, <2>3, <3>2, <3>3 DEF LogOrder, Restages, Restatuses, Production
  <2> QED BY <2>1, <2>4, <2>5
<1>3. ASSUME Silent, Unannounced PROVE LogOrder'
  <2>1. log' = log /\ model' # "none" /\ \A u, v \in Production(rows') : u = v
    BY <1>3 DEF Silent, Unannounced, LogOrder
  <2> QED BY <2>1 DEF LogOrder, Restages, Restatuses, Production
<1> QED BY <1>2, <1>3, CommandFollows

LEMMA TruthCommand == ASSUME BehindInv, LogOrder, LogTruth, Commands PROVE LogTruth'
<1>0. SUFFICES ASSUME clean' PROVE LogTruth'
  BY DEF LogTruth
<1>1. Len(log) \in Nat /\ DOMAIN log = 1..Len(log) /\ TruthTypeOK /\ QueueTypeOK /\ clean
  BY <1>0, LogLength, CleanCommand DEF BehindInv
<1>2. ASSUME NEW e, Announced(e), Follows(e) PROVE LogTruth'
  <2>1. Sent(e)
    BY <1>0, <1>1, <1>2, EmitStep DEF Announced, NotSent
  <2>2. /\ DOMAIN log' = DOMAIN log \cup {Len(log) + 1} /\ Len(log) + 1 \notin DOMAIN log
        /\ log'[Len(log) + 1] = e /\ \A i \in DOMAIN log : log'[i] = log[i] /\ i < Len(log) + 1
    BY <2>1 DEF Sent
  <2>3. ASSUME model' = "active", NEW v \in ModelVersions, NEW i \in DOMAIN log',
               Restages(log'[i], v), \A j \in DOMAIN log' : j > i => ~Restages(log'[j], v)
        PROVE  rows'[v].stage = StageBy(log'[i], v)
    <3>1. CASE i = Len(log) + 1
      BY <1>2, <2>2, <2>3, <3>1 DEF Follows
    <3>2. CASE i \in DOMAIN log
      <4>1. log'[i] = log[i] /\ ~Restages(e, v) /\ \A j \in DOMAIN log : j > i => ~Restages(log[j], v)
        BY <1>1, <2>2, <2>3, <3>2
      <4>2. v \in DOMAIN rows
        BY <2>3, <3>2, <4>1, TouchedExists
      <4>3. model = "active" /\ SameStage(v)
        BY <1>2, <2>3, <4>1, <4>2 DEF Follows
      <4>4. rows[v].stage = StageBy(log[i], v)
        BY <1>1, <2>3, <3>2, <4>1, <4>3 DEF LogTruth
      <4> QED BY <4>1, <4>2, <4>3, <4>4 DEF SameStage
    <3> QED BY <2>2, <3>1, <3>2
  <2>4. ASSUME NEW v \in ModelVersions, NEW i \in DOMAIN log',
               Restatuses(log'[i], v), \A j \in DOMAIN log' : j > i => ~Restatuses(log'[j], v)
        PROVE  (rows'[v].status = "ready") = (log'[i].subject = "ready")
    <3>1. CASE i = Len(log) + 1
      BY <1>2, <2>2, <2>4, <3>1 DEF Follows
    <3>2. CASE i \in DOMAIN log
      <4>1. log'[i] = log[i] /\ ~Restatuses(e, v) /\ \A j \in DOMAIN log : j > i => ~Restatuses(log[j], v)
        BY <1>1, <2>2, <2>4, <3>2
      <4>2. v \in DOMAIN rows
        BY <2>4, <3>2, <4>1, TouchedExists
      <4>3. SameStatus(v)
        BY <1>2, <2>4, <4>1 DEF Follows
      <4>4. (rows[v].status = "ready") = (log[i].subject = "ready")
        BY <1>1, <2>4, <3>2, <4>1 DEF LogTruth
      <4> QED BY <4>1, <4>2, <4>3, <4>4 DEF SameStatus
    <3> QED BY <2>2, <3>1, <3>2
  <2>5. ASSUME NEW i \in DOMAIN log', Produces(log'[i]), \A j \in DOMAIN log' : j > i => ~Produces(log'[j])
        PROVE  Production(rows') \subseteq {log'[i].v}
    <3>1. CASE i = Len(log) + 1
      BY <1>2, <2>2, <2>5, <3>1 DEF Follows
    <3>2. CASE i \in DOMAIN log
      <4>1. log'[i] = log[i] /\ ~Produces(e) /\ \A j \in DOMAIN log : j > i => ~Produces(log[j])
        BY <1>1, <2>2, <2>5, <3>2
      <4>2. Production(rows') \subseteq Production(rows) /\ Production(rows) \subseteq {log[i].v}
        BY <1>1, <1>2, <2>5, <3>2, <4>1 DEF Follows, LogTruth
      <4> QED BY <4>1, <4>2
    <3> QED BY <2>2, <3>1, <3>2
  <2>6. ASSUME \E i \in DOMAIN log' : log'[i].subject = "registered"
        PROVE  /\ model' = "archived" => \E i \in DOMAIN log' : log'[i].subject = "archived"
               /\ Production(rows') # {} => \E i \in DOMAIN log' : Produces(log'[i])
    <3>1. CASE e.subject = "registered"
      BY <1>2, <3>1 DEF Follows, Production
    <3>2. CASE \E i \in DOMAIN log : log[i].subject = "registered"
      <4>1. model = "archived" => \E i \in DOMAIN log' : log'[i].subject = "archived"
        BY <1>1, <2>2, <3>2 DEF LogTruth
      <4>2. Production(rows) # {} => \E i \in DOMAIN log' : Produces(log'[i])
        BY <1>1, <2>2, <3>2 DEF LogTruth
      <4>3. e.subject = "archived" => \E i \in DOMAIN log' : log'[i].subject = "archived"
        BY <2>2
      <4>4. Produces(e) => \E i \in DOMAIN log' : Produces(log'[i])
        BY <2>2
      <4> QED BY <1>2, <4>1, <4>2, <4>3, <4>4 DEF Follows
    <3> QED BY <2>2, <2>6, <3>1, <3>2
  <2>7. \A v : \A i \in DOMAIN log' : (Restages(log[i], v))' = Restages(log'[i], v)
           /\ (Restatuses(log[i], v))' = Restatuses(log'[i], v) /\ (Produces(log[i]))' = Produces(log'[i])
           /\ (StageBy(log[i], v))' = StageBy(log'[i], v) /\ Production(rows)' = Production(rows')
    BY DEF Restages, Restatuses, Produces, StageBy, Production
  <2> QED BY <2>3, <2>4, <2>5, <2>6, <2>7 DEF LogTruth
<1>3. ASSUME Silent, Unannounced PROVE LogTruth'
  <2>1. log' = log /\ model' = model /\ Production(rows') \subseteq Production(rows)
        /\ \A u \in ModelVersions : SameStage(u) /\ SameStatus(u)
    BY <1>3 DEF Silent, Unannounced
  <2>2. ASSUME model = "active", NEW v \in ModelVersions, NEW i \in DOMAIN log,
               Restages(log[i], v), \A j \in DOMAIN log : j > i => ~Restages(log[j], v)
        PROVE  rows'[v].stage = StageBy(log[i], v)
    BY <1>1, <2>1, <2>2, TouchedExists DEF LogTruth, SameStage
  <2>3. ASSUME NEW v \in ModelVersions, NEW i \in DOMAIN log,
               Restatuses(log[i], v), \A j \in DOMAIN log : j > i => ~Restatuses(log[j], v)
        PROVE  (rows'[v].status = "ready") = (log[i].subject = "ready")
    BY <1>1, <2>1, <2>3, TouchedExists DEF LogTruth, SameStatus
  <2>4. \A i \in DOMAIN log : Produces(log[i]) /\ (\A j \in DOMAIN log : j > i => ~Produces(log[j]))
            => Production(rows') \subseteq {log[i].v}
    BY <1>1, <2>1 DEF LogTruth
  <2>5. (\E i \in DOMAIN log : log[i].subject = "registered") =>
            /\ model = "archived" => \E i \in DOMAIN log : log[i].subject = "archived"
            /\ Production(rows') # {} => \E i \in DOMAIN log : Produces(log[i])
    BY <1>1, <2>1 DEF LogTruth
  <2> QED BY <2>1, <2>2, <2>3, <2>4, <2>5 DEF LogTruth, Restages, Restatuses, Produces, StageBy, Production
<1> QED BY <1>2, <1>3, CommandFollows

\* The consumers leave Postgres and the log alone, and never make a history clean again.
LEMMA LogKept ==
    ASSUME LogOrder, LogTruth, model' = model, rows' = rows, log' = log, clean' => clean
    PROVE  LogOrder' /\ LogTruth'
<1>1. LogOrder'
  BY DEF LogOrder, Restages, Restatuses, Production
<1>2. LogTruth'
  BY DEF LogTruth, Restages, Restatuses, Produces, StageBy, Production
<1> QED BY <1>1, <1>2

-----------------------------------------------------------------------------
(* What the handler at work has written *)

LEMMA NewCommand == ASSUME BehindInv, OneByOne, NewIsNew, LogOrder, Commands PROVE NewIsNew'
<1>0. SUFFICES ASSUME clean' PROVE NewIsNew'
  BY DEF NewIsNew
<1>1. clean /\ last' = last /\ vs' = vs /\ \A i \in DOMAIN log : log'[i] = log[i]
  BY <1>0, CleanCommand, CommandKeeps
<1>2. Len(log) \in Nat /\ last \in Nat /\ last <= Len(log) /\ TruthTypeOK /\ QueueTypeOK
  BY <1>1, LogLength DEF BehindInv, QueueTypeOK, OneByOne
<1>3. ASSUME NEW e, Announced(e), Follows(e) PROVE NewIsNew'
  <2>1. Sent(e)
    BY <1>0, <1>2, <1>3, EmitStep DEF Announced, NotSent
  <2>2. SUFFICES ASSUME NEW i \in DOMAIN log', log'[i].subject = "created"
                 PROVE  /\ i > last => vs[log'[i].v] = Absent
                        /\ i = last => vs[log'[i].v] \in {Absent, [stage |-> "dev", status |-> "pending"]}
    BY <1>1 DEF NewIsNew
  <2>3. CASE i \in DOMAIN log
    BY <1>1, <2>2, <2>3 DEF NewIsNew
  <2>4. CASE i = Len(log) + 1
    <3>1. log'[i] = e /\ i # last
      BY <1>2, <2>1, <2>4 DEF Sent
    <3>2. vs[e.v] = Absent
      BY <1>3, <2>2, <3>1 DEF Follows, BehindInv, RedisBehind, Behind
    <3> QED BY <3>1, <3>2
  <2> QED BY <2>1, <2>3, <2>4 DEF Sent
<1>4. ASSUME Silent PROVE NewIsNew'
  BY <1>1, <1>4 DEF NewIsNew, Silent
<1> QED BY <1>3, <1>4, CommandFollows

\* The newest event is the only one that a handler of a clean history writes for.
LEMMA NewConsumer == ASSUME BehindInv, OneByOne, NewIsNew, LogOrder, ProjNext, ~Commands PROVE NewIsNew'
<1>n. last \in Nat /\ DOMAIN log = 1..Len(log) /\ Len(log) \in Nat
  BY LogLength DEF BehindInv, QueueTypeOK
<1>s. ASSUME clean' => clean, vs' = vs, log' = log, last' = last PROVE NewIsNew'
  BY <1>s DEF NewIsNew
<1>w. ASSUME NEW s \in Subjects, clean, at[s].pc # "idle", NEW x, Restages(Ev(s), x) \/ Restatuses(Ev(s), x),
             NEW i \in DOMAIN log, log[i].subject = "created", log[i].v = x, i >= last
      PROVE  i = last /\ log[i] = Ev(s) /\ s = "created"
  <2>1. at[s].i = last /\ at[s].i \in DOMAIN log /\ Ev(s).subject = s
    BY <1>w DEF OneByOne, BehindInv, HandlersOK, HandlerOK
  <2>2. i <= last
    BY <1>w, <2>1 DEF LogOrder, Ev
  <2>3. i = last
    BY <1>n, <1>w, <2>2
  <2> QED BY <1>w, <2>1, <2>3 DEF Ev
<1>1. ASSUME NEW s \in Subjects, NEW i \in pending, Deliver(s, i) PROVE NewIsNew'
  <2>1. /\ vs' = vs /\ log' = log /\ i \in DOMAIN log
        /\ clean' = (clean /\ Others(s) = {} /\ i \in {last, last + 1}) /\ last' = i
    BY <1>1, DeliverStep
  <2>2. SUFFICES ASSUME clean, i \in {last, last + 1}, NEW j \in DOMAIN log, log[j].subject = "created"
                 PROVE  /\ j > i => vs[log[j].v] = Absent
                        /\ j = i => vs[log[j].v] \in {Absent, [stage |-> "dev", status |-> "pending"]}
    BY <2>1 DEF NewIsNew
  <2>3. j > i => j > last
    BY <1>n, <2>1, <2>2
  <2>4. j = i => j = last \/ j > last
    BY <1>n, <2>2
  <2> QED BY <2>2, <2>3, <2>4 DEF NewIsNew
<1>2. ASSUME NEW s \in Subjects, UpsertVersion(s) PROVE NewIsNew'
  <2>1. /\ Stays /\ s \in {"created", "ready", "promoted"} /\ at[s].pc = "put"
        /\ VersionWritten(s, Ev(s).v) /\ Ev(s).subject = s
    BY <1>2, UpsertVersionStep
  <2>2. SUFFICES ASSUME clean, NEW i \in DOMAIN log, log[i].subject = "created"
                 PROVE  /\ i > last => vs'[log[i].v] = Absent
                        /\ i = last => vs'[log[i].v] \in {Absent, [stage |-> "dev", status |-> "pending"]}
    BY <2>1 DEF NewIsNew, Stays
  <2>3. log[i].v \in ModelVersions
    BY <2>2 DEF BehindInv, EventsTrue, EventTrue, TruthTypeOK
  <2>4. CASE log[i].v # Ev(s).v
    <3>1. vs'[log[i].v] = vs[log[i].v]
      BY <2>1, <2>3, <2>4 DEF VersionWritten
    <3> QED BY <2>2, <3>1 DEF NewIsNew
  <2>5. CASE log[i].v = Ev(s).v /\ i >= last
    <3>1. Restages(Ev(s), Ev(s).v) \/ Restatuses(Ev(s), Ev(s).v)
      BY <2>1 DEF Restages, Restatuses
    <3>2. i = last /\ log[i] = Ev(s) /\ s = "created"
      BY <1>w, <2>1, <2>2, <2>5, <3>1
    <3>3. vs[Ev(s).v] \in {Absent, [stage |-> "dev", status |-> "pending"]}
      BY <2>2, <3>2 DEF NewIsNew
    <3>4. vs'[Ev(s).v] \in {Absent, [stage |-> "dev", status |-> "pending"]}
      BY <2>1, <3>2, <3>3 DEF VersionWritten
    <3> QED BY <1>n, <3>2, <3>4
  <2>6. CASE ~(i >= last)
    BY <1>n, <2>6
  <2> QED BY <2>4, <2>5, <2>6
<1>3. ASSUME UpsertDemoted PROVE NewIsNew'
  <2> DEFINE x == Ev("promoted").demoted
  <2>1. /\ Stays /\ at["promoted"].pc = "putDemoted" /\ "promoted" \in Subjects /\ Ev("promoted").subject = "promoted"
        /\ \A u \in ModelVersions : u # x => vs'[u] = vs[u]
    BY <1>3, UpsertDemotedStep DEF Subjects
  <2>2. SUFFICES ASSUME clean, NEW i \in DOMAIN log, log[i].subject = "created"
                 PROVE  /\ i > last => vs'[log[i].v] = Absent
                        /\ i = last => vs'[log[i].v] \in {Absent, [stage |-> "dev", status |-> "pending"]}
    BY <2>1 DEF NewIsNew, Stays
  <2>3. log[i].v \in ModelVersions
    BY <2>2 DEF BehindInv, EventsTrue, EventTrue, TruthTypeOK
  <2>4. CASE log[i].v # x
    <3>1. vs'[log[i].v] = vs[log[i].v]
      BY <2>1, <2>3, <2>4
    <3> QED BY <2>2, <3>1 DEF NewIsNew
  <2>5. CASE log[i].v = x /\ i >= last
    <3>1. Restages(Ev("promoted"), x)
      BY <2>1 DEF Restages
    <3> QED BY <1>w, <2>1, <2>2, <2>5, <3>1
  <2>6. CASE ~(i >= last)
    BY <1>n, <2>6
  <2> QED BY <2>4, <2>5, <2>6
<1>4. ASSUME UpsertRegistered PROVE NewIsNew'
  BY <1>4, <1>s, RegisteredStep DEF Stays
<1>5. ASSUME NEW s \in Subjects, LoadVersion(s) PROVE NewIsNew'
  BY <1>5, <1>s, LoadVersionStep DEF Stays
<1>6. ASSUME LoadDemoted PROVE NewIsNew'
  BY <1>6, <1>s, LoadDemotedStep DEF Stays
<1>7. ASSUME NEW s \in Subjects, ModelLoaded(s) PROVE NewIsNew'
  BY <1>7, <1>s DEF ModelLoaded, Stays
<1>8. ASSUME NEW s \in Subjects, UpsertModel(s) PROVE NewIsNew'
  BY <1>8, <1>s, UpsertModelStep DEF Stays
<1>9. ASSUME NEW s \in Subjects, Ack(s) PROVE NewIsNew'
  BY <1>9, <1>s, AckStep
<1>10. ASSUME NEW S, Ended(S) PROVE NewIsNew'
  BY <1>10, <1>s DEF Ended
<1> QED BY <1>1, <1>2, <1>3, <1>4, <1>5, <1>6, <1>7, <1>8, <1>9, <1>10, ConsumerStep

LEMMA ProgressCommand == ASSUME BehindInv, Progress, Commands PROVE Progress'
<1>0. SUFFICES ASSUME clean' PROVE Progress'
  BY DEF Progress
<1>1. clean /\ m' = m /\ vs' = vs /\ at' = at /\ \A i \in DOMAIN log : log'[i] = log[i]
  BY <1>0, CleanCommand, CommandKeeps
<1>2. \A s \in Subjects : at[s].pc # "idle" => Ev(s)' = Ev(s)
  BY <1>1 DEF BehindInv, HandlersOK, HandlerOK, Ev
<1> QED BY <1>1, <1>2 DEF Progress, Written

\* Under a clean history a call of handler s need only be judged by what s has written.
LEMMA ProgressMove ==
    ASSUME OneByOne, Stays, NEW s \in Subjects, at[s].pc # "idle",
           \A t \in Subjects : t # s => at'[t] = at[t], clean => Written(s)'
    PROVE  Progress'
<1>1. SUFFICES ASSUME clean', NEW t \in Subjects PROVE Written(t)'
  BY DEF Progress
<1>2. clean /\ (t # s => at'[t].pc = "idle")
  BY <1>1 DEF OneByOne, Stays
<1>3. t # s => Written(t)'
  BY <1>2 DEF Written
<1> QED BY <1>2, <1>3

LEMMA ProgressConsumer ==
    ASSUME BehindInv, OneByOne, NewIsNew, Progress, ProjNext, ~Commands PROVE Progress'
<1>p. clean => \A s \in Subjects : Written(s)
  BY DEF Progress
<1>1. ASSUME clean' => clean, m' = m, vs' = vs, log' = log,
             \A t \in Subjects : at'[t] = at[t] \/ at'[t].pc \in {"idle", "load"}
      PROVE  Progress'
  <2>1. SUFFICES ASSUME clean, NEW t \in Subjects PROVE Written(t)'
    BY <1>1 DEF Progress
  <2> QED BY <1>1, <1>p, <2>1 DEF Written, Ev
<1>2. ASSUME NEW s \in Subjects, NEW i \in pending, Deliver(s, i) PROVE Progress'
  <2>1. /\ m' = m /\ vs' = vs /\ log' = log /\ (clean' => clean) /\ Now(s, "load", i, Absent, NoModel)
    BY <1>2, DeliverStep
  <2> QED BY <1>1, <2>1 DEF Now
<1>3. ASSUME UpsertRegistered PROVE Progress'
  <2>1. /\ Stays /\ at["registered"].pc = "load" /\ "registered" \in Subjects /\ m'.there = TRUE /\ m'.archived = FALSE
        /\ Now("registered", "ack", at["registered"].i, Absent, NoModel)
    BY <1>3, RegisteredStep DEF Subjects
  <2>2. Written("registered")'
    BY <2>1 DEF Written
  <2> QED BY <2>1, <2>2, ProgressMove DEF Now
<1>4. ASSUME NEW s \in Subjects, LoadVersion(s) PROVE Progress'
  <2>1. Stays /\ at[s].pc = "load" /\ Now(s, "put", at[s].i, vs[Ev(s).v], NoModel)
    BY <1>4, LoadVersionStep
  <2>2. Written(s)'
    BY <2>1 DEF Written, Now
  <2> QED BY <2>1, <2>2, ProgressMove DEF Now
<1>5. ASSUME NEW s \in Subjects, UpsertVersion(s) PROVE Progress'
  <2>1. /\ Stays /\ m' = m /\ s \in {"created", "ready", "promoted"} /\ at[s].pc = "put"
        /\ VersionWritten(s, Ev(s).v) /\ Ev(s).subject = s /\ at[s].i \in DOMAIN log
    BY <1>5, UpsertVersionStep
  <2>2. PICK l \in Calls : GoesTo(s, l) /\ Now(s, l, at[s].i, Absent, NoModel)
    BY <1>5, UpsertVersionStep
  <2>3. Ev(s)' = Ev(s) /\ at'[s].pc = l
    BY <2>1, <2>2 DEF Ev, Now, Stays
  <2>4. SUFFICES ASSUME clean PROVE Written(s)'
    BY <2>1, <2>2, ProgressMove DEF Now
  <2>5. CASE s = "created"
    <3>1. at[s].i = last /\ at[s].v = vs[Ev(s).v]
      BY <2>1, <2>4 DEF OneByOne
    <3>2. vs[Ev(s).v] \in {Absent, [stage |-> "dev", status |-> "pending"]}
      BY <2>1, <2>4, <2>5, <3>1 DEF NewIsNew, Ev
    <3>3. vs'[Ev(s).v] = [stage |-> "dev", status |-> "pending"] /\ l = "model"
      BY <2>1, <2>2, <2>5, <3>1, <3>2 DEF VersionWritten, GoesTo
    <3> QED BY <2>3, <2>5, <3>3 DEF Written
  <2>6. CASE s = "ready"
    <3>1. vs'[Ev(s).v].status = "ready"
      BY <2>1, <2>6 DEF VersionWritten
    <3> QED BY <2>3, <2>6, <3>1 DEF Written
  <2>7. CASE s = "promoted"
    <3>1. vs'[Ev(s).v].stage = Ev(s).to
      BY <2>1, <2>7 DEF VersionWritten
    <3>2. (l \in {"model", "putModel", "ack"} => Ev(s).demoted = NoVersion) /\ (l = "ack" => Ev(s).to # "production")
      BY <2>2, <2>7 DEF GoesTo
    <3> QED BY <2>3, <2>7, <3>1, <3>2 DEF Written
  <2> QED BY <2>1, <2>5, <2>6, <2>7
<1>6. ASSUME LoadDemoted PROVE Progress'
  <2>1. /\ Stays /\ vs' = vs /\ m' = m /\ at["promoted"].pc = "loadDemoted" /\ "promoted" \in Subjects
        /\ Now("promoted", "putDemoted", at["promoted"].i, vs[Ev("promoted").demoted], NoModel)
    BY <1>6, LoadDemotedStep DEF Subjects
  <2>2. clean => Written("promoted")'
    BY <1>p, <2>1 DEF Written, Now, Ev, Stays
  <2> QED BY <2>1, <2>2, ProgressMove DEF Now
<1>7. ASSUME UpsertDemoted PROVE Progress'
  <2> DEFINE x == Ev("promoted").demoted
  <2>1. /\ Stays /\ m' = m /\ at["promoted"].pc = "putDemoted" /\ "promoted" \in Subjects
        /\ at["promoted"].i \in DOMAIN log /\ Ev("promoted").subject = "promoted" /\ x # NoVersion
        /\ vs'[x] = [stage |-> "archived", status |-> Base(at["promoted"].v).status]
        /\ (\A u \in ModelVersions : u # x => vs'[u] = vs[u])
        /\ Now("promoted", "model", at["promoted"].i, Absent, NoModel)
    BY <1>7, UpsertDemotedStep DEF Subjects
  <2>2. Ev("promoted").v \in ModelVersions /\ x # Ev("promoted").v
    BY <2>1, EventFields DEF BehindInv
  <2>3. vs'[x].stage = "archived" /\ vs'[Ev("promoted").v] = vs[Ev("promoted").v]
    BY <2>1, <2>2
  <2>4. Ev("promoted")' = Ev("promoted") /\ at'["promoted"].pc = "model"
    BY <2>1 DEF Ev, Now, Stays
  <2>5. clean => Written("promoted")'
    BY <1>p, <2>1, <2>3, <2>4 DEF Written
  <2> QED BY <2>1, <2>5, ProgressMove DEF Now
<1>8. ASSUME NEW s \in Subjects, ModelLoaded(s) PROVE Progress'
  <2>1. /\ Stays /\ vs' = vs /\ m' = m /\ s \in {"created", "promoted", "archived"}
        /\ at[s].pc = (IF s = "archived" THEN "load" ELSE "model")
        /\ (at'[s].pc = "putModel" \/ (at'[s].pc = "ack" /\ at[s].i < m.updated))
        /\ at'[s].i = at[s].i /\ \A t \in Subjects : t # s => at'[t] = at[t]
    BY <1>8 DEF ModelLoaded, Now
  <2>2. SUFFICES ASSUME clean PROVE Written(s)'
    BY <2>1, ProgressMove
  <2>3. at[s].i = last /\ m.updated <= last
    BY <2>1, <2>2 DEF OneByOne
  <2>4. last \in Nat /\ m.updated \in Nat
    BY ModelFields DEF BehindInv, QueueTypeOK, RedisTypeOK
  <2>5. at'[s].pc = "putModel"
    BY <2>1, <2>3, <2>4
  <2>6. Ev(s)' = Ev(s)
    BY <2>1 DEF Ev, Stays
  <2>7. Written(s)
    BY <1>p, <2>2
  <2> QED BY <2>1, <2>5, <2>6, <2>7 DEF Written
<1>9. ASSUME NEW s \in Subjects, UpsertModel(s) PROVE Progress'
  <2>1. /\ Stays /\ vs' = vs /\ s \in {"created", "promoted", "archived"} /\ at[s].pc = "putModel"
        /\ ModelWritten(s, at[s].m) /\ Now(s, "ack", at[s].i, Absent, NoModel)
    BY <1>9, UpsertModelStep
  <2>2. /\ s = "created" => m'.latest = Ev(s).v
        /\ s = "promoted" => m'.production = Ev(s).v
        /\ s = "archived" => m'.archived = TRUE
    BY <2>1 DEF ModelWritten
  <2>3. Ev(s)' = Ev(s) /\ at'[s].pc = "ack"
    BY <2>1 DEF Ev, Now, Stays
  <2>4. clean => Written(s)'
    BY <1>p, <2>1, <2>2, <2>3 DEF Written
  <2> QED BY <2>1, <2>4, ProgressMove DEF Now
<1>10. ASSUME NEW s \in Subjects, Ack(s) PROVE Progress'
  <2>1. m' = m /\ vs' = vs /\ log' = log /\ clean' = clean /\ Now(s, "idle", 0, Absent, NoModel)
    BY <1>10, AckStep
  <2> QED BY <1>1, <2>1 DEF Now
<1>11. ASSUME NEW S, Ended(S) PROVE Progress'
  <2>1. m' = m /\ vs' = vs /\ log' = log /\ (clean' => clean)
        /\ \A t \in Subjects : at'[t] = at[t] \/ at'[t].pc = "idle"
    BY <1>11 DEF Ended
  <2> QED BY <1>1, <2>1
<1> QED BY <1>2, <1>3, <1>4, <1>5, <1>6, <1>7, <1>8, <1>9, <1>10, <1>11, ConsumerStep

-----------------------------------------------------------------------------
(* What no pending event is about is as in Postgres *)

LEMMA FreshCommand == ASSUME BehindInv, LogOrder, Fresh, Commands PROVE Fresh'
<1>0. SUFFICES ASSUME clean' PROVE Fresh'
  BY DEF Fresh
<1>1. Len(log) \in Nat /\ DOMAIN log = 1..Len(log) /\ TruthTypeOK /\ QueueTypeOK /\ clean
  BY <1>0, LogLength, CleanCommand DEF BehindInv
<1>2. m' = m /\ vs' = vs /\ Forward
  BY CommandKeeps
<1>3. ASSUME NEW e, Announced(e), Follows(e) PROVE Fresh'
  <2>1. Sent(e)
    BY <1>0, <1>1, <1>3, EmitStep DEF Announced, NotSent
  <2>2. /\ DOMAIN log' = DOMAIN log \cup {Len(log) + 1} /\ Len(log) + 1 \notin DOMAIN log
        /\ log'[Len(log) + 1] = e /\ (\A i \in DOMAIN log : log'[i] = log[i] /\ i < Len(log) + 1)
        /\ pending' = pending \cup {Len(log) + 1} /\ pending \subseteq DOMAIN log
    BY <1>1, <2>1 DEF Sent, QueueTypeOK
  <2>3. Len(log) + 1 \in pending' /\ \A i \in pending : i \in pending' /\ log'[i] = log[i]
    BY <2>2
  <2>4. ASSUME model' = "active", NEW v \in ModelVersions, \A i \in pending' : ~Restages(log'[i], v)
        PROVE  vs[v].stage = IF v \in DOMAIN rows' THEN rows'[v].stage ELSE "none"
    <3>1. ~Restages(e, v) /\ \A i \in pending : ~Restages(log[i], v)
      BY <2>2, <2>3, <2>4
    <3>2. SameStage(v)
      BY <1>3, <2>4, <3>1 DEF Follows
    <3>3. CASE model = "active"
      <4>1. vs[v].stage = IF v \in DOMAIN rows THEN rows[v].stage ELSE "none"
        BY <1>1, <2>4, <3>1, <3>3 DEF Fresh
      <4> QED BY <3>2, <4>1 DEF SameStage
    <3>4. CASE e.subject = "registered"
      <4>1. v \notin DOMAIN rows /\ v \notin DOMAIN rows'
        BY <1>3, <3>4 DEF Follows
      <4>2. vs[v] = Absent
        BY <2>4, <4>1 DEF BehindInv, RedisBehind, Behind
      <4> QED BY <4>1, <4>2, HashTypes
    <3> QED BY <1>3, <2>4, <3>3, <3>4 DEF Follows
  <2>5. ASSUME NEW v \in ModelVersions, \A i \in pending' : ~Restatuses(log'[i], v)
        PROVE  vs[v].status = IF v \in DOMAIN rows' THEN Shown(rows'[v]).status ELSE "none"
    <3>1. ~Restatuses(e, v) /\ \A i \in pending : ~Restatuses(log[i], v)
      BY <2>2, <2>3, <2>5
    <3>2. SameStatus(v)
      BY <1>3, <2>5, <3>1 DEF Follows
    <3>3. vs[v].status = IF v \in DOMAIN rows THEN Shown(rows[v]).status ELSE "none"
      BY <1>1, <2>5, <3>1 DEF Fresh
    <3> QED BY <3>2, <3>3 DEF SameStatus
  <2>6. ASSUME \A i \in pending' : log'[i].subject # "registered"
        PROVE  /\ m.there = (model' # "none")
               /\ (\A i \in pending' : log'[i].subject # "archived") => m.archived = (model' = "archived")
               /\ (\A i \in pending' : ~Produces(log'[i])) => Production(rows') \subseteq {m.production}
               /\ (\A i \in pending' : log'[i].subject # "created") =>
                   \A i \in DOMAIN log' :
                       log'[i].subject = "created" /\ (\A j \in DOMAIN log' : j > i => log'[j].subject # "created")
                       => m.latest = log'[i].v
    <3>1. e.subject # "registered" /\ \A i \in pending : log[i].subject # "registered"
      BY <2>2, <2>3, <2>6
    <3>2. m.there = (model' # "none")
      <4>1. m.there = (model # "none")
        BY <1>1, <3>1 DEF Fresh
      <4> QED BY <1>3, <3>1, <4>1 DEF Follows
    <3>3. ASSUME \A i \in pending' : log'[i].subject # "archived" PROVE m.archived = (model' = "archived")
      <4>1. e.subject # "archived" /\ \A i \in pending : log[i].subject # "archived"
        BY <2>2, <2>3, <3>3
      <4>2. m.archived = (model = "archived")
        BY <1>1, <3>1, <4>1 DEF Fresh
      <4> QED BY <1>2, <1>3, <4>1, <4>2 DEF Follows, Forward
    <3>4. ASSUME \A i \in pending' : ~Produces(log'[i]) PROVE Production(rows') \subseteq {m.production}
      <4>1. ~Produces(e) /\ \A i \in pending : ~Produces(log[i])
        BY <2>2, <2>3, <3>4
      <4>2. Production(rows) \subseteq {m.production}
        BY <1>1, <3>1, <4>1 DEF Fresh
      <4> QED BY <1>3, <4>1, <4>2 DEF Follows
    <3>5. ASSUME \A i \in pending' : log'[i].subject # "created", NEW i \in DOMAIN log', log'[i].subject = "created",
                 \A j \in DOMAIN log' : j > i => log'[j].subject # "created"
          PROVE  m.latest = log'[i].v
      <4>1. e.subject # "created" /\ \A j \in pending : log[j].subject # "created"
        BY <2>2, <2>3, <3>5
      <4>2. i \in DOMAIN log /\ log'[i] = log[i] /\ \A j \in DOMAIN log : j > i => log[j].subject # "created"
        BY <2>2, <3>5, <4>1
      <4> QED BY <1>1, <3>1, <3>5, <4>1, <4>2 DEF Fresh
    <3> QED BY <3>2, <3>3, <3>4, <3>5
  <2> QED BY <1>2, <2>4, <2>5, <2>6 DEF Fresh, Restages, Restatuses, Produces, Production, Shown
<1>4. ASSUME Silent, Unannounced PROVE Fresh'
  <2>1. log' = log /\ pending' = pending /\ model' = model /\ Production(rows') \subseteq Production(rows)
        /\ \A u \in ModelVersions : SameStage(u) /\ SameStatus(u)
    BY <1>4 DEF Silent, Unannounced
  <2>2. ASSUME model = "active", NEW v \in ModelVersions, \A i \in pending : ~Restages(log[i], v)
        PROVE  vs[v].stage = IF v \in DOMAIN rows' THEN rows'[v].stage ELSE "none"
    <3>1. vs[v].stage = IF v \in DOMAIN rows THEN rows[v].stage ELSE "none"
      BY <1>1, <2>2 DEF Fresh
    <3> QED BY <2>1, <3>1 DEF SameStage
  <2>3. ASSUME NEW v \in ModelVersions, \A i \in pending : ~Restatuses(log[i], v)
        PROVE  vs[v].status = IF v \in DOMAIN rows' THEN Shown(rows'[v]).status ELSE "none"
    <3>1. vs[v].status = IF v \in DOMAIN rows THEN Shown(rows[v]).status ELSE "none"
      BY <1>1, <2>3 DEF Fresh
    <3> QED BY <2>1, <3>1 DEF SameStatus
  <2>4. (\A i \in pending : log[i].subject # "registered") /\ (\A i \in pending : ~Produces(log[i]))
        => Production(rows') \subseteq {m.production}
    BY <1>1, <2>1 DEF Fresh
  <2> QED BY <1>1, <1>2, <2>1, <2>2, <2>3, <2>4 DEF Fresh, Restages, Restatuses, Produces, Production, Shown
<1> QED BY <1>3, <1>4, CommandFollows

\* A step that changes neither Redis nor the queue.
LEMMA FreshKept ==
    ASSUME Fresh, clean' => clean /\ pending' = pending, model' = model, rows' = rows, log' = log, m' = m, vs' = vs
    PROVE  Fresh'
  BY Zenon DEF Fresh, Restages, Restatuses, Produces, Production, Shown

\* What a version shows of Postgres when nothing pending is about it is more than nothing.
LEMMA FreshIsThere ==
    ASSUME BehindInv, NEW v \in DOMAIN rows,
           vs[v].stage = rows[v].stage \/ vs[v].status = Shown(rows[v]).status
    PROVE  vs[v] # Absent /\ Base(vs[v]) = vs[v]
<1>1. rows[v] \in [stage : Stages, status : Statuses] /\ v \in ModelVersions /\ vs[v] \in VersionHashes
  BY DEF BehindInv, TruthTypeOK, RedisTypeOK
<1>2. rows[v].stage # "none" /\ rows[v].status # "none"
  BY <1>1 DEF Stages, Statuses
<1>3. Shown(rows[v]).status # "none"
  BY <1>1, <1>2, ShownStatus
<1>4. vs[v] # Absent
  BY <1>2, <1>3, HashTypes
<1> QED BY <1>1, <1>4, VersionFields

\* Handler s writes version x: one field, which its event is about, and keeps the other.
LEMMA FreshVersion ==
    ASSUME BehindInv, Fresh, Stays, m' = m, NEW s \in Subjects, clean => at[s].i \in pending,
           NEW x \in DOMAIN rows, \A u \in ModelVersions : u # x => vs'[u] = vs[u],
           clean => Restages(Ev(s), x) \/ vs'[x].stage = Base(vs[x]).stage,
           clean => Restatuses(Ev(s), x) \/ vs'[x].status = Base(vs[x]).status
    PROVE  Fresh'
<1>1. SUFFICES ASSUME clean PROVE Fresh'
  BY DEF Fresh, Stays
<1>2. at[s].i \in pending /\ Ev(s) = log[at[s].i]
  BY <1>1 DEF Ev
<1>3. ASSUME model = "active", NEW v \in ModelVersions, \A i \in pending : ~Restages(log[i], v)
      PROVE  vs'[v].stage = IF v \in DOMAIN rows THEN rows[v].stage ELSE "none"
  <2>1. vs[v].stage = IF v \in DOMAIN rows THEN rows[v].stage ELSE "none"
    BY <1>1, <1>3 DEF Fresh
  <2>2. CASE v = x
    <3>1. vs[x].stage = rows[x].stage /\ ~Restages(Ev(s), x)
      BY <1>2, <1>3, <2>1, <2>2
    <3>2. Base(vs[x]) = vs[x]
      BY <3>1, FreshIsThere
    <3> QED BY <1>1, <2>2, <3>1, <3>2
  <2> QED BY <2>1, <2>2
<1>4. ASSUME NEW v \in ModelVersions, \A i \in pending : ~Restatuses(log[i], v)
      PROVE  vs'[v].status = IF v \in DOMAIN rows THEN Shown(rows[v]).status ELSE "none"
  <2>1. vs[v].status = IF v \in DOMAIN rows THEN Shown(rows[v]).status ELSE "none"
    BY <1>1, <1>4 DEF Fresh
  <2>2. CASE v = x
    <3>1. vs[x].status = Shown(rows[x]).status /\ ~Restatuses(Ev(s), x)
      BY <1>2, <1>4, <2>1, <2>2
    <3>2. Base(vs[x]) = vs[x]
      BY <3>1, FreshIsThere
    <3> QED BY <1>1, <2>2, <3>1, <3>2
  <2> QED BY <2>1, <2>2
<1>5. model' = model /\ rows' = rows /\ log' = log /\ pending' = pending
  BY DEF Stays
<1> QED BY <1>1, <1>3, <1>4, <1>5 DEF Fresh, Restages, Restatuses, Produces, Production, Shown

\* The acknowledgement of the newest event: nothing later is pending on its matter, so it
\* says what Postgres says, and its handler has written it.
LEMMA FreshAck ==
    ASSUME BehindInv, OneByOne, LogOrder, LogTruth, Progress, Fresh, NEW s \in Subjects, Ack(s)
    PROVE  Fresh'
<1>1. /\ at[s].pc = "ack" /\ at[s].i \in DOMAIN log /\ Ev(s).subject = s /\ pending' = pending \ {at[s].i}
      /\ m' = m /\ vs' = vs /\ model' = model /\ rows' = rows /\ log' = log /\ clean' = clean
  BY AckStep
<1>2. SUFFICES ASSUME clean PROVE Fresh'
  BY <1>1 DEF Fresh
<1>3. at[s].i = last /\ last \in DOMAIN log /\ log[last] = Ev(s) /\ pending' = pending \ {last}
      /\ pending \subseteq DOMAIN log /\ DOMAIN log = 1..Len(log) /\ Len(log) \in Nat
      /\ \A j \in DOMAIN log : j > last => j \in pending'
  <2>1. at[s].i = last /\ \A j \in DOMAIN log : j > last => j \in pending
    BY <1>1, <1>2 DEF OneByOne
  <2>2. DOMAIN log = 1..Len(log) /\ Len(log) \in Nat
    BY LogLength DEF BehindInv
  <2> QED BY <1>1, <2>1, <2>2 DEF Ev, BehindInv, QueueTypeOK
<1>4. Written(s) /\ EventTrue(Ev(s))
  BY <1>1, <1>2, EventFields DEF Progress, BehindInv
<1>5. \A i \in pending : i \in pending' \/ log[i] = Ev(s)
  BY <1>3
<1>6. ASSUME model = "active", NEW v \in ModelVersions, \A i \in pending' : ~Restages(log[i], v)
      PROVE  vs[v].stage = IF v \in DOMAIN rows THEN rows[v].stage ELSE "none"
  <2>1. CASE ~Restages(Ev(s), v)
    <3>1. \A i \in pending : ~Restages(log[i], v)
      BY <1>5, <1>6, <2>1
    <3> QED BY <1>2, <1>6, <3>1 DEF Fresh
  <2>2. CASE Restages(Ev(s), v)
    <3>1. v \in DOMAIN rows
      BY <1>3, <2>2, TouchedExists
    <3>2. rows[v].stage = StageBy(Ev(s), v)
      <4>1. Restages(log[last], v) /\ \A j \in DOMAIN log : j > last => ~Restages(log[j], v)
        BY <1>3, <1>6, <2>2
      <4> QED BY <1>2, <1>3, <1>6, <4>1 DEF LogTruth
    <3>3. vs[v].stage = StageBy(Ev(s), v)
      BY <1>1, <1>4, <2>2, VersionsAssumption DEF Written, Restages, StageBy
    <3> QED BY <3>1, <3>2, <3>3
  <2> QED BY <2>1, <2>2
<1>7. ASSUME NEW v \in ModelVersions, \A i \in pending' : ~Restatuses(log[i], v)
      PROVE  vs[v].status = IF v \in DOMAIN rows THEN Shown(rows[v]).status ELSE "none"
  <2>1. CASE ~Restatuses(Ev(s), v)
    <3>1. \A i \in pending : ~Restatuses(log[i], v)
      BY <1>5, <1>7, <2>1
    <3> QED BY <1>2, <1>7, <3>1 DEF Fresh
  <2>2. CASE Restatuses(Ev(s), v)
    <3>1. v \in DOMAIN rows
      BY <1>3, <2>2, TouchedExists
    <3>2. (rows[v].status = "ready") = (Ev(s).subject = "ready")
      <4>1. Restatuses(log[last], v) /\ \A j \in DOMAIN log : j > last => ~Restatuses(log[j], v)
        BY <1>3, <1>7, <2>2
      <4> QED BY <1>2, <1>3, <1>7, <4>1 DEF LogTruth
    <3>3. rows[v] \in [stage : Stages, status : Statuses]
      BY <3>1 DEF BehindInv, TruthTypeOK
    <3>4. Shown(rows[v]).status = IF rows[v].status = "failed" THEN "pending" ELSE rows[v].status
      BY <3>3, ShownStatus
    <3>5. Shown(rows[v]).status = IF Ev(s).subject = "ready" THEN "ready" ELSE "pending"
      BY <3>2, <3>3, <3>4 DEF Statuses
    <3>6. vs[v].status = IF Ev(s).subject = "ready" THEN "ready" ELSE "pending"
      BY <1>1, <1>4, <2>2 DEF Written, Restatuses
    <3> QED BY <3>1, <3>5, <3>6
  <2> QED BY <2>1, <2>2
<1>8. ASSUME s # "registered", \A i \in pending' : log[i].subject # "registered"
      PROVE  /\ m.there = (model # "none")
             /\ (\A i \in pending' : log[i].subject # "archived") => m.archived = (model = "archived")
             /\ (\A i \in pending' : ~Produces(log[i])) => Production(rows) \subseteq {m.production}
             /\ (\A i \in pending' : log[i].subject # "created") =>
                 \A i \in DOMAIN log :
                     log[i].subject = "created" /\ (\A j \in DOMAIN log : j > i => log[j].subject # "created")
                     => m.latest = log[i].v
  <2>1. \A i \in pending : log[i].subject # "registered"
    BY <1>1, <1>5, <1>8
  <2>2. m.there = (model # "none")
    BY <1>2, <2>1 DEF Fresh
  <2>3. ASSUME \A i \in pending' : log[i].subject # "archived" PROVE m.archived = (model = "archived")
    <3>1. CASE s = "archived"
      <4>1. model = "archived" /\ m.archived
        BY <1>1, <1>4, <3>1 DEF EventTrue, Written
      <4>2. m.archived \in BOOLEAN
        BY ModelFields DEF BehindInv, RedisTypeOK
      <4> QED BY <4>1, <4>2
    <3>2. CASE s # "archived"
      <4>1. \A i \in pending : log[i].subject # "archived"
        BY <1>1, <1>5, <2>3, <3>2
      <4> QED BY <1>2, <2>1, <4>1 DEF Fresh
    <3> QED BY <3>1, <3>2
  <2>4. ASSUME \A i \in pending' : ~Produces(log[i]) PROVE Production(rows) \subseteq {m.production}
    <3>1. CASE Produces(Ev(s))
      <4>1. Produces(log[last]) /\ \A j \in DOMAIN log : j > last => ~Produces(log[j])
        BY <1>3, <2>4, <3>1
      <4>2. Production(rows) \subseteq {Ev(s).v}
        BY <1>2, <1>3, <4>1 DEF LogTruth
      <4>3. m.production = Ev(s).v
        BY <1>1, <1>4, <3>1 DEF Written, Produces
      <4> QED BY <4>2, <4>3
    <3>2. CASE ~Produces(Ev(s))
      <4>1. \A i \in pending : ~Produces(log[i])
        BY <1>5, <2>4, <3>2
      <4> QED BY <1>2, <2>1, <4>1 DEF Fresh
    <3> QED BY <3>1, <3>2
  <2>5. ASSUME \A i \in pending' : log[i].subject # "created", NEW i \in DOMAIN log, log[i].subject = "created",
               \A j \in DOMAIN log : j > i => log[j].subject # "created"
        PROVE  m.latest = log[i].v
    <3>1. CASE s = "created"
      <4>1. ~(i > last) /\ ~(last > i)
        BY <1>1, <1>3, <2>5, <3>1
      <4>2. i = last
        BY <1>3, <4>1
      <4> QED BY <1>1, <1>3, <1>4, <3>1, <4>2 DEF Written
    <3>2. CASE s # "created"
      <4>1. \A j \in pending : log[j].subject # "created"
        BY <1>1, <1>5, <2>5, <3>2
      <4> QED BY <1>2, <2>1, <2>5, <4>1 DEF Fresh
    <3> QED BY <3>1, <3>2
  <2> QED BY <2>2, <2>3, <2>4, <2>5
<1>9. ASSUME s = "registered"
      PROVE  /\ m.there = (model # "none")
             /\ (\A i \in pending' : log[i].subject # "archived") => m.archived = (model = "archived")
             /\ (\A i \in pending' : ~Produces(log[i])) => Production(rows) \subseteq {m.production}
             /\ (\A i \in pending' : log[i].subject # "created") =>
                 \A i \in DOMAIN log :
                     log[i].subject = "created" /\ (\A j \in DOMAIN log : j > i => log[j].subject # "created")
                     => m.latest = log[i].v
  <2>1. last = 1 /\ m.there /\ ~m.archived /\ model # "none"
    BY <1>1, <1>3, <1>4, <1>9 DEF LogOrder, Written, EventTrue
  <2>2. \A j \in DOMAIN log : j \in pending' \/ log[j].subject = "registered"
    BY <1>1, <1>3, <1>9, <2>1
  <2>3. \E j \in DOMAIN log : log[j].subject = "registered"
    BY <1>1, <1>3, <1>9
  <2>4. model = "archived" => \E j \in DOMAIN log : log[j].subject = "archived"
    BY <1>2, <2>3 DEF LogTruth
  <2>5. Production(rows) # {} => \E j \in DOMAIN log : Produces(log[j])
    BY <1>2, <2>3 DEF LogTruth
  <2>6. m.archived \in BOOLEAN /\ m.there \in BOOLEAN
    BY ModelFields DEF BehindInv, RedisTypeOK
  <2>7. (\A i \in pending' : log[i].subject # "archived") => m.archived = (model = "archived")
    BY <2>1, <2>2, <2>4, <2>6
  <2>8. (\A i \in pending' : ~Produces(log[i])) => Production(rows) = {}
    BY <2>2, <2>5 DEF Produces
  <2>9. (\A i \in pending' : log[i].subject # "created") => \A i \in DOMAIN log : log[i].subject # "created"
    BY <2>2
  <2> QED BY <2>1, <2>6, <2>7, <2>8, <2>9
<1> QED BY <1>1, <1>2, <1>6, <1>7, <1>8, <1>9 DEF Fresh, Restages, Restatuses, Produces, Production, Shown

LEMMA FreshConsumer ==
    ASSUME BehindInv, OneByOne, LogOrder, LogTruth, Progress, Fresh, ProjNext, ~Commands PROVE Fresh'
<1>s. ASSUME Stays, m' = m, vs' = vs PROVE Fresh'
  BY <1>s, FreshKept DEF Stays
<1>1. ASSUME NEW s \in Subjects, NEW i \in pending, Deliver(s, i) PROVE Fresh'
  BY <1>1, DeliverStep, FreshKept
<1>2. ASSUME UpsertRegistered PROVE Fresh'
  <2>1. Stays /\ vs' = vs /\ at["registered"].pc = "load" /\ "registered" \in Subjects
    BY <1>2, RegisteredStep DEF Subjects
  <2>2. model' = model /\ rows' = rows /\ log' = log /\ pending' = pending /\ clean' = clean
    BY <2>1 DEF Stays
  <2>3. clean => \E i \in pending : log[i].subject = "registered"
    BY <2>1 DEF OneByOne, BehindInv, HandlersOK, HandlerOK, Ev
  <2> QED BY <2>1, <2>2, <2>3, Zenon DEF Fresh, Restages, Restatuses, Shown
<1>3. ASSUME NEW s \in Subjects, LoadVersion(s) PROVE Fresh'
  BY <1>3, <1>s, LoadVersionStep
<1>4. ASSUME NEW s \in Subjects, UpsertVersion(s) PROVE Fresh'
  <2>1. /\ Stays /\ m' = m /\ s \in {"created", "ready", "promoted"} /\ at[s].pc = "put"
        /\ VersionWritten(s, Ev(s).v) /\ Ev(s).subject = s /\ at[s].i \in DOMAIN log
    BY <1>4, UpsertVersionStep
  <2>2. PICK x : x = Ev(s).v
    OBVIOUS
  <2>3. x \in DOMAIN rows
    BY <2>1, <2>2, EventFields DEF BehindInv
  <2>4. \A u \in ModelVersions : u # x => vs'[u] = vs[u]
    BY <2>1, <2>2 DEF VersionWritten
  <2>5. clean => at[s].i \in pending /\ at[s].v = vs[x]
    BY <2>1, <2>2 DEF OneByOne
  <2>6. clean => Restages(Ev(s), x) \/ vs'[x].stage = Base(vs[x]).stage
    BY <2>1, <2>2, <2>5 DEF VersionWritten, Restages
  <2>7. clean => Restatuses(Ev(s), x) \/ vs'[x].status = Base(vs[x]).status
    BY <2>1, <2>2, <2>5 DEF VersionWritten, Restatuses
  <2> QED BY <2>1, <2>3, <2>4, <2>5, <2>6, <2>7, FreshVersion
<1>5. ASSUME LoadDemoted PROVE Fresh'
  BY <1>5, <1>s, LoadDemotedStep
<1>6. ASSUME UpsertDemoted PROVE Fresh'
  <2>1. PICK x : x = Ev("promoted").demoted
    OBVIOUS
  <2>2. /\ Stays /\ m' = m /\ at["promoted"].pc = "putDemoted" /\ "promoted" \in Subjects
        /\ at["promoted"].i \in DOMAIN log /\ Ev("promoted").subject = "promoted" /\ x # NoVersion
        /\ vs'[x] = [stage |-> "archived", status |-> Base(at["promoted"].v).status]
        /\ (\A u \in ModelVersions : u # x => vs'[u] = vs[u])
    BY <1>6, <2>1, UpsertDemotedStep DEF Subjects
  <2>3. x \in DOMAIN rows
    BY <2>1, <2>2, EventFields DEF BehindInv
  <2>4. clean => at["promoted"].i \in pending /\ at["promoted"].v = vs[x]
    BY <2>1, <2>2 DEF OneByOne
  <2>5. Restages(Ev("promoted"), x)
    BY <2>1, <2>2 DEF Restages
  <2>6. clean => vs'[x].status = Base(vs[x]).status
    BY <2>2, <2>4
  <2> QED BY <2>2, <2>3, <2>4, <2>5, <2>6, FreshVersion
<1>7. ASSUME NEW s \in Subjects, ModelLoaded(s) PROVE Fresh'
  BY <1>7, <1>s DEF ModelLoaded
<1>8. ASSUME NEW s \in Subjects, UpsertModel(s) PROVE Fresh'
  <2>1. /\ Stays /\ vs' = vs /\ s \in {"created", "promoted", "archived"} /\ at[s].pc = "putModel"
        /\ ModelWritten(s, at[s].m) /\ Ev(s).subject = s
    BY <1>8, UpsertModelStep
  <2>2. model' = model /\ rows' = rows /\ log' = log /\ pending' = pending /\ clean' = clean
    BY <2>1 DEF Stays
  <2>3. SUFFICES ASSUME clean PROVE Fresh'
    BY <2>2 DEF Fresh
  <2>4. at[s].i \in pending /\ log[at[s].i] = Ev(s) /\ at[s].m = m
    BY <2>1, <2>3 DEF OneByOne, Ev
  <2>5. /\ m'.there = m.there
        /\ s # "archived" => m'.archived = m.archived
        /\ s # "promoted" => m'.production = m.production
        /\ s # "created" => m'.latest = m.latest
    BY <2>1, <2>4 DEF ModelWritten
  <2>6. s = "promoted" => Produces(Ev(s))
    BY <2>1 DEF BehindInv, HandlersOK, HandlerOK, Produces
  <2>7. (\A i \in pending : log[i].subject # "registered") => m'.there = (model # "none")
    BY <2>3, <2>5 DEF Fresh
  <2>8. (\A i \in pending : log[i].subject # "registered") /\ (\A i \in pending : log[i].subject # "archived")
        => m'.archived = (model = "archived")
    BY <2>1, <2>3, <2>4, <2>5 DEF Fresh
  <2>9. (\A i \in pending : log[i].subject # "registered") /\ (\A i \in pending : ~Produces(log[i]))
        => Production(rows) \subseteq {m'.production}
    BY <2>3, <2>4, <2>5, <2>6 DEF Fresh
  <2>10. (\A i \in pending : log[i].subject # "registered") /\ (\A i \in pending : log[i].subject # "created") =>
            \A i \in DOMAIN log :
                log[i].subject = "created" /\ (\A j \in DOMAIN log : j > i => log[j].subject # "created")
                => m'.latest = log[i].v
    BY <2>1, <2>3, <2>4, <2>5 DEF Fresh
  <2> QED BY <2>1, <2>2, <2>3, <2>7, <2>8, <2>9, <2>10, Zenon DEF Fresh, Restages, Restatuses, Produces, Production, Shown
<1>9. ASSUME NEW s \in Subjects, Ack(s) PROVE Fresh'
  BY <1>9, FreshAck
<1>10. ASSUME NEW S, Ended(S) PROVE Fresh'
  BY <1>10, FreshKept DEF Ended
<1> QED BY <1>1, <1>2, <1>3, <1>4, <1>5, <1>6, <1>7, <1>8, <1>9, <1>10, ConsumerStep

LEMMA InOrderInit == ProjInit => OrderInv
<1> SUFFICES ASSUME ProjInit PROVE OrderInv
  OBVIOUS
<1>1. TruthTypeOK /\ log = << >> /\ DOMAIN log = {} /\ Len(log) = 0 /\ pending = {} /\ last = 0 /\ m.updated = 0
      /\ \A s \in Subjects : at[s].pc = "idle"
  BY InitFacts
<1>2. OneByOne /\ LogTruth /\ NewIsNew
  BY <1>1 DEF OneByOne, LogTruth, NewIsNew
<1>3. LogOrder
  BY <1>1, InitFacts DEF LogOrder
<1>4. Progress
  BY <1>1 DEF Progress, Written
<1>5. \A v \in ModelVersions : /\ vs[v].stage = IF v \in DOMAIN rows THEN rows[v].stage ELSE "none"
                               /\ vs[v].status = IF v \in DOMAIN rows THEN Shown(rows[v]).status ELSE "none"
  BY InitFacts, HashTypes
<1>6. Production(rows) \subseteq {m.production}
  <2>1. SUFFICES ASSUME NEW u \in Production(rows) PROVE u = m.production
    OBVIOUS
  <2>2. Incumbent(rows) \in Production(rows)
    BY <2>1, Zenon DEF Incumbent
  <2> QED BY <2>1, <2>2, InitFacts
<1>7. Fresh
  BY <1>1, <1>5, <1>6, InitFacts, Zenon DEF Fresh
<1> QED BY <1>2, <1>3, <1>4, <1>7 DEF OrderInv

LEMMA InOrderStep == ASSUME BehindInv, OrderInv, ProjNext PROVE OrderInv'
<1> USE DEF OrderInv
<1>1. CASE Commands
  BY <1>1, InOrderCommand, OrderCommand, TruthCommand, NewCommand, ProgressCommand, FreshCommand
<1>2. CASE ~Commands
  <2>1. model' = model /\ rows' = rows /\ log' = log /\ (clean' => clean)
    <3>1. ASSUME NEW s \in Subjects, NEW i \in pending, Deliver(s, i)
          PROVE  model' = model /\ rows' = rows /\ log' = log /\ (clean' => clean)
      BY <3>1, DeliverStep
    <3>2. ASSUME NEW s \in Subjects, Ack(s)
          PROVE  model' = model /\ rows' = rows /\ log' = log /\ (clean' => clean)
      BY <3>2, AckStep
    <3>3. ASSUME NEW S, Ended(S) PROVE model' = model /\ rows' = rows /\ log' = log /\ (clean' => clean)
      BY <3>3 DEF Ended
    <3>4. ASSUME Stays PROVE model' = model /\ rows' = rows /\ log' = log /\ (clean' => clean)
      BY <3>4 DEF Stays
    <3>5. \A s \in Subjects : ModelLoaded(s) => Stays
      BY DEF ModelLoaded
    <3> QED BY <1>2, <3>1, <3>2, <3>3, <3>4, <3>5, ConsumerStep, RegisteredStep, LoadVersionStep,
               UpsertVersionStep, LoadDemotedStep, UpsertDemotedStep, UpsertModelStep
  <2> QED BY <1>2, <2>1, LogKept, InOrderConsumer, NewConsumer, ProgressConsumer, FreshConsumer
<1> QED BY <1>1, <1>2

LEMMA InOrderStutter == ASSUME OrderInv, UNCHANGED projVars PROVE OrderInv'
<1>1. model' = model /\ rows' = rows /\ log' = log /\ m' = m /\ vs' = vs /\ at' = at
      /\ pending' = pending /\ last' = last /\ clean' = clean
  BY DEF projVars, truth, redis
<1>2. LogOrder' /\ LogTruth' /\ Fresh'
  BY <1>1, LogKept, FreshKept DEF OrderInv
<1>3. OneByOne' /\ NewIsNew'
  BY <1>1 DEF OrderInv, OneByOne, NewIsNew, Ev
<1>4. Progress'
  BY <1>1 DEF OrderInv, Progress, Written, Ev
<1> QED BY <1>2, <1>3, <1>4 DEF OrderInv

\* In a clean history the log's last word on a matter is Postgres's, and what no pending
\* event is about reads in Redis as in Postgres.
THEOREM OrderedHistoryInvariant == ProjSpec => []OrderInv
<1>1. BehindInv /\ OrderInv /\ [ProjNext]_projVars => OrderInv'
  BY InOrderStep, InOrderStutter
<1> QED BY InOrderInit, ProjectionInvariant, <1>1, PTL DEF ProjSpec

\* Applied one at a time and in order, with any number of failed and repeated tries of
\* each, the events leave the read side of a live model equal to Postgres.
THEOREM InOrderConverges == ProjSpec => []ConvergesInOrder
<1>1. BehindInv /\ OrderInv => ConvergesInOrder
  <2>1. SUFFICES ASSUME BehindInv, OrderInv, clean, pending = {}
                 PROVE  /\ m.there = (model # "none") /\ m.archived = (model = "archived")
                        /\ model = "active" =>
                            /\ vs = [v \in ModelVersions |-> IF v \in DOMAIN rows THEN Shown(rows[v]) ELSE Absent]
                            /\ Incumbent(rows) \in {NoVersion, m.production}
                            /\ \A i \in DOMAIN log :
                                log[i].subject = "created" /\ (\A j \in DOMAIN log : j > i => log[j].subject # "created")
                                => m.latest = log[i].v
    BY Zenon DEF ConvergesInOrder, Quiet
  <2>2. Fresh
    BY <2>1 DEF OrderInv
  <2>3. m.there = (model # "none") /\ m.archived = (model = "archived") /\ Production(rows) \subseteq {m.production}
    BY <2>1, <2>2 DEF Fresh
  <2>4. \A i \in DOMAIN log :
            log[i].subject = "created" /\ (\A j \in DOMAIN log : j > i => log[j].subject # "created")
            => m.latest = log[i].v
    BY <2>1, <2>2 DEF Fresh
  <2>5. Incumbent(rows) \in {NoVersion, m.production}
    <3>1. Production(rows) # {} => Incumbent(rows) \in Production(rows)
      BY Zenon DEF Incumbent
    <3>2. Production(rows) = {} => Incumbent(rows) = NoVersion
      BY DEF Incumbent
    <3> QED BY <2>3, <3>1, <3>2
  <2>6. ASSUME model = "active", NEW v \in ModelVersions
        PROVE  vs[v] = IF v \in DOMAIN rows THEN Shown(rows[v]) ELSE Absent
    <3>1. /\ vs[v].stage = IF v \in DOMAIN rows THEN rows[v].stage ELSE "none"
          /\ vs[v].status = IF v \in DOMAIN rows THEN Shown(rows[v]).status ELSE "none"
      BY <2>1, <2>2, <2>6 DEF Fresh
    <3>2. vs[v] = [stage |-> vs[v].stage, status |-> vs[v].status]
      BY <2>1, VersionFields DEF BehindInv, RedisTypeOK
    <3>3. CASE v \in DOMAIN rows
      <4>1. rows[v] \in [stage : Stages, status : Statuses]
        BY <2>1, <3>3 DEF BehindInv, TruthTypeOK
      <4>2. Shown(rows[v]) = [stage |-> rows[v].stage, status |-> Shown(rows[v]).status]
        BY <4>1, ShownStatus
      <4> QED BY <3>1, <3>2, <3>3, <4>2
    <3>4. CASE v \notin DOMAIN rows
      BY <3>1, <3>2, <3>4 DEF Absent
    <3> QED BY <3>3, <3>4
  <2>7. model = "active" => vs = [v \in ModelVersions |-> IF v \in DOMAIN rows THEN Shown(rows[v]) ELSE Absent]
    <3>1. vs = [v \in ModelVersions |-> vs[v]]
      BY <2>1 DEF BehindInv, RedisTypeOK
    <3> QED BY <2>6, <3>1, Zenon
  <2> QED BY <2>3, <2>4, <2>5, <2>7
<1> QED BY ProjectionInvariant, OrderedHistoryInvariant, <1>1, PTL

=============================================================================
