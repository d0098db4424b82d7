-------------------------- MODULE InferenceGateway ---------------------------
(***************************************************************************)
(* The inference gateway for one team's model: the Predict pipeline (quota, *)
(* rate limit, route, traffic split, circuit breaker, deadline-bound call), *)
(* and the routing table, an in-memory map mirrored to Redis, written by    *)
(* five event consumers and by the admin RPCs, and warmed from the mirror   *)
(* when the process starts.                                                 *)
(*                                                                          *)
(* Source: services/inference-gateway/internal: domain/                     *)
(* inference_service_impl.go, models.go, traffic_splitter.go and            *)
(* circuit_breaker.go (module CircuitBreaker), repository/redis/            *)
(* route_store.go, rate_limiter.go and quota_checker.go, events/            *)
(* subscribers.go.  A target is known by its version: an endpoint is what a *)
(* version in the route has.  Events come from the bus in any order, any    *)
(* number of times.                                                         *)
(***************************************************************************)
EXTENDS CircuitBreaker, FiniteSets, Sequences, Functions, FiniteSetsExt

CONSTANTS
    Versions,
    Callers,        \* concurrent Predicts
    Writers,        \* event handlers and admin RPCs in progress
    TotalWeight,    \* TotalWeightBps
    CallTimeout,    \* ticks a backend call may take
    Burst,          \* the rate limiter's bucket; it refills one token per tick
    MaxChanges,     \* bound: route changes begun
    MaxFaults       \* bound: restarts and failed mirror writes

ASSUME TimeoutAssumption == CallTimeout \in Nat /\ CallTimeout < ResetTimeout
ASSUME RouteAssumption   == TotalWeight \in Nat \ {0} /\ Burst \in Nat \ {0}

VARIABLES
    table,      \* the route in memory: its targets by version, none for no route
    mirror,     \* the same in Redis
    writer,     \* what each writer is doing
    breakers,   \* one per version
    call,       \* what each caller is doing
    blocked,    \* the team's quota flag
    bucket,     \* the API key's tokens
    stale,      \* history: the mirror missed a write, or got two in the wrong order
    changes, faults

routes == <<table, mirror, writer, stale, changes>>
serve  == <<breakers, call, blocked, bucket>>
vars   == <<routes, serve, faults>>

NoRoute == << >>
Idle    == [pc |-> "idle"]
Weights == 0..TotalWeight
Target(weight, active, stable) == [weight |-> weight, active |-> active, stable |-> stable]

\* A process that has warmed its table: nothing is deployed yet, or one version serves.
Init ==
    /\ mirror \in {NoRoute} \cup {[v \in {u} |-> Target(TotalWeight, TRUE, TRUE)] : u \in Versions}
    /\ table = mirror /\ writer = [w \in Writers |-> Idle]
    /\ breakers = [v \in Versions |-> newCircuitBreaker]
    /\ call = [c \in Callers |-> Idle] /\ blocked = FALSE /\ bucket = Burst
    /\ stale = FALSE /\ changes = 0 /\ faults = 0

-----------------------------------------------------------------------------
(* Routes *)

Eligible(r)        == {v \in DOMAIN r : r[v].active}
ActiveWeightSum(r) == FoldSet(LAMBDA v, n : r[v].weight + n, 0, Eligible(r))

\* What the draw of the traffic splitter can give: an eligible target with a band.
Pick(r) == {v \in Eligible(r) : r[v].weight > 0}

\* The first version is the stable one; an update keeps that and revives the target.
ApplyModelDeployed(r, v, weight) ==
    [u \in DOMAIN r \cup {v} |->
        IF u # v THEN r[u]
        ELSE Target(weight, TRUE, IF v \in DOMAIN r THEN r[v].stable ELSE r = NoRoute)]

\* Mutant: the promoted version joins the old stable one.
ApplyModelPromoted_KeepsStable(r, v) ==
    [u \in DOMAIN r |-> IF u = v THEN Target(TotalWeight, TRUE, TRUE) ELSE Target(0, FALSE, r[u].stable)]

\* All traffic to v, the others drain.
ApplyModelPromoted(r, v) ==
    [u \in DOMAIN r |-> IF u = v THEN Target(TotalWeight, TRUE, TRUE) ELSE Target(0, FALSE, FALSE)]

\* UpsertRoute and SetTrafficSplit, for the proposed weights p.
UpsertRoute(r, p)     == [v \in DOMAIN p |-> Target(p[v], TRUE, r[v].stable)]
SetTrafficSplit(r, p) == [v \in DOMAIN r |-> IF v \in DOMAIN p THEN [r[v] EXCEPT !.weight = p[v]] ELSE r[v]]

\* The routes a command may write, computed from the route it read; none when it is
\* refused (a promotion of an unknown version, a proposal that does not sum up) or has
\* nothing to do.
Proposals(r) == UNION {[D -> Weights] : D \in SUBSET DOMAIN r \ {{}}}
Results(op, r) ==
    CASE op = "deployed"   -> {ApplyModelDeployed(r, v, n) : v \in Versions, n \in Weights}
      [] op = "undeployed" -> IF r = NoRoute THEN {} ELSE {Restrict(r, DOMAIN r \ {v}) : v \in Versions}
      [] op = "promoted"   -> {ApplyModelPromoted(r, v) : v \in DOMAIN r}
      [] op = "archived"   -> {NoRoute}
      [] op = "upsert"     -> {n \in {UpsertRoute(r, p) : p \in Proposals(r)} : ActiveWeightSum(n) = TotalWeight}
      [] op = "split"      -> {n \in {SetTrafficSplit(r, p) : p \in Proposals(r)} : ActiveWeightSum(n) = TotalWeight}

Ops == {"deployed", "undeployed", "promoted", "archived", "upsert", "split"}

\* A handler or an RPC reads the route and works out the new one.
Read(w) ==
    /\ writer[w].pc = "idle" /\ changes < MaxChanges /\ changes' = changes + 1
    /\ \E op \in Ops : \E n \in Results(op, table) : writer' = [writer EXCEPT ![w] = [pc |-> "swap", route |-> n]]
    /\ UNCHANGED <<table, mirror, stale, serve, faults>>

\* The table under its lock, then, without it, the mirror.
Swap(w) ==
    /\ writer[w].pc = "swap"
    /\ table' = writer[w].route /\ writer' = [writer EXCEPT ![w].pc = "mirror"]
    /\ stale' = (stale \/ \E u \in Writers \ {w} : writer[u].pc = "mirror")
    /\ UNCHANGED <<mirror, changes, serve, faults>>

\* Mutant: a route that is gone is not removed from Redis.
MirrorOf_KeepsDeleted(r) == IF r = NoRoute THEN mirror ELSE r

\* HSET of the route, or HDEL of a route that is gone.
MirrorOf(r) == r

Mirror(w) ==
    /\ writer[w].pc = "mirror"
    /\ mirror' = MirrorOf(writer[w].route) /\ writer' = [writer EXCEPT ![w] = Idle]
    /\ UNCHANGED <<table, stale, changes, serve, faults>>

MirrorFails(w) ==
    /\ writer[w].pc = "mirror" /\ faults < MaxFaults /\ faults' = faults + 1
    /\ writer' = [writer EXCEPT ![w] = Idle] /\ stale' = TRUE
    /\ UNCHANGED <<table, mirror, changes, serve>>

\* The process dies and a new one warms its table from Redis; a mirror that lagged is
\* the truth from here on.
Restart ==
    /\ faults < MaxFaults /\ faults' = faults + 1
    /\ table' = mirror /\ writer' = [w \in Writers |-> Idle] /\ stale' = FALSE
    /\ breakers' = [v \in Versions |-> newCircuitBreaker] /\ call' = [c \in Callers |-> Idle]
    /\ UNCHANGED <<mirror, changes, blocked, bucket>>

-----------------------------------------------------------------------------
(* Predict *)

\* QuotaExceeded sets the flag for its TTL.
QuotaExceeded == blocked' = TRUE  /\ ~blocked /\ UNCHANGED <<routes, breakers, call, bucket, faults>>
QuotaExpires  == blocked' = FALSE /\ blocked  /\ UNCHANGED <<routes, breakers, call, bucket, faults>>

\* A target of the route as it is now: drawn by weight, or any eligible one when the
\* request pins its version; without one the request is refused.
Select(c) ==
    IF Eligible(table) = {} THEN UNCHANGED call
    ELSE \E v \in Pick(table) \cup Eligible(table) : call' = [call EXCEPT ![c] = [pc |-> "gate", version |-> v]]

\* Predict up to the breaker: the quota flag, then the rate limiter; both let the call
\* through when Redis fails, and only the limiter's answer takes a token.
Predict(c) ==
    /\ call[c].pc = "idle" /\ Select(c)
    /\ \/ ~blocked /\ bucket > 0 /\ bucket' = bucket - 1 /\ UNCHANGED faults
       \/ (blocked \/ bucket = 0) /\ faults < MaxFaults /\ faults' = faults + 1 /\ UNCHANGED bucket
    /\ UNCHANGED <<routes, breakers, blocked>>

\* The breaker of the chosen version, which may have left the route meanwhile; an
\* admitted call starts with its deadline.
Gate(c) ==
    LET v == call[c].version
        b == MaybeHalfOpen(breakers[v])
    IN  /\ call[c].pc = "gate"
        /\ breakers' = [breakers EXCEPT ![v] = Reserve(b)]
        /\ call' = [call EXCEPT ![c] = IF ~Allowed(b) THEN Idle
                        ELSE [pc |-> "out", version |-> v, left |-> CallTimeout, probe |-> b.state = "half"]]
        /\ UNCHANGED <<routes, blocked, bucket, faults>>

\* Mutant: a call that times out is not recorded.
OnError_TimeoutIgnored(b, timeout) == IF timeout THEN b ELSE RecordFailure(b)

\* Errors and timeouts count alike.
OnError(b, timeout) == RecordFailure(b)

Record(c, b) ==
    /\ breakers' = [breakers EXCEPT ![call[c].version] = b] /\ call' = [call EXCEPT ![c] = Idle]
    /\ UNCHANGED <<routes, blocked, bucket, faults>>
Succeeds(c) == call[c].pc = "out" /\ Record(c, RecordSuccess(breakers[call[c].version]))
Errors(c)   == call[c].pc = "out" /\ Record(c, OnError(breakers[call[c].version], call[c].left = 0))

\* GetCircuitState and ListCircuitStates realise a due half-opening.
Snapshot(v) ==
    /\ breakers[v] # MaybeHalfOpen(breakers[v])
    /\ breakers' = [breakers EXCEPT ![v] = MaybeHalfOpen(@)]
    /\ UNCHANGED <<routes, call, blocked, bucket, faults>>

\* Time passes; no call outlives its deadline.
Tick ==
    /\ \A c \in Callers : call[c].pc = "out" => call[c].left > 0
    /\ call' = [c \in Callers |-> IF call[c].pc = "out" THEN [call[c] EXCEPT !.left = @ - 1] ELSE call[c]]
    /\ breakers' = [v \in Versions |-> Aged(breakers[v])]
    /\ bucket' = IF bucket < Burst THEN bucket + 1 ELSE bucket
    /\ UNCHANGED <<routes, blocked, faults>>

-----------------------------------------------------------------------------

Next ==
    \/ \E w \in Writers : Read(w) \/ Swap(w) \/ Mirror(w) \/ MirrorFails(w)
    \/ \E c \in Callers : Predict(c) \/ Gate(c) \/ Succeeds(c) \/ Errors(c)
    \/ \E v \in Versions : Snapshot(v)
    \/ QuotaExceeded \/ QuotaExpires \/ Tick \/ Restart

Spec == Init /\ [][Next]_vars

-----------------------------------------------------------------------------
(* Properties *)

Out(v) == {c \in Callers : call[c].pc = "out" /\ call[c].version = v}

\* A half-open circuit is judged by its probes alone: every call still out to that
\* version was admitted by this half-open phase, there are as many as the breaker
\* counts, and so a late answer from before the trip can neither close the circuit nor
\* free a probe's slot, and no slot is held by nobody.
HalfOpenIsProbed ==
    \A v \in Versions : breakers[v].state = "half" =>
        /\ breakers[v].inFlight = Cardinality(Out(v)) /\ breakers[v].inFlight <= MaxProbes
        /\ \A c \in Out(v) : call[c].probe

\* Redis holds the route a restart must find whenever no writer is under way, after any
\* sequence of deployments, promotions, splits and removals; only a failed mirror write
\* or two writers between the table and the mirror at once can part them.
MirrorRestores ==
    ~stale /\ (\A w \in Writers : writer[w].pc # "mirror") => mirror = table

\* However handlers and RPCs overlap, lose each other's changes and are redelivered, a
\* route has at most one stable target, so IsCanary on an inference event means one thing.
OneStable == Cardinality({v \in DOMAIN table : table[v].stable}) <= 1
=============================================================================
