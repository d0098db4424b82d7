# TLA+ models of Forgepoint

Forgepoint is an MLOps platform of Go services that talk over gRPC and NATS
JetStream and keep their state in Postgres and Redis. This directory holds TLA+
models of the parts where ordering, failure and concurrency decide whether the
platform is correct, TLC configurations that check them on small instances, and
TLAPS proofs for every value of the constants.

`PROJECT.json` lists the components, the runs, the lines each definition models,
the hazards and the theorems. Paths below are relative to `src/services/` unless
they start with `pkg/`.

    tlc -workers 2 -config PipelineSaga.cfg MCPipelineSaga
    tlapm PipelineSaga_proofs.tla

## 1. Inventory

| component | state it keeps | operations | hard behaviour | what makes it correct |
|---|---|---|---|---|
| pipeline-orchestrator: saga engine (`internal/domain/pipeline_service_impl.go`) | in-memory `Execution`; rows `executions`, `step_executions`; map of cancel hooks | TriggerExecution, CancelExecution, the engine's run / retry / compensate / settle | cancel racing a step's success; writes that fail or commit unacknowledged; a crash; cancels served by another replica | write-ahead checkpoints, LIFO rollback, nothing left behind, terminal row before terminal event, an answer to every cancel |
| pipeline-orchestrator: DAG scheduler (same file) | the same rows, the set of failed steps | CreatePipeline (validateGraph), TriggerExecution with a key, topoLevels, runStepsDAG | steps of a level run in parallel on one `Execution`; two triggers with one key | levels are longest paths; parents before children; a failure skips exactly its descendants; one run per key; the call returns |
| pipeline-orchestrator: definitions, retrain loop | `pipelines` rows, drift events | CRUD, drift subscriber, step executors | a drift event that is redelivered | one run per drift event |
| `pkg/natsutil` subscriber | JetStream delivery state, ProcessedStore, DLQ subject | handleMessage, handleFailure, routeToDLQ, ack / nak / term | at-least-once delivery, AckWait against message timeout, the final delivery | acks are honest, effects deduplicated, the DLQ is the last resort, losses have a cause |
| `pkg/natsutil` publisher | none (mints envelope ids) | Publish | a producer's retry is a new event | stable ids where exactly-once matters |
| billing: outbox relay (`internal/events/relay.go`) | `outbox.published_at`, the stream | claim, decode, publish, mark | crash between publish and mark, several relays, lost PubAck, undecodable rows | nothing lost, invented or applied twice; the table drains |
| billing: metering and invoices (`internal/domain/billing_service_impl.go`) | `usage_records`, `outbox`, `invoices`, plan assignment | RecordUsage, GenerateInvoice, plan CRUD, reports | racing calls with one key, stale period totals, month end, unconfirmed commits | one record per key, ledger = outbox, free units never billed, no false cap alarm |
| registry: commands (`internal/domain/registry_service_impl.go`) | `models`, `model_versions`, `command_idempotency` | RegisterModel, UpdateModel, CreateVersion, MarkVersionReady, PromoteVersion, ArchiveModel | rows are read, checked and written back without a lock | one production version; one version per key; only ready artifacts leave DEV |
| registry: projection (`internal/events/projection.go`) | Redis hashes of models and versions | five consumers: load, merge, upsert | the subjects are not ordered against each other; events are lost, repeated and put off | never ahead of Postgres; equal to it after an orderly history; announced versions are visible |
| feature-store | `feature_events`, idempotency ranges, online view (Redis), offline view, an in-memory deduper | DefineFeatureView, WriteFeatures, DeleteFeatureView, Rebuild, point-in-time reads | append and Put are two calls; late events; retries over a restart | one batch per key; the online view is the log's latest; a point-in-time read is exact |
| inference-gateway | route table and its Redis mirror, breakers, token buckets, quota flags | Predict; route events and admin RPCs; warm-up | answers that come after the circuit has moved on; unlocked read-change-replace of a route | a half-open circuit is judged by its probes; a restart restores the table; one stable target |
| model-monitor | window hash and set in Redis, `drift_reports`, an in-memory cooldown gate | fold, close, score, report, alarm, retrain; pause, reset, delete | two handlers on one window; redelivery after scoring; a crash between report and alarm | an alarm once per scored window; each event counted once; one retrain per cooldown |
| ai-gateway | token budgets and answer caches in Redis, breakers; prompts | ChatCompletion, prompt registry | the budget is checked before and charged after; providers fail mid-stream; clients leave | an answer is of one provider; a bounded overshoot; a recovered provider rejoins |
| model-serving | loaded-model cache, in-flight counts | load, unload, predict, deployment events | eviction under use, duplicate loads | a model in use is never unloaded |
| auth | users, roles, API keys, refresh tokens, audit rows | login, refresh, revoke, bootstrap, audit consumer | revocation against a token in use; two bootstraps | a revoked credential stops working; one admin |
| notification | notifications, preferences, delivery state | event consumers, dispatch | redelivery, partial delivery to channels | one notification per event and channel |
| experiment-tracker | experiments, runs, metrics, lineage | run lifecycle, registry events | lineage events out of order | a finished run stays finished |
| bff, cli | none | request translation | - | - |
| other `pkg/` (audit, auth, config, grpcutil, health, observability) | none or process-local | interceptors, start-up, shutdown | shutdown order | - |
| generated code, manifests, web console | - | - | - | - |

The parts interact through events. A service commits its rows, publishes (billing
through its outbox, the others directly), and consumers on `pkg/natsutil` react:
the gateway's inference events are metered by billing and folded into windows by
model-monitor; billing's QuotaExceeded sets the gateway's quota flag; model-monitor's
drift event is meant to start a retrain pipeline; the pipeline's ModelDeployed event
changes the gateway's routes; the registry's own events rebuild its read side.
`EventConsumer` is therefore the base of everything behind the bus, and `OutboxRelay`
of the one producer that promises exactly-once in effect. The modules of the other
consumers take from `EventConsumer` what it establishes: any event may come again
and in any order, and one whose deliveries are used up is gone.

## 2. Modules

| module | models | state | actions |
|---|---|---|---|
| `PipelineSaga` | one DeploymentSaga run and the CancelExecution calls racing it | engine position, in-memory execution, durable rows, outside effects, published events, callers | one per repository write, executor call and branch of the engine; one per step of CancelExecution; ContextEnds, Crash |
| `TrainingDAG` | a pipeline of any step graph and the TriggerExecution calls that share a key | the graph, the calls, levels, one goroutine per step, memory and rows | create, delete, the stages of a trigger, the start and barrier of a level, the stages of a goroutine, settle, ContextEnds, Crash |
| `EventConsumer` | the replicas of one consumer group over an external JetStream consumer | JetStream's view per event, each replica's position, ProcessedStore, DLQ | Deliver, the stages of handleMessage, Crash, AckWaitExpires |
| `ReliableOutbox` | abstract: what the outbox promises | ledger, effects | Record, Observe |
| `OutboxRelay` | writers, relays, stream and a deduplicating consumer | outbox, marks, batches, stream, duplicate window | commit / rollback, the stages of Run, CrashRestart, ForgetMsgID, Consume |
| `UsageMetering` | RecordUsage calls of one team and meter, and the period close | ledger, outbox, invoices, each call's locals | one per port round-trip of RecordUsage, plus failure and retry; Aggregate, SaveInvoice |
| `ModelMonitor` | the data plane of one monitor | window, reports, gate, handlers, deliveries | one per store round-trip of the handler, operator calls, crash |
| `RegistryStages` | the life of a version, for both sides of the registry | - | - |
| `Registry` | commands on one model | the three tables, each caller's locals, emitted events | read, transaction, record and emit of each command; failures |
| `RegistryProjection` | the read side of one model | Postgres truth, the event log, Redis, five handlers | the commands as one step each; deliver, load, upsert, ack, put off, give up, crash |
| `FeatureStore` | one feature view | log, ranges, online, index, offline, deduper, callers | begin, lookup, append, Put, delete, rebuild step by step, publish, restart |
| `CircuitBreaker` | the breaker of both gateways | operators on one record | - |
| `InferenceGateway` | one team's model: predictions and routes | table, mirror, breakers, flag, bucket, callers, writers | the stages of Predict and of a route change, ticks, restart |
| `AIGateway` | one team's chats | balance, cache, breakers, chats | the stages of ChatCompletion, ticks, evictions |
| `MC*` | the instances TLC checks | | |
| `*_proofs` | TLAPS proofs | | |

Both gateways extend `CircuitBreaker`; both sides of the registry extend
`RegistryStages`. Definitions named `X_Something` with a comment "Mutant" are
plausible defects of `X`; no specification uses them. Each property of a passing run
has one that breaks it, listed in `PROJECT.json`.

Some properties hold only as long as nothing happened that the code does not guard
against. The modules record these events in history variables (marked "history" in
their declarations), the property names the exception, and section 6 tells what
happens then. No other variable's next value
depends on one of them.

### PipelineSaga

A step is its position in `topoOrder`. `status` and `step` are the in-memory
execution, `dbStatus` and `dbStep` the rows. A write on the run context is refused
once that context is dead; one on a detached context (`context.WithoutCancel`) is
not; either may be lost, or commit and report an error (`Outcome`). `stepErrs` is
one flag, since the code uses only "none" or "some". An attempt that reports an
error may have done part of its work (`LeavesPartial`). The clock is counted in
completions: `completedStepsInOrder` sorts by it and nothing else reads it. A type
the executor registry lacks is a choice made when the step's only lookup happens
(`Unwired`). A CancelExecution call is three steps (read, look up the hook, mark or
wait) because nothing is locked between them. Crash ends the engine for good: the
code has no recovery scan.

Left out: events other than the terminal ones (best effort, nothing in the engine
reads them); the error of `topoOrder`, unreachable after `validateGraph`; step
outputs; authorisation, which is the "error" outcome of CancelRead; the deadline of
the detached contexts, which is one more way for a write to be lost.

### EventConsumer

`st` and `n` are what JetStream knows of an event; `dn` is the NumDelivered the
handler saw, so that a late NAK of an old delivery is told apart. Faults are
recorded with kind, event and delivery, which lets `LossIsExplained` say exactly
which fault may cost an event. `MsgTimeout < AckWait` is the rule of
`WithMessageTimeout`: under it a delivery is answered, or its process is dead, when
AckWait passes; without it redelivery may overtake a running handler. The DLQ is a
set because the DLQ publish carries a Msg-Id. Left out: fetch batching, the
in-progress extension the code never sends, and consumers configured without a
retry cap or a DLQ.

### OutboxRelay and ReliableOutbox

A row is its rank by `created_at`, stamped before the commit, so rows commit in any
order. JetStream deduplicates by Msg-Id inside a window that may pass
(`ForgetMsgID`). The consumer deduplicates on the envelope id atomically; the gap
between its side effect and its mark is EventConsumer's subject. `ReliableOutbox`
has two variables, `ledger` and `effects`, that the relay model also has, so the
refinement mapping is the identity on them and every claim, publish, mark and crash
is a stutter.

### UsageMetering

Every call is its sequence of port round-trips: lookup, plan, period usage, build,
transaction, re-read. Money is an integer number of micros, `MaxAmount` stands for
the largest int64, and `Build` rejects a product above it as `mulInt64Checked` does.
Time is the number of the billing month. `gross` and `since` are kept in the record
for the properties only. One team, one meter and one plan: the code never relates
two of them.

### TrainingDAG

`Init` takes every dependency function over the steps and one unknown id, so that
cycles, self-loops and dangling references reach `validateGraph`. `TopoLevels` follows
the code's rounds of Kahn's algorithm; `LevelsAreLongestPaths` compares it with the
definition by longest path. Goroutines of a level share `step` and `errs` (the code guards both with a mutex
and each writes its own entry), read the context at their attempts, and end in
`results`; the barrier then folds the results in order of the steps. The run's call is
the trigger that won the key; a trigger that loses is answered with the winner's row as
it is at that moment.

### ModelMonitor

A window is a hash (id and sample count) and a set (request ids) in Redis, and the
code reads them in two calls (`LoadMeta`, `LoadReqs`), writes them in one pipeline
(`Fold`), and checks the id before it deletes both (`CloseRead`, `CloseDel`). A score is any severity: the statistics are floating
point. The report's unique index on `window_id` decides which delivery may raise the
alarm. `gate` is the cooldown of the process, lost at a crash. Left out: ground truth
and the evaluation of AI answers, which only append to stores nothing here reads.

### Registry, RegistryStages and RegistryProjection

A command is its reads, its transaction, its idempotency record and its emit; two
callers interleave at every point between them. The unique indexes (one production
version per model, one label per model, one key per command and team) are guards of the
transaction. `stale` records that a command wrote over a row that had changed after it
was read.

In the projection the commands run one at a time, so that every divergence is of the
read side's own making; each subject has one consumer, which loads, merges and upserts
in separate steps. `last` and `clean` record whether the events were applied one by one
in the order of their commits: then, and only then, Redis must equal Postgres
(`ConvergesInOrder`). Without that condition two weaker things still hold:
`NeverAhead` and `AnnouncedIsVisible`.

### FeatureStore

A vector is known by the version (the log position) of the event it came from, which
makes the folds functions of positions. `HistoryIsExact` compares `ProjectAsOf`, which
walks the log, with the ranking it is meant to compute. `dirty` records that a Put
failed, was overtaken or raced a delete or rebuild; `raced` that two calls with one key
overlapped.

### CircuitBreaker and InferenceGateway

The time since the last transition is kept in ticks up to `ResetTimeout`, since nothing
tells a longer time apart. A writer reads the table, computes the new route, replaces
the table's entry and then writes the mirror: four points at which another writer may
come in. Two bounds on time are in the code's configuration and are assumptions here: a
backend call has a deadline (2 s) shorter than the breaker's reset (30 s). `stale`
records a mirror write that failed or came after a later one.

### AIGateway

A text is the set of providers whose tokens are in it. A stream may break, end or lose
its client at every point, and has no deadline. A completion is charged any number of
tokens up to `MaxUse`. Left out: the prompt registry, usage counters and events.

## 3. Runs

Bounds are CONSTANTS in the cfg files; what they leave room for:

| run | instance | distinct states | shows |
|---|---|---|---|
| `saga` | 4 steps (second read-only, last perhaps without executor), 1 retry on the first, 1 canceller, 1 failing write, a crash | 244 k | write-ahead rows and honest answers; LIFO rollback that leaves nothing behind; the state machine; runs and cancels end; a dead context stops the saga |
| `training_dag` | every graph over 3 steps and an unknown id, one retry, one step perhaps without executor, 2 calls with one key, 1 fault | 900 k | the levels, parents first, a failure contained, one run per key, calls return |
| `consumer` | 2 replicas; a healthy, a poison and a corrupt event; 2 deliveries each; 2 faults of any kind | 193 k | honest acks, dead letters and losses; deduplication; one handler at a time; settlement |
| `outbox` | 3 rows (one undecodable), 2 relays, batch 2, 2 faults of any kind | 95 k | nothing lost or invented; refinement of ReliableOutbox; draining |
| `metering` | 4 calls (two with one key, one without, one invalid), 2 months, 1 fault, 1 close | 449 k | idempotency, ledger = outbox, the allowance, no false quota alarm |
| `monitor` | 2 handlers, 3 events, windows of 2, 2 deliveries, 1 fault, 1 operator call | 6.1 M | an alarm is earned and comes once, a lost alarm has a cause, windows are exact, one retrain per cooldown |
| `registry` | 2 callers, 2 versions, 1 key, 2 label attempts, 3 commands, 1 fault | 2.0 M | one production version, one version per key, automatic labels, the lifecycle |
| `registry_projection` | 2 versions, 5 consumers, 2 deliveries, 3 emitting commands, 1 fault | 3.3 M | never ahead, convergence, visibility |
| `feature_store` | 2 callers, 2 entities, 2 event times, 1 key, no call begun past 3 log entries, 1 fault | 2.0 M | one batch per key, online = latest, exact history |
| `inference_gateway` | 2 versions, 2 callers, 2 writers, 1 failure trips and 2 successes close, 1 probe, reset 2 and deadline 1, 2 route changes, 1 fault | 4.7 M | probes judge a half-open circuit, the mirror restores the table, one stable target |
| `ai_gateway` | 2 chats, 2 providers, budget 1, charge up to 2, 1 cache entry, 1 fault | 2.1 M | answers of one provider, the bounded overshoot |
| `ai_gateway_rejoin` | one provider, no faults, with fairness | - | violated, see section 6 |

Why these bounds are enough. Three completed steps before a failing fourth are the
least for a rollback that meets two compensable steps around a read-only one. Graphs of
three steps have every shape that matters to a level: chain, fork, join, two roots.
Two replicas and two deliveries are the least for overlap and for a last delivery that
differs from the first; two faults let one hit each delivery. Three rows over a batch of
two give a full batch followed by a partial one with an undecodable row in the way; two
relays give a double claim. Two calls with one key give the insert race, a third without
a key gives concurrent use of the allowance, two months a call that straddles the
boundary. Three events over windows of two close one window and open the next while
deliveries of the first are repeated. Two versions are the least for a promotion that
demotes, two callers for a stale read, three commands for create, ready and promote (or
two promotions and an archival); the projection starts from any registry in use, so that
three commands suffice there too. A log of three entries holds a definition, a value and
a late value before a call that appends up to two more. In the gateway one caller's
answer must be able to come after the circuit opened and half-opened because of another,
which takes two callers and a reset above the deadline; two writers give every lost
update of a route. In the AI gateway two chats pass one budget check. The rest are
races of two parties or consequences of one fault.

Symmetry is used only in runs that check safety alone, over sets whose elements no
definition tells apart (callers, handlers, versions, entities, chats). CHECK_DEADLOCK is off
everywhere: a run, or a finite set of events, rows or calls, is finished at some point,
and then nothing is left to do.

## 4. Fairness

- Saga engine (`WF(EngineStep)`) and DAG scheduler (`WF(Progress)`): a goroutine is
  scheduled, and each executor and repository call returns, since each runs under a
  context or a timeout. Nothing is assumed about which way a call goes. There is none on
  crashes, faults, or the end of a context.
- Cancellers: a call that was made is served; `awaitTerminal` polls under a
  five-second limit, so it needs nothing from the engine.
- Consumers: `WF` on handleMessage, every call of which returns; JetStream gives up
  on unanswered deliveries (`WF(AckWaitExpires)`) and keeps offering what is ready
  (`SF(Deliver)`: a replica may be busy again and again, but the pull consumer hands
  a waiting event to some replica in the end).
- Relays: `WF(Run)`, a ticker loop; `WF(Consume)`, the consumer keeps reading. No
  fairness on crashes, faults or commits. A relay that took a foreign timeout for its
  own shutdown ("dead") stays dead, and `DrainsWhileAlive` promises nothing then.
- AI gateway (`FairSpec`, for `ai_gateway_rejoin` only): time passes, requests that
  came in are served, and requests keep coming. It is what makes the counterexample
  one: the provider is refused although everybody does their part.

The other modules check safety only: what must eventually happen in them rests on a
redelivery or a client's retry, which `EventConsumer` covers.

## 5. Proofs

All are for any number of steps, replicas, events, rows, relays, chats, providers,
commands, versions, handlers, retries and faults. The assumptions are the named ASSUMEs
of the modules: sizes are naturals, the special sets are subsets, what is counted is
finite. Each strengthening named below was an invariant of the component's run before it
was proved.

- `PipelineSaga_proofs`. *Durability* (WriteAhead, HonestReturn,
  TerminalEventDurable): none is inductive. HonestReturn needs AuditInv, "memory and
  rows agree unless a lost checkpoint is on record"; WriteAhead needs AheadInv, "while
  an executor runs, its row is past PENDING or a loss is on record"; the event needs
  "at emit the status is durable". *Rollback* (CompensationLIFO, NoOrphan): the
  invariant follows the phases. ForwardInv: exactly the steps before the cursor are
  completed and in effect. FailedInv: between failure and rollback effects are the
  completed steps. UndoInv: a compensable completed step is still to be visited or has
  been undone or declared stuck. StampInv: completion stamps follow the order, which
  turns "latest stamp first" into LIFO. *StatusFollowsDiagram*: the action property
  from the same invariant.
- `Events_proofs`, the consumer. AckedMeansHandled needs no timing assumption, only that the
  store and the ack step know events whose handler has committed. SingleHandler,
  OncePerGap and DLQIsLastResort assume `MsgTimeout < AckWait`: the key fact is
  HoldsDelivery, "a replica at work holds the delivery JetStream waits on"; side
  effects are then accounted for one per gap plus one once marked. LossIsExplained
  adds what each position of a last delivery owes: a NAK, a Term, a dead context and
  an unanswered last delivery all have a recorded cause. SettledHonestly, which the run
  checks, is the conjunction (SettlementIsHonest).
- `Events_proofs`, the feature store. *BatchOncePerKey* rests on KeyInv: a key without a
  range has no events (RangedKeys), and until two calls with one key overlap at most one is
  past its lookup, and what it found still holds when it inserts (OneAtATime).
  *OnlineViewIsLatest* is about the quiet states only and says nothing while a command is
  under way; OnlineInv is what it lacks: a vector that is missing or out of date has a
  rebuild, or the Put of its latest version, on its way (LiveOK), and what is left of a
  deleted view is on the list of everyone about to purge it (DeletedOK). *PointInTimeIsExact*:
  the offline table is the fold of some prefix (OfflineInv), and ProjectAsOf, a fold of one
  pass over the log, exists for every prefix and returns the greatest visible event by time,
  then version (IsPass, by SetInduction as in `TrainingDAG_proofs`). *StoreInvariant* is the
  conjunction, with the types.
- `Billing_proofs`, the relay. RelayInv: batches hold committed rows, and the row a relay
  is about to mark is in the stream. BrokerInv: every stored message carries its row's
  own id and a committed row. ConsumerInv: a row has taken effect once exactly when
  its id is in the processed set. From these follow MarkedIsStored, NoPhantom,
  EffectOnce, and that every step is a Record, an Observe or a stutter of
  ReliableOutbox.
- `Billing_proofs`, metering.
  *RecordUsageIsIdempotent* (OneRecordPerKey, SameAnswer)
  rests on OwnKey, "the record a call is about to commit carries the call's own key":
  with it the unique index decides every race, whatever the lookup saw. *OutboxIsAtomic*
  (LedgerMatchesOutbox) is inductive as it stands. *FreeUnitsAreFree* (AllowanceHonoured)
  and *AlarmsAreTrue* (NoFalseAlarm) are about sums over the ledger. FoldExists and
  FoldAny show, by SetInduction as in `TrainingDAG_proofs`, that the recursive function
  behind MapThenSumSet exists and that its result does not depend on the order, so that
  an insert adds its own quantity (BilledSums, GrossSums). MeterInv then says why a stale
  total is harmless: what a call read is a lower bound of what is recorded when it builds
  its record (CallsOK), so a record that does not leave the allowance out itself was
  built when units of the period had been billed already, and one that crosses the cap
  reaches it together with the ledger (Justified); both survive other inserts because
  sums only grow. A QuotaExceeded event is tied to its own record by the fresh id
  (PendingOK). *MeterTypeCorrect* adds the types, which no run checks.
- `AIGateway_proofs`. Neither property is inductive. IInv says what the client has seen
  at each point of a request (*Coherent*: nothing before the first forwarded token, and
  only tokens of the provider being streamed) and that every cached answer is of the
  provider it names (*Whole*); AnswersAreWhole follows. Given IInv, OvershootBounded is
  inductive: letting a request in needs a token in hand or a fault, and moves it into
  *Uncharged*; a charge takes it out, and the bound falls by as much as the balance can.
  That is counting, by the cardinality theorems of the library. `CircuitBreaker`'s
  operators keep the type of a breaker (BreakerTypes).
- `ReadModels_proofs`, the inference gateway. *Routes* (OneStable, MirrorRestores): RouteInv, "the table
  and every writer's copy have at most one stable target"; MirrorInv, "at most one writer
  is between table and mirror, and it carries the table's route, unless a mirror write was
  lost or overtaken". *HalfOpenIsProbed* is a matter of time and counting. While a circuit
  is open, the time left of a call that is out plus the circuit's age never exceeds
  CallTimeout; as `CallTimeout < ResetTimeout` (TimeoutAssumption: 2 s and 30 s in the
  code) nobody is out when the circuit turns half-open. From then on
  the in-flight counter is the number of calls out, all of them probes (ProbeInv).
- `ReadModels_proofs`, the registry's projection. *ReadSideNeverAhead*: BehindInv says of
  every place a fact can be in, the log (EventsTrue), Redis (RedisBehind) and the hands of a
  handler that has loaded and not yet written (HandlersOK), that it is no further than
  Postgres. A command moves Postgres forward only, and a handler writes what it merges from
  two facts that are behind, so neither stale loads nor redeliveries can break it
  (ProjectionInvariant). *AnnouncedVersionIsVisible* is a count, VisibleInv: each delivery
  of a creation event that ended without the version being written cost a fault, so with
  `MaxProjFaults < MaxDeliver`, a hypothesis of the theorem, the last delivery is never used
  up. That the version is written before the model is looked for is what makes it true of a
  model that is missing. *InOrderConverges* needs OrderInv, which is about clean
  histories: one handler is at work, on the newest event taken up, and what it loaded is
  still there (OneByOne); a version's creation precedes its other events (LogOrder); the
  log's last word on a matter is Postgres's (LogTruth); what the handler has written is
  known at each of its calls (Progress); and what no pending event is about reads in Redis
  as in Postgres (Fresh). With nothing pending, Fresh is the property.
- `Registry_proofs`. OneProduction and OneVersionPerKey rest on RegInv: what a command
  still knows of the rows it read, and that a PENDING version is only ever DEVELOPMENT or
  ARCHIVED, which is why UpdateVersionStatus, writing a stage back unchecked, cannot bring
  a second PRODUCTION version back. LifecycleHonest adds HonestInv, "until a row is
  overwritten from a stale copy, every announced change still holds, and versions only
  move forward". AutoLabelSucceeds is a count (LabelInv): versions and commands still
  creating never exceed the initial versions plus the commands begun, and every label an
  insert loses is an insert since it counted. So a create that gives up met its own key or
  lost each of its attempts to another command (GivesUpOnlyToOthers); with
  `MaxCalls <= MaxAttempts + 1` as a hypothesis that is AutoLabelSucceeds
  (AutoLabelIsFound). The code has 100 attempts.
- `ModelMonitor_proofs`. CountInv pays for every window id with a delivery, so the model's
  ids suffice; PlaceInv says what a handler has in hand at each point. AlarmIsEarned needs
  EarnedInv: a window's report has one inserter, which has not published before it is
  past the publish. AlarmLossExplained needs LossInv: a report of drift is published, cut
  off, or *bound* to a handler that is on its way to the publish with the report's
  severity; it needs no uniqueness and so survives a purge. WindowIsExact needs Exact: a
  reader's copy is the stored window or a fresh one, and the request ids are among the
  events folded in. OneRetrainPerCooldown needs RetrainInv: one handler at a time is past
  the gate, before the mark only while the gate is open, and has not fired.
- `TrainingDAG_proofs`. The first half is about Kahn's algorithm, for any finite set of
  steps and any graph. SetInduction, from the library's well-foundedness of < on the
  naturals and the least element it gives, replaces the library's induction rules, whose
  operator parameter no installed prover instantiates. With it: the recursive definition
  of the rounds has a solution and Rounds is it (RoundsDef); a step is in at most one
  round, and joins it when its last parent was reached (RoundsDisjoint, RoundParents); so
  the levels of a closed graph without a cycle are its longest-path levels (LevelsRank),
  and a graph that has such levels is accepted (RankIsRound, ValidIffRanked). The second
  half is the scheduler. KeyInv: the row is there before anybody runs or replays it, and
  its insertion is the run. PlanInv: a run follows the levels of a validated graph.
  BarrierInv is what ParentsFirst lacks to be inductive: at level `at`, lower levels are
  settled, higher ones untouched, and a step of the level is skipped or has a goroutine
  whose parents have all completed. It survives a join because parents are in lower
  levels, and the end of the loop because no level is left out (NoLevelGap). ErrorInv and
  StatusInv tie firstErr, the failed set, the rows and the answer together;
  FailureIsContained follows.

Every invariant of a passing run is the statement of a theorem, and so are the action
property of the saga and the refinement of ReliableOutbox. Only model-checked are the five
properties under fairness, since the provers have no ENABLED: EverythingReturns and
CancelStopsSaga (saga), CallsReturn (DAG), EventuallySettled (consumer) and
DrainsWhileAlive (relay). Hypotheses beyond the ASSUMEs are written in the theorems that
need them: `MsgTimeout < AckWait` (consumer), `MaxCalls <= MaxAttempts + 1` (labels),
`MaxProjFaults < MaxDeliver` (visibility); each holds in the run's cfg.

## 6. Where comments and code disagree

The run `ai_gateway_rejoin` shows one. *A client that leaves takes the probe slot with
it.* When forwarding a token fails, ChatCompletion returns without telling the breaker
(`ai-gateway/internal/domain/gateway_service.go:386`), since it is not the provider's
fault. In HALF_OPEN the admission had reserved a probe slot, which only RecordSuccess and
RecordFailure give back; with one slot the provider is refused until the process
restarts.

The models also show the following, which the passing properties name as their
exceptions. Each can be read off the module it is listed under.

*PipelineSaga* (lines of `pipeline_service_impl.go`). CancelExecution without an
in-process runner saves the row it read earlier as COMPENSATING, unconditionally (326):
if the owner settled in between, a finished run is COMPENSATING for good. A cancelled
saga with a stuck step settles FAILED, since the wrapped error keeps the cause as text
only (621). A step whose attempts all reported an error is never compensated, although it
may have done part of its work (596). A cancel marked by another replica is never noticed
by the owner; a deadline that expires between two steps settles CANCELLED; no scan resumes
a run whose process died.

*EventConsumer*. On the last delivery of a slow event the DLQ publish runs on the context
that has just timed out, so the event is lost (`pkg/natsutil/subscriber.go:329`); a store
error or a crash on the last delivery abandons it too. These are the causes SettledHonestly
admits. model-monitor's evaluation consumer sets a message timeout of 35 s over an AckWait
of 30 s (`model-monitor/cmd/server/main.go:503`), outside the rule the proofs assume.

*OutboxRelay*. A batch full of undecodable rows is claimed for ever, and everything behind
it waits; a pool timeout ends a relay silently.

*UsageMetering*. The period's usage is the sum of billed, not gross, quantities, so the
free allowance is given anew to every record (`billing_service_impl.go:176`). Two calls
that read the total before either commits cross the cap without an event (212). A record
built before the month's end can commit after its period's invoice; a period close that is
repeated invoices twice (GenerateInvoice has no caller in the repository yet).

*TrainingDAG*. The drift-retrain subscriber, which would be its caller, derives an empty
team (`pipeline-orchestrator/internal/events/subscriber.go:232`), so its trigger is refused
and the drift event ends in the DLQ.

*ModelMonitor*. An alarm is lost when the process stops between the insert of the report and
the publish: the redelivery finds the report and stays quiet (AlarmLossExplained admits
exactly this). MarkTriggered is described as an atomic set-if-absent
(`monitor_service_impl.go:735`), but the gate in memory is set unconditionally, so two
handlers that both passed it fire two retrains. A purging delete that races a handler leaves
a window, or a report, of a monitor that is gone. Hash and set of a window can be read torn.
ResetBaseline un-pauses a paused monitor (254).

*Registry*. UpdateModel writes the row back as it was read and can un-archive a model;
UpdateVersionStatus does the same with a version's stage; a version can be created in a
model archived meanwhile. Two creates with one key and an automatic label collide on the
key, which the label loop takes for a label and retries to the end. An error of
RecordCommandIdempotency is reported although the command has committed. An event is lost
when the call dies before its emit.

*RegistryProjection*. `projection.go:54` speaks of applyIfNewer, which does not exist: a
redelivered ModelRegistered un-archives the read model. A ready that overtakes its created
leaves a version without a stage. Load and upsert of two consumers lose each other's
updates. Versions of an archived model keep their stages, and a failed upload is not
announced.

*FeatureStore*. The key is looked up before the lock is taken, so two calls with one key
both append, against the "exactly-once EFFECT" of the comment
(`featurestore_service_impl.go:252`). Two writers' Puts can land in the opposite order of
their appends; a replayed retry puts its old vector over a newer one; a write that races a
purge leaves a vector without an index entry. Racing defines take the same schema version.
foldView never clears DeletedAt, and a write after a delete serves a deleted view. The
unused GetAsOf reads a table of latest vectors, and omits an entity whose earlier value the
fold would return.

*InferenceGateway*. Two consumers' changes of one route lose updates, and their mirror
writes may land in the opposite order. "All four are IDEMPOTENT"
(`inference_service_impl.go:496`) is not so for a ModelDeployed redelivered after a
promotion, which restores the old weight. The backend client and the shared breaker store
exist but are not wired.

*AIGateway*. `ports.go:89` bounds the overshoot by "at most one in-flight request's worth";
it is one per concurrent request, plus one per failed Redis call, which is what is proved. A
stream has no deadline, so one admitted before the trip can close a half-open circuit. An
answer cut off at its token limit is cached like a whole one.

## 7. Plan

Done: the modules, runs and proofs above. Next, in this order:

1. A model of model-serving: load, eviction and use of a model.
2. The prompt registry of the AI gateway.

Not modelled, and why:

- model-serving: the next candidate, see the plan.
- auth, experiment-tracker: transactions on single rows, with little that interleaves.
- notification: a consumer of EventConsumer's kind with one claim per event and channel.
- bff and cli: stateless.
- audit, auth, config, grpcutil, health and observability of `pkg/`: interceptors and
  start-up without a protocol.
- drift statistics and prices of providers: floating point.
- generated code (most of the repository's Go lines are protobuf stubs), the handlers that
  translate requests, wiring, manifests and the web console: no state of their own.
