-------------------------- MODULE RegistryProjection --------------------------
(***************************************************************************)
(* The read side of the registry: commands commit to Postgres and emit      *)
(* events; five durable consumers, one per subject, load, merge and upsert  *)
(* the Redis hashes of one model and its versions.  The consumers run side  *)
(* by side, so the subjects are not ordered against each other; emits may   *)
(* be lost, handlers may fail or die half way, and a delivery whose         *)
(* acknowledgement is lost is repeated by another replica, whose memory of  *)
(* processed ids is empty.                                                  *)
(*                                                                          *)
(* Source: services/registry/internal: events/projection.go,                *)
(* events/publisher.go, repository/redis/read_store.go and the commands of  *)
(* domain/registry_service_impl.go, which run one at a time here (their     *)
(* races are in Registry).                                                  *)
(***************************************************************************)
EXTENDS Naturals, Sequences, FiniteSets, RegistryStages

CONSTANTS
    ModelVersions,  \* version ids, which are their labels too
    NoVersion,
    MaxDeliver,     \* deliveries of one event before it is dead-lettered
    MaxEvents,      \* bound: commands that emit
    MaxProjFaults   \* bound: lost emits, failed calls, lost acks and crashes

ASSUME VersionsAssumption == NoVersion \notin ModelVersions /\ IsFiniteSet(ModelVersions)
ASSUME BoundsAssumption == MaxDeliver \in Nat /\ MaxEvents \in Nat /\ MaxProjFaults \in Nat

Subjects == {"registered", "created", "ready", "promoted", "archived"}

VARIABLES
    model, rows,    \* Postgres: the model's state and its versions
    log,            \* the events, in the order of their commits
    tries,          \* deliveries of each event
    pending,        \* events that are not acknowledged
    m, vs,          \* Redis: the model's hash and the versions' hashes
    at,             \* each subject's handler: where it is, its event, what it loaded
    last, clean,    \* history: the newest event applied; applied one by one and in order
    dead,           \* history: events that were dead-lettered
    projFaults

truth == <<model, rows, log>>
redis == <<m, vs>>
projVars == <<truth, tries, pending, redis, at, last, clean, dead, projFaults>>

Absent  == [stage |-> "none", status |-> "none"]
Zero    == [stage |-> "unspecified", status |-> "unspecified"]      \* an empty ModelVersion
NoModel == [there |-> FALSE, production |-> NoVersion, latest |-> NoVersion, archived |-> FALSE, updated |-> 0]
\* A handler at call l of event i, with the version and the model it loaded for it.
Handling(l, i, v, x) == [pc |-> l, i |-> i, v |-> v, m |-> x]
Waiting == Handling("idle", 0, Absent, NoModel)

\* What Redis should say: a failed upload is not announced, so it stays PENDING_UPLOAD.
Shown(row) == [row EXCEPT !.status = IF @ = "failed" THEN "pending" ELSE @]
Incumbent(f) == IF Production(f) = {} THEN NoVersion ELSE CHOOSE v \in Production(f) : TRUE

\* A registry in use whose read side has caught up, or an empty one.
ProjInit ==
    /\ model \in {"none", "active"}
    /\ \E D \in SUBSET ModelVersions : rows \in [D -> {r \in Lifecycle : r.stage = "dev" => r.status = "pending"}]
    /\ Cardinality(Production(rows)) <= 1 /\ (model = "none" => rows = << >>)
    /\ vs = [v \in ModelVersions |-> IF v \in DOMAIN rows THEN Shown(rows[v]) ELSE Absent]
    /\ \E l \in (IF rows = << >> THEN {NoVersion} ELSE DOMAIN rows) :
        m = [there |-> model # "none", production |-> Incumbent(rows), latest |-> l,
             archived |-> FALSE, updated |-> 0]
    /\ log = << >> /\ tries = << >> /\ pending = {}
    /\ at = [s \in Subjects |-> Waiting]
    /\ last = 0 /\ clean = TRUE /\ dead = {} /\ projFaults = 0

-----------------------------------------------------------------------------
(* Commands: the commit, and the event unless the publish fails *)

Fault == projFaults < MaxProjFaults /\ projFaults' = projFaults + 1

Emit(e) ==
    /\ Len(log) < MaxEvents
    /\ \/ /\ log' = Append(log, e) /\ tries' = Append(tries, 0)
          /\ pending' = pending \cup {Len(log) + 1}
          /\ UNCHANGED <<projFaults, clean>>
       \/ Fault /\ clean' = FALSE /\ UNCHANGED <<log, tries, pending>>
    /\ UNCHANGED <<redis, at, last, dead>>

Event(s, v, to, demoted) == [subject |-> s, v |-> v, to |-> to, demoted |-> demoted]

RegisterModel ==
    /\ model = "none" /\ model' = "active" /\ UNCHANGED rows
    /\ Emit(Event("registered", NoVersion, "dev", NoVersion))

CreateVersion(v) ==
    /\ model = "active" /\ v \notin DOMAIN rows
    /\ rows' = [w \in DOMAIN rows \cup {v} |-> IF w = v THEN [stage |-> "dev", status |-> "pending"] ELSE rows[w]]
    /\ UNCHANGED model
    /\ Emit(Event("created", v, "dev", NoVersion))

\* MarkVersionReady with success; a failed upload emits nothing.
MarkVersionReady(v) ==
    /\ v \in DOMAIN rows /\ rows[v].status = "pending"
    /\ rows' = [rows EXCEPT ![v].status = "ready"] /\ UNCHANGED model
    /\ Emit(Event("ready", v, "dev", NoVersion))

\* Mutant: the event is emitted whatever the outcome.
MarkVersionFailed_Emits(v) ==
    /\ v \in DOMAIN rows /\ rows[v].status = "pending"
    /\ rows' = [rows EXCEPT ![v].status = "failed"] /\ UNCHANGED model
    /\ Emit(Event("ready", v, "dev", NoVersion))

MarkVersionFailed(v) ==
    /\ v \in DOMAIN rows /\ rows[v].status = "pending"
    /\ rows' = [rows EXCEPT ![v].status = "failed"]
    /\ UNCHANGED <<model, log, tries, pending, redis, at, last, clean, dead, projFaults>>

PromoteVersion(v, to) ==
    /\ v \in DOMAIN rows /\ Promotable(rows[v], to)
    /\ LET d == IF to = "production" THEN Incumbent(rows) ELSE NoVersion
       IN  /\ rows' = [w \in DOMAIN rows |-> IF w = v THEN [rows[w] EXCEPT !.stage = to]
                                             ELSE IF w = d THEN [rows[w] EXCEPT !.stage = "archived"]
                                             ELSE rows[w]]
           /\ Emit(Event("promoted", v, to, d))
    /\ UNCHANGED model

ArchiveModel ==
    /\ model = "active" /\ model' = "archived"
    /\ rows' = [v \in DOMAIN rows |-> [rows[v] EXCEPT !.stage = "archived"]]
    /\ Emit(Event("archived", NoVersion, "archived", NoVersion))

Commands ==
    \/ RegisterModel \/ ArchiveModel
    \/ \E v \in ModelVersions : \/ CreateVersion(v) \/ MarkVersionReady(v) \/ MarkVersionFailed(v)
                           \/ \E to \in Stages : PromoteVersion(v, to)

-----------------------------------------------------------------------------
(* The consumers *)

Ev(s)      == log[at[s].i]
\* On to the next call; what was loaded has been used.
Goto(s, l) == at' = [at EXCEPT ![s] = Handling(l, at[s].i, Absent, NoModel)]
Others(s)  == {t \in Subjects \ {s} : at[t].pc # "idle"}

\* An event is delivered for the first time in its subject's order; a redelivery comes
\* at any time.
Deliver(s, i) ==
    /\ at[s].pc = "idle" /\ i \in pending /\ log[i].subject = s /\ tries[i] < MaxDeliver
    /\ \A j \in pending : j < i /\ log[j].subject = s => tries[j] > 0
    /\ tries' = [tries EXCEPT ![i] = @ + 1]
    /\ at' = [at EXCEPT ![s] = Handling("load", i, Absent, NoModel)]
    /\ clean' = (clean /\ Others(s) = {} /\ i \in {last, last + 1})
    /\ last' = i
    /\ UNCHANGED <<truth, pending, redis, dead, projFaults>>

\* Deliveries that end without an acknowledgement: redelivered, or given up after the
\* last try.
Return(I) ==
    LET gone == {i \in I : tries[i] = MaxDeliver}
    IN  /\ dead' = dead \cup gone /\ pending' = pending \ gone /\ clean' = (clean /\ gone = {})
        /\ UNCHANGED <<truth, tries, redis, last>>

Nak(s) == at' = [at EXCEPT ![s] = Waiting] /\ Return({at[s].i})

CallFails(s) == at[s].pc \notin {"idle", "ack"} /\ Fault /\ Nak(s)

Ack(s) ==
    /\ at[s].pc = "ack" /\ at' = [at EXCEPT ![s] = Waiting] /\ pending' = pending \ {at[s].i}
    /\ UNCHANGED <<truth, tries, redis, last, clean, dead, projFaults>>

\* The acknowledgement is lost, or the process dies with all its handlers.
AckLost(s) == at[s].pc = "ack" /\ Fault /\ Nak(s)
Crash ==
    /\ Fault /\ \E s \in Subjects : at[s].pc # "idle"
    /\ at' = [s \in Subjects |-> Waiting]
    /\ Return({at[s].i : s \in {t \in Subjects : at[t].pc # "idle"}})

-----------------------------------------------------------------------------
(* The handlers *)

Moves(s) == UNCHANGED <<truth, tries, pending, last, clean, dead, projFaults>>
Base(v) == IF v = Absent THEN Zero ELSE v

\* handleModelRegistered writes the whole hash, from the event alone.
UpsertRegistered ==
    /\ at["registered"].pc = "load"
    /\ m' = [NoModel EXCEPT !.there = TRUE, !.updated = at["registered"].i]
    /\ Goto("registered", "ack") /\ UNCHANGED vs /\ Moves("registered")

\* Mutant: the version waits for its model.
LoadVersion_ModelFirst(s) ==
    /\ s \in {"created", "ready", "promoted"} /\ at[s].pc = "load"
    /\ IF s = "created" /\ ~m.there THEN Nak(s) /\ UNCHANGED projFaults
       ELSE /\ at' = [at EXCEPT ![s] = Handling("put", at[s].i, vs[Ev(s).v], NoModel)]
            /\ UNCHANGED redis /\ Moves(s)

LoadVersion(s) ==
    /\ s \in {"created", "ready", "promoted"} /\ at[s].pc = "load"
    /\ at' = [at EXCEPT ![s] = Handling("put", at[s].i, vs[Ev(s).v], NoModel)]
    /\ UNCHANGED redis /\ Moves(s)

\* Mutant: a promotion does not keep the status it loaded.
Merged_LosesStatus(s) ==
    CASE s = "created"  -> IF at[s].v = Absent THEN [stage |-> "dev", status |-> "pending"] ELSE at[s].v
      [] s = "ready"    -> [Base(at[s].v) EXCEPT !.status = "ready"]
      [] s = "promoted" -> [Zero EXCEPT !.stage = Ev(s).to]

\* A created event leaves an existing version alone; the others overwrite their field.
Merged(s) ==
    CASE s = "created"  -> IF at[s].v = Absent THEN [stage |-> "dev", status |-> "pending"] ELSE at[s].v
      [] s = "ready"    -> [Base(at[s].v) EXCEPT !.status = "ready"]
      [] s = "promoted" -> [Base(at[s].v) EXCEPT !.stage = Ev(s).to]

Settles(s) == CASE s = "created" -> "model"
                [] s = "ready"   -> "ack"
                [] s = "promoted" /\ Ev(s).demoted # NoVersion -> "loadDemoted"
                [] OTHER -> IF Ev(s).to = "production" THEN "model" ELSE "ack"

UpsertVersion(s) ==
    /\ at[s].pc = "put"
    /\ vs' = IF s = "created" /\ at[s].v # Absent THEN vs ELSE [vs EXCEPT ![Ev(s).v] = Merged(s)]
    /\ Goto(s, Settles(s)) /\ UNCHANGED m /\ Moves(s)

LoadDemoted ==
    /\ at["promoted"].pc = "loadDemoted"
    /\ at' = [at EXCEPT !["promoted"] =
                Handling("putDemoted", at["promoted"].i, vs[Ev("promoted").demoted], NoModel)]
    /\ UNCHANGED redis /\ Moves("promoted")

Demoted(v) == [Base(v) EXCEPT !.stage = "archived"]

UpsertDemoted ==
    /\ at["promoted"].pc = "putDemoted"
    /\ vs' = [vs EXCEPT ![Ev("promoted").demoted] = Demoted(at["promoted"].v)]
    /\ Goto("promoted", "model") /\ UNCHANGED m /\ Moves("promoted")

\* The model is read; without it the event is put off.  A created event older than the
\* model's last update leaves the pointer alone.
LoadModel(s) ==
    /\ \/ s = "archived" /\ at[s].pc = "load"
       \/ at[s].pc = "model"
    /\ IF ~m.there THEN Nak(s) /\ UNCHANGED projFaults
       ELSE /\ at' = [at EXCEPT ![s] =
                        IF s = "created" /\ at[s].i < m.updated THEN Handling("ack", at[s].i, Absent, NoModel)
                        ELSE Handling("putModel", at[s].i, Absent, m)]
            /\ UNCHANGED redis /\ Moves(s)

Later(i, j) == IF i > j THEN i ELSE j

UpsertModel(s) ==
    /\ at[s].pc = "putModel"
    /\ m' = LET old == [at[s].m EXCEPT !.updated = Later(at[s].i, @)]
            IN  CASE s = "created"  -> [old EXCEPT !.latest = Ev(s).v]
                  [] s = "promoted" -> [old EXCEPT !.production = Ev(s).v]
                  [] s = "archived" -> [old EXCEPT !.archived = TRUE]
    /\ Goto(s, "ack") /\ UNCHANGED vs /\ Moves(s)

Handler(s) ==
    \/ (s = "registered" /\ UpsertRegistered)
    \/ LoadVersion(s) \/ UpsertVersion(s)
    \/ (s = "promoted" /\ (LoadDemoted \/ UpsertDemoted))
    \/ LoadModel(s) \/ UpsertModel(s) \/ Ack(s)

ProjNext ==
    \/ Commands \/ Crash
    \/ \E s \in Subjects : \/ \E i \in pending : Deliver(s, i)
                           \/ Handler(s) \/ CallFails(s) \/ AckLost(s)

ProjSpec == ProjInit /\ [][ProjNext]_projVars

-----------------------------------------------------------------------------
(* Properties *)

Quiet == pending = {} /\ \A s \in Subjects : at[s].pc = "idle"

\* In whatever order the subjects are handled, however often and however partially, the
\* read side never shows a version or a model further on than Postgres: a stage, a READY
\* artifact, a production pointer or an archival appear only after their commit.
NeverAhead ==
    /\ \A v \in ModelVersions :
        /\ vs[v] # Absent => v \in DOMAIN rows
        /\ vs[v].stage \in Stages => ~CanTransitionTo(rows[v].stage, vs[v].stage) \/ vs[v].stage = rows[v].stage
        /\ vs[v].stage \in {"staging", "production"} => rows[v].stage # "dev"
        /\ vs[v].status = "ready" => rows[v].status = "ready"
    /\ m.production # NoVersion => rows[m.production].stage \in {"production", "archived"}
    /\ m.archived => model = "archived"

\* Events that are applied one at a time and in order, each as often as it takes and after
\* any number of half-done tries, leave the read side of a live model equal to Postgres.
ConvergesInOrder ==
    clean /\ Quiet /\ last = Len(log) =>
        /\ m.there = (model # "none") /\ m.archived = (model = "archived")
        /\ model = "active" =>
            /\ vs = [v \in ModelVersions |-> IF v \in DOMAIN rows THEN Shown(rows[v]) ELSE Absent]
            /\ Incumbent(rows) \in {NoVersion, m.production}
            /\ \A i \in DOMAIN log :
                log[i].subject = "created" /\ (\A j \in DOMAIN log : j > i => log[j].subject # "created")
                => m.latest = log[i].v

\* A version whose creation was announced is visible once its event is settled, even if
\* its model is not projected and the event ends in the dead-letter queue: the version is
\* stored before the model is looked for.  (MaxProjFaults < MaxDeliver: no event is failed
\* by calls alone.)
AnnouncedIsVisible ==
    \A i \in DOMAIN log \ pending : log[i].subject = "created" => vs[log[i].v] # Absent

=============================================================================
