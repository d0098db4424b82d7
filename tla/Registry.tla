------------------------------ MODULE Registry -------------------------------
(***************************************************************************)
(* The write side of the registry: commands on one model and its versions,  *)
(* each a sequence of reads, a transaction, an idempotency record and an    *)
(* emitted event, run by concurrent callers against one Postgres.  Nothing  *)
(* holds a row between a command's read and its write, so what the command  *)
(* checked may be stale when it commits; any call may fail on the way.      *)
(*                                                                          *)
(* Source: services/registry/internal: domain/registry_service_impl.go,     *)
(* domain/models.go, repository/postgres/write_store.go and the unique      *)
(* indexes of migrations/.  One team; names, tags and metrics are dropped.  *)
(***************************************************************************)
EXTENDS Naturals, FiniteSets, RegistryStages

CONSTANTS
    Callers,        \* concurrent RPCs
    Versions,       \* version ids
    NoVersion,
    Keys,           \* idempotency keys
    NoKey,          \* no key given
    MaxAttempts,    \* maxAutoLabelAttempts
    MaxCalls,       \* bound: commands
    MaxFaults       \* bound: calls that fail

ASSUME KeyAssumption    == NoKey \notin Keys /\ NoVersion \notin Versions /\ IsFiniteSet(Versions)
ASSUME BoundsAssumption == MaxAttempts \in Nat /\ MaxCalls \in Nat /\ MaxFaults \in Nat

NoLabel  == 0
Pinned   == 1       \* the label a client pins
Labels   == Nat

VARIABLES
    model,      \* the models row: its state, "none", "active" or "archived", and its key
    rows,       \* model_versions, by id
    ledger,     \* command_idempotency: command, key, entity
    call,       \* each caller's command
    events,     \* the kinds of event emitted, by version
    stale,      \* history: a command wrote over a row that changed after it was read
    calls, faults

db   == <<model, rows, ledger>>
vars == <<db, call, events, stale, calls, faults>>

Row(stage, status, label, key) == [stage |-> stage, status |-> status, label |-> label, key |-> key]
InUse(l) == {Row(i.stage, i.status, l, NoKey) : i \in Lifecycle}
Request(op, v, to, key) == [op |-> op, v |-> v, to |-> to, key |-> key]

\* What clients ask for: a target stage, the outcome of an upload, a label.
Requests ==
    {Request(op, NoVersion, "none", k) : op \in {"register", "archive"}, k \in Keys \cup {NoKey}}
    \cup {Request("update", NoVersion, "none", NoKey)}
    \cup {Request("create", NoVersion, l, k) : l \in {"auto", "pinned"}, k \in Keys \cup {NoKey}}
    \cup {Request("ready", v, s, k) : v \in Versions, s \in {"ready", "failed"}, k \in Keys \cup {NoKey}}
    \cup {Request("promote", v, s, k) : v \in Versions, s \in Stages \ {"dev"}, k \in Keys \cup {NoKey}}

\* A command's locals: the row it read, the version to demote, the label to try.
Idle == [pc |-> "idle"]
Started(r, pc) == [pc |-> pc, req |-> r, seen |-> "none", prior |-> NoVersion, label |-> NoLabel, attempt |-> 0]

Init ==
    /\ model \in [state : {"none", "active"}, key : {NoKey}]
    /\ \E D \in SUBSET Versions : \E n \in [D -> 1..Cardinality(D)] :
        /\ \A v, w \in D : n[v] = n[w] => v = w
        /\ model.state = "none" => D = {}
        /\ rows \in [D -> UNION {InUse(l) : l \in 1..Cardinality(D)}]
        /\ \A v \in D : rows[v].label = n[v]
        /\ Cardinality(Production(rows)) <= 1
    /\ ledger = {} /\ events = {} /\ stale = FALSE
    /\ call = [c \in Callers |-> Idle] /\ calls = 0 /\ faults = 0

-----------------------------------------------------------------------------
(* A command's life *)

Running(c, pc) == call[c].pc = pc
Goto(c, pc)    == call' = [call EXCEPT ![c].pc = pc]
Return(c)      == call' = [call EXCEPT ![c] = Idle]

Begin(c, r) ==
    /\ Running(c, "idle") /\ calls < MaxCalls /\ calls' = calls + 1
    /\ call' = [call EXCEPT ![c] = Started(r, IF r.key = NoKey THEN "load" ELSE "lookup")]
    /\ UNCHANGED <<db, events, stale, faults>>

\* A call fails or the caller goes away; what was committed stays.
Fails(c) ==
    /\ ~Running(c, "idle") /\ faults < MaxFaults /\ faults' = faults + 1
    /\ Return(c)
    /\ UNCHANGED <<db, events, stale, calls>>

\* The key was used before, and the command answers with what it names.
Known(r) ==
    \/ r.op = "register" /\ model.state # "none" /\ model.key = r.key
    \/ r.op = "create" /\ \E v \in DOMAIN rows : rows[v].key = r.key
    \/ \E e \in ledger : e.op = r.op /\ e.key = r.key

Lookup(c) ==
    /\ Running(c, "lookup")
    /\ IF Known(call[c].req) THEN Return(c) ELSE Goto(c, "load")
    /\ UNCHANGED <<db, events, stale, calls, faults>>

-----------------------------------------------------------------------------
(* Reads and checks *)

\* The command was already carried out, or may go on; otherwise it is refused.
AlreadyDone(r) ==
    \/ r.op = "archive" /\ model.state = "archived"
    \/ r.op = "ready" /\ r.v \in DOMAIN rows /\ rows[r.v].status = r.to
    \/ r.op = "promote" /\ r.v \in DOMAIN rows /\ rows[r.v].stage = r.to
Allowed(r) ==
    \/ r.op = "register"
    \/ r.op \in {"update", "create", "archive"} /\ model.state = "active"
    \/ r.op = "ready" /\ r.v \in DOMAIN rows /\ rows[r.v].status = "pending"
    \/ r.op = "promote" /\ r.v \in DOMAIN rows /\ Promotable(rows[r.v], r.to)

Seen(r) == IF r.op \in {"ready", "promote"} THEN rows[r.v] ELSE model

NextRead(r) ==
    CASE r.op = "create" /\ r.to = "auto" -> "count"
      [] r.op = "promote" /\ r.to = "production" -> "prior"
      [] OTHER -> "write"

Load(c) ==
    LET r == call[c].req
    IN  /\ Running(c, "load")
        /\ IF AlreadyDone(r) \/ ~Allowed(r) THEN Return(c)
           ELSE call' = [call EXCEPT ![c].pc = NextRead(r), ![c].seen = Seen(r),
                                     ![c].label = IF r.to = "pinned" THEN Pinned ELSE NoLabel]
        /\ UNCHANGED <<db, events, stale, calls, faults>>

\* CountVersions
Count(c) ==
    /\ Running(c, "count")
    /\ call' = [call EXCEPT ![c].pc = "write", ![c].label = Cardinality(DOMAIN rows) + 1]
    /\ UNCHANGED <<db, events, stale, calls, faults>>

\* FindProductionVersion
Prior(c) ==
    /\ Running(c, "prior")
    /\ \E p \in (IF Production(rows) = {} THEN {NoVersion} ELSE Production(rows)) :
        call' = [call EXCEPT ![c].pc = "write",
                             ![c].prior = IF p = call[c].req.v THEN NoVersion ELSE p]
    /\ UNCHANGED <<db, events, stale, calls, faults>>

-----------------------------------------------------------------------------
(* Transactions.  Each one of these commits, or conflicts and changes nothing. *)

Op(c, op) == Running(c, "write") /\ call[c].req.op = op
Stale(c)  == stale' = (stale \/ call[c].seen # Seen(call[c].req))
Refused(c) == Return(c) /\ UNCHANGED <<db, stale>>

\* UNIQUE (team, name) and (team, idempotency_key)
CreateModel(c) ==
    /\ Op(c, "register")
    /\ IF model.state # "none" THEN Refused(c)
       ELSE /\ model' = [state |-> "active", key |-> call[c].req.key] /\ Goto(c, "emit")
            /\ UNCHANGED <<rows, ledger, stale>>
    /\ UNCHANGED <<events, calls, faults>>

\* The whole row is written back as it was read, archived_at included.
UpdateModel(c) ==
    /\ Op(c, "update")
    /\ model' = call[c].seen /\ Return(c) /\ Stale(c)
    /\ UNCHANGED <<rows, ledger, events, calls, faults>>

\* Mutant: no unique index on the idempotency key.
Conflict_LabelOnly(label, key) == \E v \in DOMAIN rows : rows[v].label = label

\* UNIQUE (model_id, version) and (model_id, idempotency_key)
Conflict(label, key) ==
    \E v \in DOMAIN rows : rows[v].label = label \/ (key # NoKey /\ rows[v].key = key)

\* Mutant: the loser of a label race tries the same label again.
Bump_Same(c) == [call EXCEPT ![c].attempt = @ + 1]

\* The next label of the collision-safe loop.
Bump(c) == [call EXCEPT ![c].attempt = @ + 1, ![c].label = @ + 1]

\* One round of CreateVersion's insert loop.
CreateVersion(c) ==
    LET r == call[c].req
    IN  /\ Op(c, "create")
        /\ \/ /\ ~Conflict(call[c].label, r.key)
              /\ \E v \in Versions \ DOMAIN rows :
                    /\ rows' = [w \in DOMAIN rows \cup {v} |->
                                  IF w = v THEN Row("dev", "pending", call[c].label, r.key) ELSE rows[w]]
                    /\ call' = [call EXCEPT ![c].pc = "emit", ![c].req.v = v]
              /\ Stale(c) /\ UNCHANGED <<model, ledger>>
           \/ /\ Conflict(call[c].label, r.key)
              /\ call' = IF r.to = "pinned" THEN [call EXCEPT ![c] = Idle]
                         ELSE IF call[c].attempt >= MaxAttempts THEN [call EXCEPT ![c].pc = "exhausted"]
                         ELSE Bump(c)
              /\ UNCHANGED <<db, stale>>
        /\ UNCHANGED <<events, calls, faults>>

\* The loop gives up with an error.
Exhausted(c) == Running(c, "exhausted") /\ Return(c) /\ UNCHANGED <<db, events, stale, calls, faults>>

AfterWrite(c) == IF call[c].req.key = NoKey THEN "emit" ELSE "record"

\* UpdateVersionStatus writes the stage back too, as it was read.
UpdateVersionStatus(c) ==
    LET r == call[c].req
    IN  /\ Op(c, "ready")
        /\ rows' = [rows EXCEPT ![r.v].stage = call[c].seen.stage, ![r.v].status = r.to]
        /\ Goto(c, AfterWrite(c)) /\ Stale(c)
        /\ UNCHANGED <<model, ledger, events, calls, faults>>

\* Mutant: no partial unique index on PRODUCTION.
SecondProduction_NoIndex(f) == FALSE

\* UNIQUE (model_id) WHERE stage = PRODUCTION
SecondProduction(f) == Cardinality(Production(f)) > 1

\* The incumbent that was found is archived, then the version is promoted.
Swap(c) == [v \in DOMAIN rows |-> IF v = call[c].req.v THEN [rows[v] EXCEPT !.stage = call[c].req.to]
                                  ELSE IF v = call[c].prior THEN [rows[v] EXCEPT !.stage = "archived"]
                                  ELSE rows[v]]

PromoteVersionTx(c) ==
    /\ Op(c, "promote")
    /\ IF SecondProduction(Swap(c)) THEN Refused(c)
       ELSE rows' = Swap(c) /\ Goto(c, AfterWrite(c)) /\ Stale(c) /\ UNCHANGED <<model, ledger>>
    /\ UNCHANGED <<events, calls, faults>>

ArchiveVersions == [v \in DOMAIN rows |-> [rows[v] EXCEPT !.stage = "archived"]]

ArchiveModelTx(c) ==
    /\ Op(c, "archive")
    /\ model' = [model EXCEPT !.state = "archived"] /\ rows' = ArchiveVersions
    /\ Goto(c, AfterWrite(c))
    /\ UNCHANGED <<ledger, events, stale, calls, faults>>

Write(c) ==
    \/ CreateModel(c) \/ UpdateModel(c) \/ CreateVersion(c)
    \/ UpdateVersionStatus(c) \/ PromoteVersionTx(c) \/ ArchiveModelTx(c)

-----------------------------------------------------------------------------
(* After the commit *)

\* RecordCommandIdempotency: the first entity recorded for a key stays; a command for
\* another one fails, although it has been carried out.
Record(c) ==
    LET r == call[c].req
    IN  /\ Running(c, "record")
        /\ IF \E e \in ledger : e.op = r.op /\ e.key = r.key
           THEN /\ ledger' = ledger
                /\ IF [op |-> r.op, key |-> r.key, v |-> r.v] \in ledger THEN Goto(c, "emit") ELSE Return(c)
           ELSE ledger' = ledger \cup {[op |-> r.op, key |-> r.key, v |-> r.v]} /\ Goto(c, "emit")
        /\ UNCHANGED <<model, rows, events, stale, calls, faults>>

\* A failed upload emits nothing, and emit ignores the publisher's error.
Emit(c) ==
    LET r == call[c].req
    IN  /\ Running(c, "emit") /\ Return(c)
        /\ events' = IF r.op = "ready" /\ r.to = "failed" THEN events
                     ELSE events \cup {[kind |-> r.op, v |-> r.v, to |-> r.to]}
        /\ UNCHANGED <<db, stale, calls, faults>>

Command(c) ==
    \/ Lookup(c) \/ Load(c) \/ Count(c) \/ Prior(c) \/ Write(c)
    \/ Exhausted(c) \/ Record(c) \/ Emit(c)

Next ==
    \E c \in Callers : \/ \E r \in Requests : Begin(c, r)
                       \/ Command(c) \/ Fails(c)

Spec == Init /\ [][Next]_vars

-----------------------------------------------------------------------------
(* Properties *)

\* However promotions, archivals and late writes race, a model has at most one
\* PRODUCTION version (PromoteVersionTx and the partial unique index).
OneProduction == Cardinality(Production(rows)) <= 1

\* Two creates never share a label or a key, however they race (CreateVersion's loop).
OneVersionPerKey ==
    \A v, w \in DOMAIN rows :
        \/ rows[v].label = rows[w].label
        \/ rows[v].key = rows[w].key /\ rows[v].key # NoKey
        => v = w

\* An unpinned create gives up only when it races with its own retry: the key is
\* stored by then, and no label could have helped (the loop's promise that an unpinned
\* caller never sees a label conflict).
AutoLabelSucceeds ==
    \A c \in Callers : Running(c, "exhausted") =>
        /\ call[c].req.key # NoKey
        /\ \E v \in DOMAIN rows : rows[v].key = call[c].req.key

\* As long as no command wrote over a row that had changed since it read it: what is
\* staged or served has a READY artifact, an archived model has only ARCHIVED versions,
\* and no event was emitted for a change that did not stick.  Retries, failed calls,
\* lost demotions and racing creates do no harm.
LifecycleHonest ==
    ~stale =>
        /\ \A v \in DOMAIN rows : rows[v].stage \in {"staging", "production"} => rows[v].status = "ready"
        /\ model.state = "archived" => \A v \in DOMAIN rows : rows[v].stage = "archived"
        /\ \A e \in events : CASE e.kind = "promote" -> ~CanTransitionTo(rows[e.v].stage, e.to)
                               [] e.kind = "ready"   -> rows[e.v].status = "ready"
                               [] e.kind = "archive" -> model.state = "archived"
                               [] OTHER              -> model.state # "none"

=============================================================================
