---------------------------- MODULE FeatureStore -----------------------------
(***************************************************************************)
(* The event-sourced feature store for one feature view: an append-only log *)
(* in Postgres, an online projection in Redis updated after each append, an *)
(* offline projection rebuilt on demand, and FeaturesWritten events         *)
(* published behind an in-memory dedup.  Commands run concurrently; any     *)
(* call may fail after the append and the process may restart.              *)
(*                                                                          *)
(* Source: services/feature-store: internal/domain/                         *)
(* featurestore_service_impl.go and models.go (the folds),                  *)
(* internal/repository/postgres/eventlog.go and offline.go,                 *)
(* internal/repository/redis/online.go, internal/events/dedup.go and the    *)
(* publishing decorator of cmd/server/main.go.  A vector is known by the    *)
(* version of the event it came from.                                       *)
(***************************************************************************)
EXTENDS Naturals, Sequences, FiniteSets, FiniteSetsExt, SequencesExt

CONSTANTS
    Callers,        \* concurrent RPCs
    Entities,
    Times,          \* event times a client may give; now is the latest of them
    Keys, NoKey,    \* idempotency keys; a key belongs to one request
    MaxLog,         \* bound: events in the log
    MaxStoreFaults  \* bound: failed calls and restarts

ASSUME TimesAssumption  == Times \subseteq Nat /\ Times # {}
ASSUME BoundsAssumption == MaxLog \in Nat /\ MaxStoreFaults \in Nat /\ NoKey \notin Keys

VARIABLES
    log,        \* feature_events: the version is the position
    ranges,     \* idempotency_keys: key, first and last version
    online,     \* Redis: the version of each entity's vector, 0 for none
    index,      \* Redis: the SET of the view's entities
    offline,    \* offline_view: the version of each entity's vector
    seen,       \* the deduper's keys, in memory
    call,       \* the callers' commands
    pubs,       \* FeaturesWritten per key since the last restart
    dirty,      \* history: the online view was disturbed, and not rebuilt since
    raced,      \* history: two calls with the same key overlapped
    storeFaults

views == <<online, index, offline>>
storeVars == <<log, ranges, views, seen, call, pubs, dirty, raced, storeFaults>>

Idle == [pc |-> "idle"]

\* The requests: rows of one batch share their event time.
Batches == {<<e>> : e \in Entities} \cup {<<e, f>> : e, f \in Entities}
Request(op, rows, time, key) == [op |-> op, rows |-> rows, time |-> time, key |-> key]
NowTime == Max(Times)
Requests ==
    {Request("write", b, t, k) : b \in Batches, t \in Times, k \in Keys \cup {NoKey}}
    \cup {Request(op, << >>, NowTime, NoKey) : op \in {"define", "delete", "rebuild"}}

\* A view that has been defined, and nothing in it yet.
Defined(n) == [type |-> "defined", entity |-> "none", time |-> 0, key |-> NoKey, pos |-> 1, schema |-> n]
StoreInit ==
    /\ log = <<Defined(1)>> /\ ranges = {}
    /\ online = [e \in Entities |-> 0] /\ index = {} /\ offline = [e \in Entities |-> 0]
    /\ seen = {} /\ call = [c \in Callers |-> Idle] /\ pubs = [k \in Keys |-> 0]
    /\ dirty = FALSE /\ raced = FALSE /\ storeFaults = 0

-----------------------------------------------------------------------------
(* The folds *)

Values(e, lo, hi) == {i \in lo..hi : log[i].type = "value" /\ log[i].entity = e}

\* Mutant: the first event of an entity wins.
ProjectLatest_First(e, lo, hi) == IF Values(e, lo, hi) = {} THEN 0 ELSE Min(Values(e, lo, hi))

\* Of the events lo..hi, the one with the greatest version.
ProjectLatest(e, lo, hi) == IF Values(e, lo, hi) = {} THEN 0 ELSE Max(Values(e, lo, hi))

\* Mutant: the earlier version wins a tie.
MoreRecentAsOf_FirstWins(i, j) == log[i].time > log[j].time

\* Later event time wins, then the higher version.
MoreRecentAsOf(i, j) == log[i].time > log[j].time \/ (log[i].time = log[j].time /\ i > j)

\* One pass over the log; events after asOf are invisible.
ProjectAsOf(e, asOf) ==
    LET Pick(best, i) ==
            IF log[i].type # "value" \/ log[i].entity # e \/ log[i].time > asOf THEN best
            ELSE IF best = 0 \/ MoreRecentAsOf(i, best) THEN i ELSE best
    IN  FoldLeft(Pick, 0, [i \in 1..Len(log) |-> i])

\* foldView: the last definition; a deletion is never taken back.
Schema    == Max({log[i].schema : i \in 1..Len(log)})
IsDeleted(n) == \E i \in 1..n : log[i].type = "deleted"
Deleted   == IsDeleted(Len(log))

-----------------------------------------------------------------------------
(* A command's life *)

At(c, pc)   == call[c].pc = pc
Proceed(c, pc) == call' = [call EXCEPT ![c].pc = pc]
Return(c)   == call' = [call EXCEPT ![c] = Idle]

\* Has read or written the log and not yet caught up the online view with it.
Exposed(c) == call[c].pc \in {"put", "members", "purge", "fill"}

Begin(c, r) ==
    /\ At(c, "idle") /\ Len(log) < MaxLog
    /\ call' = [call EXCEPT ![c] = [pc |-> "load", req |-> r, first |-> 0, last |-> 0, members |-> {}]]
    /\ UNCHANGED <<log, ranges, views, seen, pubs, dirty, raced, storeFaults>>

\* A call fails, or the caller is gone.
Fails(c) ==
    /\ ~At(c, "idle") /\ storeFaults < MaxStoreFaults /\ storeFaults' = storeFaults + 1 /\ Return(c)
    /\ dirty' = (dirty \/ Exposed(c))
    /\ UNCHANGED <<log, ranges, views, seen, pubs, raced>>

Restart ==
    /\ storeFaults < MaxStoreFaults /\ storeFaults' = storeFaults + 1
    /\ call' = [c \in Callers |-> Idle] /\ seen' = {} /\ pubs' = [k \in Keys |-> 0]
    /\ dirty' = (dirty \/ \E c \in Callers : Exposed(c))
    /\ UNCHANGED <<log, ranges, views, raced>>

\* authorizedView, or for a rebuild the load of the whole log.
Load(c) ==
    LET op == call[c].req.op
    IN  /\ At(c, "load")
        /\ CASE op = "rebuild" -> call' = [call EXCEPT ![c].pc = "members", ![c].last = Len(log)]
             [] op = "define"  -> call' = [call EXCEPT ![c].pc = "lookup", ![c].first = Schema]
             [] OTHER          -> IF Deleted THEN Return(c) ELSE Proceed(c, "lookup")
        /\ UNCHANGED <<log, ranges, views, seen, pubs, dirty, raced, storeFaults>>

-----------------------------------------------------------------------------
(* EventLog.Append *)

KeyRange(k) == {r \in ranges : r.key = k}

\* Mutant: the key is not looked up.
Hit_Never(k) == {}

\* lookupIdempotency
Hit(k) == KeyRange(k)

\* The lookup comes before the version lock.
Lookup(c) ==
    LET k == call[c].req.key
    IN  /\ At(c, "lookup")
        /\ IF Hit(k) = {} THEN Proceed(c, "insert")
           ELSE \E r \in Hit(k) : call' = [call EXCEPT ![c].pc = "put", ![c].first = r.first, ![c].last = r.last]
        /\ raced' = (raced \/ (k # NoKey /\ \E d \in Callers \ {c} : call[d].pc # "idle" /\ call[d].req.key = k))
        /\ UNCHANGED <<log, ranges, views, seen, pubs, dirty, storeFaults>>

NewEvents(c) ==
    LET r == call[c].req
        Event(type, e, pos) == [type |-> type, entity |-> e, time |-> r.time, key |-> r.key, pos |-> pos,
                                schema |-> IF type = "defined" THEN call[c].first + 1 ELSE 0]
    IN  CASE r.op = "write"  -> [i \in DOMAIN r.rows |-> Event("value", r.rows[i], i)]
          [] r.op = "define" -> <<Event("defined", "none", 1)>>
          [] r.op = "delete" -> <<Event("deleted", "none", 1)>>

\* Under the lock: contiguous versions, the events and the key's range in one
\* transaction; an existing range is left alone.
Insert(c) ==
    LET r == call[c].req
        n == Len(log)
    IN  /\ At(c, "insert")
        /\ log' = log \o NewEvents(c)
        /\ ranges' = IF r.key = NoKey \/ KeyRange(r.key) # {} THEN ranges
                     ELSE ranges \cup {[key |-> r.key, first |-> n + 1, last |-> Len(log')]}
        /\ CASE r.op = "write"  -> call' = [call EXCEPT ![c].pc = "put", ![c].first = n + 1, ![c].last = Len(log')]
             [] r.op = "define" -> Return(c)
             [] r.op = "delete" -> Proceed(c, "members")
        /\ dirty' = (dirty \/ (\E d \in Callers \ {c} : Exposed(d)) \/ (r.op = "write" /\ Deleted))
        /\ UNCHANGED <<views, seen, pubs, raced, storeFaults>>

-----------------------------------------------------------------------------
(* The projections *)

\* OnlineViewStore.Put of what lo..hi say about each entity.
Projected(e, lo, hi, old) == IF ProjectLatest(e, lo, hi) = 0 THEN old ELSE ProjectLatest(e, lo, hi)
Fill(lo, hi) ==
    /\ online' = [e \in Entities |-> Projected(e, lo, hi, online[e])]
    /\ index' = index \cup {e \in Entities : Values(e, lo, hi) # {}}

\* Only the batch's own events are projected; a replayed batch is put again.
Put(c) ==
    LET lo == call[c].first
        hi == call[c].last
    IN  /\ At(c, "put") /\ Fill(lo, hi) /\ Proceed(c, "publish")
        /\ dirty' = (dirty \/ Deleted \/ (\E d \in Callers \ {c} : Exposed(d)) \/ \E e \in Entities :
                        Values(e, lo, hi) # {} /\ Values(e, hi + 1, Len(log)) # {})
        /\ UNCHANGED <<log, ranges, offline, seen, pubs, raced, storeFaults>>

\* Purge: the index, then the vectors it names and the index itself.  A rebuild that
\* starts here alone, with the whole log in hand and an index that names every vector,
\* will set everything right (a vector an interrupted purge orphaned stays).
Members(c) ==
    /\ At(c, "members") /\ call' = [call EXCEPT ![c].pc = "purge", ![c].members = index]
    /\ dirty' = (dirty /\ ~(/\ call[c].req.op = "rebuild" /\ call[c].last = Len(log)
                            /\ \A e \in Entities : online[e] # 0 => e \in index
                            /\ \A d \in Callers \ {c} : ~Exposed(d)))
    /\ UNCHANGED <<log, ranges, views, seen, pubs, raced, storeFaults>>

Purged(c) == [e \in Entities |-> IF e \in call[c].members THEN 0 ELSE online[e]]

Purge(c) ==
    /\ At(c, "purge")
    /\ online' = Purged(c) /\ index' = {}
    /\ IF call[c].req.op = "delete" THEN Return(c) ELSE Proceed(c, "fill")
    /\ UNCHANGED <<log, ranges, offline, seen, pubs, dirty, raced, storeFaults>>

\* The rest of a rebuild: the online view of a live view, and the offline one.
Rebuild(c) ==
    LET n == call[c].last
    IN  /\ At(c, "fill")
        /\ IF IsDeleted(n) THEN UNCHANGED <<online, index>> ELSE Fill(1, n)
        /\ Proceed(c, "offline")
        /\ UNCHANGED <<log, ranges, offline, seen, pubs, dirty, raced, storeFaults>>

RebuildOffline(c) ==
    /\ At(c, "offline")
    /\ offline' = [e \in Entities |-> ProjectLatest(e, 1, call[c].last)] /\ Return(c)
    /\ UNCHANGED <<log, ranges, online, index, seen, pubs, dirty, raced, storeFaults>>

\* The decorator: published unless the key was, and remembered.
Publish(c) ==
    LET k == call[c].req.key
    IN  /\ At(c, "publish") /\ Return(c)
        /\ pubs' = IF k \in Keys \ seen THEN [pubs EXCEPT ![k] = @ + 1] ELSE pubs
        /\ seen' = seen \cup ({k} \cap Keys)
        /\ UNCHANGED <<log, ranges, views, dirty, raced, storeFaults>>

Command(c) ==
    \/ Load(c) \/ Lookup(c) \/ Insert(c) \/ Put(c) \/ Publish(c)
    \/ Members(c) \/ Purge(c) \/ Rebuild(c) \/ RebuildOffline(c)

StoreNext ==
    \/ \E c \in Callers : Command(c) \/ Fails(c) \/ \E r \in Requests : Begin(c, r)
    \/ Restart

StoreSpec == StoreInit /\ [][StoreNext]_storeVars

-----------------------------------------------------------------------------
(* Properties *)

\* However commands fail and are retried, a key's batch is in the log once and announced
\* once in the life of a process; only two calls that carry the same key at the same time
\* can break that (the lookup comes before the lock, the check before the publish).
OncePerKey ==
    ~raced => \A k \in Keys :
        /\ Cardinality({i \in 1..Len(log) : log[i].key = k /\ log[i].pos = 1}) <= 1
        /\ pubs[k] <= 1

\* Whenever nobody is between the log and Redis, the online view is the latest-per-entity
\* fold of the whole log, and nothing at all for a deleted view: batches, retries,
\* definitions, deletions and rebuilds included.  An append under another command's
\* exposure, a late replay or a failure after the append may break it, and a rebuild
\* that runs alone restores it.
OnlineIsLatest ==
    ~dirty /\ (\A c \in Callers : ~Exposed(c)) =>
        online = [e \in Entities |-> IF Deleted THEN 0 ELSE ProjectLatest(e, 1, Len(log))]

\* History is exact under late, out-of-order and concurrent writes: a point-in-time read is
\* the greatest event by time, then version, among those not after asOf, as the one-pass
\* fold with its tie-break finds it; and the offline table is always the fold of one
\* prefix of the log, never of parts of two.
HistoryIsExact ==
    /\ \A e \in Entities, t \in Times :
        LET visible == {i \in Values(e, 1, Len(log)) : log[i].time <= t}
            best == ProjectAsOf(e, t)
        IN  IF visible = {} THEN best = 0
            ELSE /\ best \in visible
                 /\ \A i \in visible : log[i].time < log[best].time \/ (log[i].time = log[best].time /\ i <= best)
    /\ \E n \in 0..Len(log) : offline = [e \in Entities |-> ProjectLatest(e, 1, n)]
=============================================================================
