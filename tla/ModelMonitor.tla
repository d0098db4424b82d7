---------------------------- MODULE ModelMonitor ----------------------------
(***************************************************************************)
(* The model-monitor's data plane for one monitor: inference events are     *)
(* folded into the open window in Redis, a full window is scored, its       *)
(* report is stored once, the window is closed, and a drifted report is     *)
(* published and may trigger a retrain.  Several handler goroutines do this *)
(* at once (completed and failed inferences are separate subscriptions),    *)
(* every store may fail, the process may die and deliveries are repeated.   *)
(*                                                                          *)
(* Source: services/model-monitor/internal: domain/monitor_service_impl.go, *)
(* domain/window.go, domain/policy.go, repository/redis/window_store.go,    *)
(* repository/postgres/drift_report_repository.go.  Scoring is floating     *)
(* point and is reduced to the severity it may return.                      *)
(***************************************************************************)
EXTENDS Naturals, FiniteSets

CONSTANTS
    Handlers,       \* consumer goroutines of the process
    Events,         \* inference events, each with its request id
    NoEvent,        \* no event
    WindowSize,     \* Monitor.WindowSize; 0 for time-based windows only
    Timed,          \* whether Monitor.WindowDuration is set
    MinSamples,     \* Monitor.MinSamples
    AutoRetrain,    \* Monitor.AutoRetrain, with a pipeline configured
    MaxDeliver,     \* deliveries of one event
    MaxFaults,      \* bound: calls that fail and crashes
    MaxAdmin        \* bound: operator calls

\* validateWindowShape
ASSUME ShapeAssumption ==
    /\ WindowSize \in Nat /\ MinSamples \in Nat /\ Timed \in BOOLEAN /\ AutoRetrain \in BOOLEAN
    /\ WindowSize > 0 => MinSamples <= WindowSize
    /\ WindowSize > 0 \/ Timed
ASSUME EventsAssumption == IsFiniteSet(Events) /\ NoEvent \notin Events
ASSUME BoundsAssumption == MaxDeliver \in Nat /\ MaxFaults \in Nat /\ MaxAdmin \in Nat

WindowIDs  == 1..(Cardinality(Events) * MaxDeliver)
Severities == {"ok", "warning", "critical"}
NoWindow   == [id |-> 0, count |-> 0]
Empty      == [id |-> 0, count |-> 0, reqs |-> {}]

VARIABLES
    mon,        \* the monitor: "active" (whatever its baseline), "paused" or "deleted"
    meta,       \* the window hash in Redis: id and sample_count
    reqs,       \* the window's request-id set in Redis
    opened,     \* window ids handed out so far
    reports,    \* drift_reports, by window_id
    gate,       \* the cooldown gate of this process: "open" or "hot"
    pc,         \* where each handler is
    ev,         \* the event it handles
    win,        \* its copy of the window
    rep,        \* its report: severity, and whether this delivery inserted it
    left,       \* deliveries left for each event
    pending,    \* events the consumer has still to settle
    pubs,       \* ModelDriftDetected events per window
    fires,      \* retrains triggered since the cooldown last elapsed
    folds,      \* history: events folded into each window
    cut,        \* history: windows whose handler failed after the report was stored
    overlap,    \* history: a window changed between a handler's read and its write
    raced,      \* history: two handlers passed the cooldown gate before either closed it
    faults, admin

store  == <<meta, reqs, opened>>
inbox  == <<left, pending>>
output == <<pubs, fires>>
past   == <<folds, cut, overlap, raced>>
vars == <<mon, store, reports, gate, pc, ev, win, rep, inbox, output, past, faults, admin>>

NoReport == [sev |-> "ok", inserted |-> FALSE]

Init ==
    /\ mon \in {"active", "paused"}
    /\ meta = NoWindow /\ reqs = {} /\ opened = 0 /\ reports = {} /\ gate = "open"
    /\ pc = [h \in Handlers |-> "idle"] /\ ev = [h \in Handlers |-> NoEvent]
    /\ win = [h \in Handlers |-> Empty] /\ rep = [h \in Handlers |-> NoReport]
    /\ left = [e \in Events |-> MaxDeliver] /\ pending = Events
    /\ pubs = [w \in WindowIDs |-> 0] /\ fires = 0
    /\ folds = [w \in WindowIDs |-> {}] /\ cut = {} /\ overlap = FALSE /\ raced = FALSE
    /\ faults = 0 /\ admin = 0

-----------------------------------------------------------------------------
(* The consumer around the handler (EventConsumer, in short) *)

Busy == {ev[h] : h \in Handlers}

Deliver(h, e) ==
    /\ pc[h] = "idle" /\ e \in pending \ Busy /\ left[e] > 0
    /\ left' = [left EXCEPT ![e] = @ - 1]
    /\ ev' = [ev EXCEPT ![h] = e] /\ pc' = [pc EXCEPT ![h] = "load"]
    /\ UNCHANGED <<mon, store, reports, gate, win, rep, pending, output, past, faults, admin>>

\* The locals are dead once only the acknowledgement is left.
Goto(h, l) ==
    /\ pc' = [pc EXCEPT ![h] = l] /\ UNCHANGED <<ev, inbox>>
    /\ win' = IF l = "ack" THEN [win EXCEPT ![h] = Empty] ELSE win
    /\ rep' = IF l = "ack" THEN [rep EXCEPT ![h] = NoReport] ELSE rep

\* The handler's locals are gone when it returns.
Leaves(h) ==
    /\ pc' = [pc EXCEPT ![h] = "idle"] /\ win' = [win EXCEPT ![h] = Empty]
    /\ rep' = [rep EXCEPT ![h] = NoReport] /\ ev' = [ev EXCEPT ![h] = NoEvent]

\* A nil return is acknowledged; an error leaves the event pending for a redelivery,
\* if there is one left.
Acked(h)  == Leaves(h) /\ pending' = pending \ {ev[h]} /\ UNCHANGED left
Nakked(h) == Leaves(h) /\ UNCHANGED inbox
Fault     == faults < MaxFaults /\ faults' = faults + 1

\* Between the insert of its report and the end of applyPolicy's publish.
Owes == {"close", "closing", "policy", "publish", "alert"}
Owing(h) == rep[h].inserted /\ pc[h] \in Owes
CutOff(H) == cut' = cut \cup {win[h].id : h \in {g \in H : Owing(g)}}

\* Any store call of the handler returns an error, which the handler returns; only the
\* close of a window that could not be scored is allowed to fail.
CallFails(h) ==
    /\ pc[h] \notin {"idle", "ack"} /\ Fault /\ CutOff({h})
    /\ IF rep[h].sev = "unscored" THEN Acked(h) ELSE Nakked(h)
    /\ UNCHANGED <<mon, store, reports, gate, output, folds, overlap, raced, admin>>

-----------------------------------------------------------------------------
(* The window store *)

\* HGetAll: the metadata, or a fresh window that is not written yet.
LoadMeta(h) ==
    /\ pc[h] = "load"
    /\ IF meta = NoWindow
       THEN /\ opened' = opened + 1
            /\ win' = [win EXCEPT ![h] = [id |-> opened + 1, count |-> 0, reqs |-> {}]]
            /\ pc' = [pc EXCEPT ![h] = "fold"]
       ELSE /\ opened' = opened
            /\ win' = [win EXCEPT ![h] = [id |-> meta.id, count |-> meta.count, reqs |-> {}]]
            /\ pc' = [pc EXCEPT ![h] = "members"]
    /\ UNCHANGED <<mon, meta, reqs, reports, gate, ev, rep, inbox, output, past, faults, admin>>

\* SMembers, and the self-check: fewer request ids than samples are topped up, more
\* are a torn window.
LoadReqs(h) ==
    /\ pc[h] = "members"
    /\ IF Cardinality(reqs) > win[h].count
       THEN Nakked(h)
       ELSE /\ win' = [win EXCEPT ![h].reqs = reqs] /\ pc' = [pc EXCEPT ![h] = "fold"]
            /\ UNCHANGED <<ev, rep, inbox>>
    /\ UNCHANGED <<mon, store, reports, gate, output, past, faults, admin>>

\* Another handler has read the window and not yet written it.
Disturbs(h) == \E g \in Handlers \ {h} : pc[g] \in {"members", "fold"}

\* Mutant: a duplicate is counted.
Add_NoDedup(w, e) == [w EXCEPT !.count = @ + 1, !.reqs = @ \cup {e}]

\* Window.Add
Add(w, e) == IF e \in w.reqs THEN w ELSE [w EXCEPT !.count = @ + 1, !.reqs = @ \cup {e}]

\* WindowStore.Save: the hash is overwritten, the set is added to.
SaveWindow(w) == meta' = [id |-> w.id, count |-> w.count] /\ reqs' = reqs \cup w.reqs

\* Add, RecordPrediction (in memory) and Save; the handler does not look at the copy's
\* request ids again.
Fold(h) ==
    LET w == Add(win[h], ev[h])
    IN  /\ pc[h] = "fold"
        /\ SaveWindow(w)
        /\ win' = [win EXCEPT ![h] = [w EXCEPT !.reqs = {}]] /\ pc' = [pc EXCEPT ![h] = "check"]
        /\ folds' = [folds EXCEPT ![w.id] = @ \cup {ev[h]}]
        /\ overlap' = (overlap \/ Disturbs(h))
        /\ UNCHANGED <<mon, opened, reports, gate, ev, rep, inbox, output, cut, raced, faults, admin>>

\* Close, first half: HGet of the stored id.
AfterClose(h) == IF rep[h].inserted THEN "policy" ELSE "ack"

\* Mutant: a window that somebody else closed is nobody's business any more.
CloseRead_Stop(h) ==
    /\ pc[h] = "close"
    /\ Goto(h, IF meta.id = win[h].id THEN "closing" ELSE "ack")
    /\ UNCHANGED <<mon, store, reports, gate, output, past, faults, admin>>

CloseRead(h) ==
    /\ pc[h] = "close"
    /\ Goto(h, IF meta.id = win[h].id THEN "closing" ELSE AfterClose(h))
    /\ UNCHANGED <<mon, store, reports, gate, output, past, faults, admin>>

\* Close, second half: Del of both keys, whatever they hold by now.
CloseDel(h) ==
    /\ pc[h] = "closing"
    /\ meta' = NoWindow /\ reqs' = {}
    /\ overlap' = (overlap \/ Disturbs(h))
    /\ Goto(h, AfterClose(h))
    /\ UNCHANGED <<mon, opened, reports, gate, output, folds, cut, raced, faults, admin>>

\* A window nobody touches for a day is reaped.
Expire ==
    /\ meta # NoWindow /\ \A h \in Handlers : pc[h] = "idle"
    /\ meta' = NoWindow /\ reqs' = {}
    /\ UNCHANGED <<mon, opened, reports, gate, pc, ev, win, rep, inbox, output, past, faults, admin>>

-----------------------------------------------------------------------------
(* ObserveInference after the fold *)

IsClosed(w) == (WindowSize > 0 /\ w.count >= WindowSize) \/ Timed
HasEnoughSamples(w) == w.count >= MinSamples

\* Deleted, paused, still open, too few samples, or ready to be scored.  A timed window
\* may or may not have run out.
Check(h) ==
    /\ pc[h] = "check"
    /\ \/ (mon \in {"deleted", "paused"} \/ win[h].count < WindowSize \/ WindowSize = 0) /\ Acked(h)
       \/ /\ mon \notin {"deleted", "paused"} /\ IsClosed(win[h])
          /\ Goto(h, IF HasEnoughSamples(win[h]) THEN "score" ELSE "close")
    /\ UNCHANGED <<mon, store, reports, gate, output, past, faults, admin>>

\* scoreWindow: without a baseline the window is closed unscored.
Score(h) ==
    /\ pc[h] = "score"
    /\ \E s \in Severities \cup {"unscored"} :
        /\ rep' = [rep EXCEPT ![h].sev = s]
        /\ pc' = [pc EXCEPT ![h] = IF s = "unscored" THEN "close" ELSE "report"]
    /\ UNCHANGED <<ev, win, inbox, mon, store, reports, gate, output, past, faults, admin>>

Stored(id) == \E r \in reports : r.id = id
Row(h) == [id |-> win[h].id, sev |-> rep[h].sev, count |-> win[h].count]

\* Mutant: every delivery believes that it inserted the report.
SaveReport_Upsert(h) ==
    /\ pc[h] = "report"
    /\ reports' = {r \in reports : r.id # win[h].id} \cup {Row(h)}
    /\ rep' = [rep EXCEPT ![h].inserted = TRUE] /\ pc' = [pc EXCEPT ![h] = "close"]
    /\ UNCHANGED <<mon, store, gate, ev, win, inbox, output, past, faults, admin>>

\* reports.Save: ON CONFLICT (window_id) DO NOTHING.
SaveReport(h) ==
    /\ pc[h] = "report"
    /\ reports' = IF Stored(win[h].id) THEN reports ELSE reports \cup {Row(h)}
    /\ rep' = [rep EXCEPT ![h].inserted = ~Stored(win[h].id)] /\ pc' = [pc EXCEPT ![h] = "close"]
    /\ UNCHANGED <<mon, store, gate, ev, win, inbox, output, past, faults, admin>>

\* The insert commits and its answer is lost.
SaveReportUnacked(h) ==
    /\ pc[h] = "report" /\ ~Stored(win[h].id) /\ Fault
    /\ reports' = reports \cup {Row(h)} /\ cut' = cut \cup {win[h].id}
    /\ Nakked(h)
    /\ UNCHANGED <<mon, store, gate, output, folds, overlap, raced, admin>>

Ack(h) ==
    /\ pc[h] = "ack" /\ Acked(h)
    /\ UNCHANGED <<mon, store, reports, gate, output, past, faults, admin>>

-----------------------------------------------------------------------------
(* applyPolicy *)

\* DecideRetrain
Emits(h)    == rep[h].sev \in {"warning", "critical"}
Triggers(h) == rep[h].sev = "critical" /\ AutoRetrain /\ gate = "open"

\* LastTriggered and the decision, which is acted on later.
Policy(h) ==
    /\ pc[h] = "policy"
    /\ Goto(h, IF ~Emits(h) THEN "ack" ELSE IF Triggers(h) THEN "publish" ELSE "alert")
    /\ raced' = (raced \/ (Triggers(h) /\ \E g \in Handlers \ {h} : pc[g] \in {"publish", "mark"}))
    /\ UNCHANGED <<mon, store, reports, gate, output, folds, cut, overlap, faults, admin>>

\* PublishDrift, alone or followed by a retrain.
Publish(h) ==
    /\ pc[h] \in {"publish", "alert"}
    /\ pubs' = [pubs EXCEPT ![win[h].id] = @ + 1]
    /\ Goto(h, IF pc[h] = "publish" THEN "mark" ELSE "ack")
    /\ UNCHANGED <<mon, store, reports, gate, fires, past, faults, admin>>

\* Mutant: the retrain is triggered, the cooldown is not recorded.
MarkTriggered_Skip(h) ==
    /\ pc[h] = "mark" /\ Goto(h, "trigger")
    /\ UNCHANGED <<mon, store, reports, gate, output, past, faults, admin>>

\* The gate is set before the trigger, unconditionally.
MarkTriggered(h) ==
    /\ pc[h] = "mark" /\ gate' = "hot" /\ Goto(h, "trigger")
    /\ UNCHANGED <<mon, store, reports, output, past, faults, admin>>

TriggerRetrain(h) ==
    /\ pc[h] = "trigger" /\ fires' = fires + 1 /\ Goto(h, "ack")
    /\ UNCHANGED <<mon, store, reports, gate, pubs, past, faults, admin>>

CooldownElapses ==
    /\ gate = "hot" /\ gate' = "open" /\ fires' = 0
    /\ \A h \in Handlers : pc[h] \notin {"mark", "trigger"}     \* hours, not milliseconds
    /\ UNCHANGED <<mon, store, reports, pc, ev, win, rep, inbox, pubs, past, faults, admin>>

ObserveInference(h) ==
    \/ LoadMeta(h) \/ LoadReqs(h) \/ Fold(h) \/ Check(h) \/ Score(h)
    \/ SaveReport(h) \/ CloseRead(h) \/ CloseDel(h) \/ Ack(h)
    \/ Policy(h) \/ Publish(h) \/ MarkTriggered(h) \/ TriggerRetrain(h)

-----------------------------------------------------------------------------
(* Operators and crashes *)

Operator == admin < MaxAdmin /\ admin' = admin + 1
AdminOnly == <<store, gate, pc, ev, win, rep, inbox, output, past, faults>>

\* ConfigureMonitor of an existing monitor: paused, or by whether there is a baseline.
ConfigureMonitor ==
    /\ Operator /\ mon # "deleted" /\ mon' \in {"paused", "active"}
    /\ UNCHANGED <<AdminOnly, reports>>

\* ResetBaseline, by hand or from a promotion: WARMING_UP from every state, PAUSED too.
ResetBaseline ==
    /\ Operator /\ mon # "deleted" /\ mon' = "active"
    /\ UNCHANGED <<AdminOnly, reports>>

\* The id of a deleted monitor is never used again.
DeleteMonitor ==
    /\ Operator /\ mon # "deleted" /\ mon' = "deleted" /\ reports' \in {reports, {}}
    /\ UNCHANGED AdminOnly

\* The process dies: the handlers' events are redelivered, the gate is forgotten.
Crash ==
    /\ Fault /\ \E h \in Handlers : pc[h] # "idle"
    /\ pc' = [h \in Handlers |-> "idle"] /\ win' = [h \in Handlers |-> Empty]
    /\ rep' = [h \in Handlers |-> NoReport] /\ ev' = [h \in Handlers |-> NoEvent]
    /\ gate' = "open" /\ fires' = 0
    /\ CutOff(Handlers)
    /\ UNCHANGED <<mon, store, reports, inbox, pubs, folds, overlap, raced, admin>>

Next ==
    \/ \E h \in Handlers : \/ \E e \in Events : Deliver(h, e)
                           \/ ObserveInference(h)
                           \/ CallFails(h) \/ SaveReportUnacked(h)
    \/ Expire \/ CooldownElapses
    \/ ConfigureMonitor \/ ResetBaseline \/ DeleteMonitor
    \/ Crash

Spec == Init /\ [][Next]_vars

-----------------------------------------------------------------------------
(* Properties *)

\* While the monitor exists, a drift event is published at most once per window, and only
\* for a drifted report that was stored (Save's `inserted', applyPolicy after Save).  A
\* purging DeleteMonitor is the exception: a handler that passed its check before the
\* purge stores the report of its window, and publishes it, a second time.
AlarmIsEarned ==
    mon # "deleted" =>
        \A w \in WindowIDs :
            /\ pubs[w] <= 1
            /\ pubs[w] = 1 => \E r \in reports : r.id = w /\ r.sev \in {"warning", "critical"}

\* A stored report of drift that nobody is still working on was published, unless a
\* call or the process failed between the insert and the publish: races of handlers,
\* zombie windows and earlier failures alone lose no alarm.
AlarmLossExplained ==
    \A r \in reports :
        /\ r.sev \in {"warning", "critical"}
        /\ \A h \in Handlers : ~(win[h].id = r.id /\ rep[h].inserted)
        => pubs[r.id] > 0 \/ r.id \in cut

\* As long as no window was written or deleted under another handler's eyes, its
\* sample_count is the number of its request ids, so LoadOrOpen never finds it torn,
\* and no event counts twice in a report: crashes, failed calls, redeliveries, late
\* closes and expiry alone do no harm.  (Overlapping handlers do: the hash and the set
\* are read apart, and a Save overwrites the count but adds to the set.)
WindowIsExact ==
    ~overlap => /\ meta.count = Cardinality(reqs)
                /\ \A r \in reports : MinSamples <= r.count /\ r.count <= Cardinality(folds[r.id])

\* One retrain per cooldown: a second one takes two handlers that both read the gate
\* before either marked it (LastTriggered and MarkTriggered are apart in applyPolicy).
OneRetrainPerCooldown == ~raced => fires <= 1
=============================================================================
