------------------------- MODULE ModelMonitor_proofs -------------------------
(***************************************************************************)
(* ModelMonitor, for every number of handlers, events, deliveries, faults   *)
(* and operator calls and every window shape: alarms are earned and lost    *)
(* only to failures, windows are exact while nobody overlaps, and a         *)
(* cooldown admits one retrain.  TypeInv, PlaceInv, CountInv and IdInv      *)
(* carry the others: a position says what the handler has in hand, and a    *)
(* window id is handed out at most once per delivery, so the ids suffice.   *)
(***************************************************************************)
EXTENDS ModelMonitor, FiniteSetTheorems, TLAPS

-----------------------------------------------------------------------------
(* The inductive invariants *)

Drifted == {"warning", "critical"}
PCs == {"idle", "load", "members", "fold", "check", "score", "report", "close", "closing",
        "policy", "publish", "alert", "mark", "trigger", "ack"}
Windows == [id : Nat, count : Nat, reqs : SUBSET Events]
Rows    == [id : Nat, sev : Severities, count : Nat]
Reports == [sev : Severities \cup {"unscored"}, inserted : BOOLEAN]

TypeInv ==
    /\ mon \in {"active", "paused", "deleted"}
    /\ meta \in [id : Nat, count : Nat] /\ reqs \in SUBSET Events /\ opened \in Nat
    /\ reports \in SUBSET Rows /\ gate \in {"open", "hot"}
    /\ pc \in [Handlers -> PCs] /\ ev \in [Handlers -> Events \cup {NoEvent}]
    /\ win \in [Handlers -> Windows]
    /\ rep \in [Handlers -> Reports]
    /\ left \in [Events -> 0..MaxDeliver] /\ pending \in SUBSET Events
    /\ pubs \in [WindowIDs -> Nat] /\ fires \in Nat
    /\ folds \in [WindowIDs -> SUBSET Events] /\ cut \in SUBSET Nat
    /\ overlap \in BOOLEAN /\ raced \in BOOLEAN
    /\ faults \in Nat /\ admin \in Nat

\* What a handler's position says about its locals: an event while it works, a report only
\* once it is scored, a drifted one of its own where it publishes.
Before == {"idle", "load", "members", "fold", "check", "ack"}
Placed(h) ==
    /\ pc[h] # "idle" => ev[h] \in Events
    /\ pc[h] \in Before \cup {"score"} => rep[h] = NoReport
    /\ pc[h] = "report" => ~rep[h].inserted /\ rep[h].sev # "unscored"
    /\ rep[h].inserted => rep[h].sev # "unscored"
    /\ pc[h] \in {"policy", "publish", "alert", "mark", "trigger"} => rep[h].inserted
    /\ pc[h] \in {"publish", "alert", "mark", "trigger"} => rep[h].sev \in Drifted
PlaceInv == \A h \in Handlers : Placed(h)

\* The deliveries still to come, one by one, and the handlers that may yet open a window.
Tokens  == {t \in Events \X (1..MaxDeliver) : t[2] <= left[t[1]]}
Loading == {h \in Handlers : pc[h] = "load"}

\* Each window id handed out was paid for by a delivery.
CountInv ==
    /\ IsFiniteSet(Loading)
    /\ opened + Cardinality(Loading) + Cardinality(Tokens) <= Cardinality(Events) * MaxDeliver

\* Every window id in sight was handed out, and whoever works on a window has one.
Numbered(h) ==
    /\ win[h].id <= opened
    /\ pc[h] \notin {"idle", "load", "ack"} => win[h].id > 0
IdInv ==
    /\ meta.id <= opened /\ (meta # NoWindow => meta.id > 0)
    /\ \A r \in reports : r.id \in 1..opened
    /\ \A h \in Handlers : Numbered(h)

\* While the monitor exists: a report per window, whose sole inserter has not published it
\* until it is past the publish, and a publication only of a stored report of drift.
OwnReport(h) == \E r \in reports : r.id = win[h].id /\ r.sev = rep[h].sev
EarnedInv ==
    mon # "deleted" =>
        /\ \A w \in WindowIDs :
            /\ pubs[w] <= 1
            /\ pubs[w] # 0 => \E r \in reports : r.id = w /\ r.sev \in Drifted
        /\ \A h \in Handlers : rep[h].inserted => OwnReport(h)
        /\ \A h \in Handlers : Owing(h) => pubs[win[h].id] = 0
        /\ \A g, h \in Handlers :
            rep[g].inserted /\ rep[h].inserted /\ win[g].id = win[h].id => g = h

\* A report of drift was published, or was cut off, or its inserter is on its way.
Bound(r, h) == Owing(h) /\ win[h].id = r.id /\ rep[h].sev = r.sev
LossInv ==
    \A r \in reports : r.sev \in Drifted =>
        pubs[r.id] > 0 \/ r.id \in cut \/ \E h \in Handlers : Bound(r, h)

\* What a handler between its read and its write has in hand.
ReadsStored(h) == win[h].id = meta.id /\ win[h].count = meta.count
Fresh(h)       == meta = NoWindow /\ win[h].count = 0 /\ win[h].reqs = {}

\* While nothing was written under a reader's eyes: the stored window is one of folded
\* events, a reader's copy is the stored window or a fresh one, and no copy counts more
\* samples than were folded into its window.
Enough ==
    /\ \A h \in Handlers : pc[h] \in {"score", "report"} => MinSamples <= win[h].count
    /\ \A r \in reports : MinSamples <= r.count
Counted(h) ==
    /\ pc[h] = "members" => meta # NoWindow /\ ReadsStored(h)
    /\ pc[h] = "fold" => (meta # NoWindow /\ ReadsStored(h) /\ win[h].reqs = reqs) \/ Fresh(h)
    /\ pc[h] \in {"check", "score", "report"} => win[h].count <= Cardinality(folds[win[h].id])
Exact ==
    /\ meta.count = Cardinality(reqs)
    /\ meta # NoWindow => reqs \subseteq folds[meta.id]
    /\ \A h \in Handlers : Counted(h)
    /\ \A r \in reports : r.count <= Cardinality(folds[r.id])
ExactInv == Enough /\ (~overlap => Exact)

\* While no two handlers passed the gate together: at most one is between the gate and the
\* trigger, only an open gate lets it be before the mark, and it has not fired yet.
Passed(h) == pc[h] \in {"publish", "mark", "trigger"}
RetrainInv ==
    ~raced =>
        /\ \A g, h \in Handlers : Passed(g) /\ Passed(h) => g = h
        /\ \A h \in Handlers : Passed(h) => fires = 0 /\ (pc[h] = "trigger" <=> gate = "hot")
        /\ gate = "open" => fires = 0
        /\ fires <= 1

-----------------------------------------------------------------------------
(* Types and places *)

LEMMA Records ==
    /\ NoReport \in Reports /\ ~NoReport.inserted /\ NoReport.sev = "ok"
    /\ Empty \in Windows /\ NoWindow \in [id : Nat, count : Nat]
    /\ Empty.id = 0 /\ Empty.count = 0 /\ Empty.reqs = {} /\ NoWindow.id = 0 /\ NoWindow.count = 0
  BY DEF NoReport, Reports, Severities, Empty, Windows, NoWindow

LEMMA AddTypes ==
    ASSUME NEW w \in Windows, NEW e \in Events
    PROVE  Add(w, e) \in Windows /\ Add(w, e).id = w.id
<1>1. CASE e \in w.reqs
  BY <1>1 DEF Add
<1>2. CASE e \notin w.reqs
  <2>1. Add(w, e) = [w EXCEPT !.count = @ + 1, !.reqs = @ \cup {e}]
    BY <1>2 DEF Add
  <2> DEFINE v == [w EXCEPT !.count = @ + 1]
  <2>2. v \in Windows /\ v.id = w.id /\ v.reqs = w.reqs
    BY DEF Windows
  <2>3. Add(w, e) = [v EXCEPT !.reqs = w.reqs \cup {e}]
    BY <2>1, <2>2 DEF Windows
  <2>4. w.reqs \cup {e} \in SUBSET Events
    BY DEF Windows
  <2> HIDE DEF v
  <2> QED
    BY <2>2, <2>3, <2>4 DEF Windows
<1> QED
  BY <1>1, <1>2

LEMMA CutOffTypes ==
    ASSUME NEW H \in SUBSET Handlers, CutOff(H), cut \in SUBSET Nat, \A g \in Handlers : win[g].id \in Nat
    PROVE  cut' \in SUBSET Nat
  BY DEF CutOff

LEMMA TypeInit == Init => TypeInv /\ PlaceInv
<1> SUFFICES ASSUME Init
             PROVE  TypeInv /\ PlaceInv
  OBVIOUS
<1>3. TypeInv
  <2>1. pc \in [Handlers -> PCs] /\ ev \in [Handlers -> Events \cup {NoEvent}]
    BY DEF Init, PCs
  <2>2. win \in [Handlers -> Windows] /\ rep \in [Handlers -> Reports]
    BY Records DEF Init
  <2>3. left \in [Events -> 0..MaxDeliver] /\ pubs \in [WindowIDs -> Nat] /\ folds \in [WindowIDs -> SUBSET Events]
    BY BoundsAssumption DEF Init
  <2> QED
    BY <2>1, <2>2, <2>3, Records DEF Init, TypeInv
<1>4. PlaceInv
  BY Records DEF Init, PlaceInv, Placed, Before
<1> QED
  BY <1>3, <1>4

LEMMA TypeStep == TypeInv /\ PlaceInv /\ [Next]_vars => TypeInv'
<1> SUFFICES ASSUME TypeInv, PlaceInv, [Next]_vars
             PROVE  TypeInv'
  OBVIOUS
<1> USE Records, BoundsAssumption DEF TypeInv, PCs
<1>1. ASSUME NEW h \in Handlers, NEW e \in Events, Deliver(h, e)
      PROVE  TypeInv'
  BY <1>1 DEF Deliver, store, inbox, output, past
<1>2. ASSUME NEW h \in Handlers, ObserveInference(h)
      PROVE  TypeInv'
  <2> USE DEF Goto, Acked, Nakked, Leaves, store, inbox, output, past
  <2>1. CASE LoadMeta(h)
    <3>1. [id |-> opened + 1, count |-> 0, reqs |-> {}] \in Windows
      BY DEF Windows
    <3>2. [id |-> meta.id, count |-> meta.count, reqs |-> {}] \in Windows
      BY DEF Windows
    <3>3. CASE meta = NoWindow
      <4>1. /\ opened' = opened + 1 /\ pc' = [pc EXCEPT ![h] = "fold"]
            /\ win' = [win EXCEPT ![h] = [id |-> opened + 1, count |-> 0, reqs |-> {}]]
        BY <2>1, <3>3 DEF LoadMeta
      <4>2. opened' \in Nat /\ pc' \in [Handlers -> PCs] /\ win' \in [Handlers -> Windows]
        BY <3>1, <4>1
      <4> QED
        BY <2>1, <4>2 DEF LoadMeta
    <3>4. CASE meta # NoWindow
      BY <2>1, <3>2, <3>4, ZenonT(40) DEF LoadMeta
    <3> QED
      BY <3>3, <3>4
  <2>2. CASE LoadReqs(h)
    <3>1. [win[h] EXCEPT !.reqs = reqs] \in Windows
      BY DEF Windows
    <3>2. [win EXCEPT ![h].reqs = reqs] \in [Handlers -> Windows]
      BY <3>1
    <3> QED
      BY <2>2, <3>2 DEF LoadReqs
  <2>3. CASE Fold(h)
    <3> DEFINE w == Add(win[h], ev[h])
    <3>1. ev[h] \in Events
      BY <2>3 DEF Fold, PlaceInv, Placed
    <3>2. w \in Windows
      BY <3>1, AddTypes
    <3>3. /\ meta' = [id |-> w.id, count |-> w.count] /\ reqs' = reqs \cup w.reqs
          /\ win' = [win EXCEPT ![h] = [w EXCEPT !.reqs = {}]]
          /\ folds' = [folds EXCEPT ![w.id] = @ \cup {ev[h]}]
          /\ pc' = [pc EXCEPT ![h] = "check"]
      BY <2>3 DEF Fold, SaveWindow
    <3> HIDE DEF w
    <3>4. overlap' \in BOOLEAN
      BY <2>3 DEF Fold
    <3>5. [w EXCEPT !.reqs = {}] \in Windows /\ meta' \in [id : Nat, count : Nat] /\ reqs' \in SUBSET Events
      BY <3>2, <3>3 DEF Windows
    <3>6. folds' \in [WindowIDs -> SUBSET Events]
      BY <3>1, <3>3
    <3>7. win' \in [Handlers -> Windows] /\ pc' \in [Handlers -> PCs]
      BY <3>3, <3>5
    <3> QED
      BY <2>3, <3>4, <3>5, <3>6, <3>7 DEF Fold
  <2>4. CASE Check(h)
    BY <2>4 DEF Check
  <2>5. CASE Score(h)
    <3>1. PICK s \in Severities \cup {"unscored"} :
            /\ rep' = [rep EXCEPT ![h].sev = s]
            /\ pc' = [pc EXCEPT ![h] = IF s = "unscored" THEN "close" ELSE "report"]
      BY <2>5 DEF Score
    <3>2. [rep[h] EXCEPT !.sev = s] \in Reports
      BY DEF Reports
    <3>3. rep' \in [Handlers -> Reports]
      BY <3>1, <3>2
    <3> QED
      BY <2>5, <3>1, <3>3 DEF Score
  <2>6. CASE SaveReport(h)
    <3>1. Row(h) \in Rows
      BY <2>6 DEF SaveReport, Row, PlaceInv, Placed, Rows, Windows, Reports
    <3>2. [rep[h] EXCEPT !.inserted = ~Stored(win[h].id)] \in Reports
      BY DEF Reports
    <3>3. rep' \in [Handlers -> Reports]
      BY <2>6, <3>2 DEF SaveReport
    <3> QED
      BY <2>6, <3>1, <3>3 DEF SaveReport
  <2>7. CASE CloseRead(h)
    BY <2>7 DEF CloseRead, AfterClose
  <2>8. CASE CloseDel(h)
    <3>1. overlap' \in BOOLEAN
      BY <2>8 DEF CloseDel
    <3> QED
      BY <2>8, <3>1 DEF CloseDel, AfterClose
  <2>9. CASE Ack(h)
    BY <2>9 DEF Ack
  <2>10. CASE Policy(h)
    <3>1. raced' \in BOOLEAN
      BY <2>10 DEF Policy
    <3> QED
      BY <2>10, <3>1 DEF Policy
  <2>11. CASE Publish(h)
    <3>1. pubs' = [pubs EXCEPT ![win[h].id] = @ + 1]
      BY <2>11 DEF Publish
    <3>2. CASE win[h].id \in WindowIDs
      <4>1. pubs[win[h].id] + 1 \in Nat
        BY <3>2
      <4>2. pubs' \in [WindowIDs -> Nat]
        BY <3>1, <4>1
      <4> QED
        BY <2>11, <4>2 DEF Publish
    <3>3. CASE win[h].id \notin WindowIDs
      <4>1. pubs' \in [WindowIDs -> Nat]
        BY <3>1, <3>3
      <4> QED
        BY <2>11, <4>1 DEF Publish
    <3> QED
      BY <3>2, <3>3
  <2>12. CASE MarkTriggered(h)
    BY <2>12 DEF MarkTriggered
  <2>13. CASE TriggerRetrain(h)
    BY <2>13 DEF TriggerRetrain
  <2> QED
    BY <1>2, <2>1, <2>2, <2>3, <2>4, <2>5, <2>6, <2>7, <2>8, <2>9, <2>10, <2>11, <2>12, <2>13
       DEF ObserveInference
<1>3. ASSUME NEW h \in Handlers, CallFails(h)
      PROVE  TypeInv'
  <2>1. \A g \in Handlers : win[g].id \in Nat
    BY DEF Windows
  <2>2. cut' \in SUBSET Nat
    BY <1>3, <2>1, CutOffTypes DEF CallFails
  <2> QED
    BY <1>3, <2>2 DEF CallFails, Fault, Acked, Nakked, Leaves, store, inbox, output
<1>4. ASSUME NEW h \in Handlers, SaveReportUnacked(h)
      PROVE  TypeInv'
  <2>1. Row(h) \in Rows /\ win[h].id \in Nat
    BY <1>4 DEF SaveReportUnacked, Row, PlaceInv, Placed, Rows, Windows, Reports
  <2>2. cut' \in SUBSET Nat /\ reports' \in SUBSET Rows
    BY <1>4, <2>1 DEF SaveReportUnacked
  <2> QED
    BY <1>4, <2>2 DEF SaveReportUnacked, Fault, Nakked, Leaves, store, inbox, output
<1>5. CASE Expire
  BY <1>5 DEF Expire, inbox, output, past
<1>6. CASE CooldownElapses
  BY <1>6 DEF CooldownElapses, store, inbox, past
<1>7. CASE ConfigureMonitor \/ ResetBaseline
  <2>1. mon' \in {"active", "paused", "deleted"} /\ admin' \in Nat
    BY <1>7 DEF ConfigureMonitor, ResetBaseline, Operator
  <2>2. UNCHANGED <<AdminOnly, reports>>
    BY <1>7 DEF ConfigureMonitor, ResetBaseline
  <2> QED
    BY <2>1, <2>2 DEF AdminOnly, store, inbox, output, past
<1>8. CASE DeleteMonitor
  BY <1>8 DEF DeleteMonitor, Operator, AdminOnly, store, inbox, output, past
<1>9. CASE Crash
  <2>1. \A g \in Handlers : win[g].id \in Nat
    BY DEF Windows
  <2>2. cut' \in SUBSET Nat
    BY <1>9, <2>1, CutOffTypes DEF Crash
  <2> QED
    BY <1>9, <2>2 DEF Crash, Fault, store, inbox
<1>10. CASE UNCHANGED vars
  BY <1>10 DEF vars, store, inbox, output, past
<1> QED
  BY <1>1, <1>2, <1>3, <1>4, <1>5, <1>6, <1>7, <1>8, <1>9, <1>10 DEF Next


\* A handler's step is its own: the locals of the others stay.
HandlerStep(h) ==
    \/ \E e \in Events : Deliver(h, e)
    \/ ObserveInference(h)
    \/ CallFails(h) \/ SaveReportUnacked(h)

LEMMA Others ==
    ASSUME TypeInv, NEW h \in Handlers, HandlerStep(h), NEW g \in Handlers, g # h
    PROVE  pc'[g] = pc[g] /\ ev'[g] = ev[g] /\ win'[g] = win[g] /\ rep'[g] = rep[g]
<1> USE DEF TypeInv
<1> USE DEF Goto, Acked, Nakked, Leaves
<1>1. ASSUME NEW e \in Events, Deliver(h, e)
      PROVE  pc'[g] = pc[g] /\ ev'[g] = ev[g] /\ win'[g] = win[g] /\ rep'[g] = rep[g]
  BY <1>1 DEF Deliver
<1>2. CASE LoadMeta(h)
  BY <1>2 DEF LoadMeta
<1>3. CASE LoadReqs(h)
  BY <1>3 DEF LoadReqs
<1>4. CASE Fold(h)
  BY <1>4 DEF Fold
<1>5. CASE Check(h)
  BY <1>5 DEF Check
<1>6. CASE Score(h)
  BY <1>6 DEF Score
<1>7. CASE SaveReport(h)
  BY <1>7 DEF SaveReport
<1>8. CASE CloseRead(h)
  BY <1>8 DEF CloseRead
<1>9. CASE CloseDel(h)
  BY <1>9 DEF CloseDel
<1>10. CASE Ack(h)
  BY <1>10 DEF Ack
<1>11. CASE Policy(h)
  BY <1>11 DEF Policy
<1>12. CASE Publish(h)
  BY <1>12 DEF Publish
<1>13. CASE MarkTriggered(h)
  BY <1>13 DEF MarkTriggered
<1>14. CASE TriggerRetrain(h)
  BY <1>14 DEF TriggerRetrain
<1>15. CASE CallFails(h)
  BY <1>15 DEF CallFails
<1>16. CASE SaveReportUnacked(h)
  BY <1>16 DEF SaveReportUnacked
<1> QED
  BY <1>1, <1>2, <1>3, <1>4, <1>5, <1>6, <1>7, <1>8, <1>9, <1>10, <1>11, <1>12, <1>13, <1>14,
     <1>15, <1>16 DEF HandlerStep, ObserveInference

LEMMA PlaceStep == TypeInv /\ PlaceInv /\ [Next]_vars => PlaceInv'
<1> SUFFICES ASSUME TypeInv, PlaceInv, [Next]_vars
             PROVE  PlaceInv'
  OBVIOUS
<1>1. ASSUME NEW h \in Handlers, HandlerStep(h)
      PROVE  PlaceInv'
  <2> SUFFICES Placed(h)'
    BY <1>1, Others DEF PlaceInv, Placed
  <2> USE Records DEF Placed, Before, Drifted, Goto, Acked, Nakked, Leaves
  <2>0. Placed(h) /\ pc[h] \in PCs /\ rep[h] \in Reports /\ ev[h] \in Events \cup {NoEvent}
    BY DEF TypeInv, PlaceInv
  <2> USE DEF TypeInv, PCs
  <2>1. ASSUME NEW e \in Events, Deliver(h, e)
        PROVE  Placed(h)'
    BY <2>0, <2>1 DEF Deliver
  <2>2. CASE LoadMeta(h)
    BY <2>0, <2>2 DEF LoadMeta
  <2>3. CASE LoadReqs(h)
    BY <2>0, <2>3 DEF LoadReqs
  <2>4. CASE Fold(h)
    BY <2>0, <2>4 DEF Fold
  <2>5. CASE Check(h)
    BY <2>0, <2>5 DEF Check
  <2>6. CASE Score(h)
    BY <2>0, <2>6 DEF Score, Severities, Reports
  <2>7. CASE SaveReport(h)
    BY <2>0, <2>7 DEF SaveReport, Reports
  <2>8. CASE CloseRead(h)
    BY <2>0, <2>8 DEF CloseRead, AfterClose
  <2>9. CASE CloseDel(h)
    BY <2>0, <2>9 DEF CloseDel, AfterClose
  <2>10. CASE Ack(h)
    BY <2>0, <2>10 DEF Ack
  <2>11. CASE Policy(h)
    BY <2>0, <2>11 DEF Policy, Emits
  <2>12. CASE Publish(h)
    BY <2>0, <2>12 DEF Publish
  <2>13. CASE MarkTriggered(h)
    BY <2>0, <2>13 DEF MarkTriggered
  <2>14. CASE TriggerRetrain(h)
    BY <2>0, <2>14 DEF TriggerRetrain
  <2>15. CASE CallFails(h)
    BY <2>0, <2>15 DEF CallFails
  <2>16. CASE SaveReportUnacked(h)
    BY <2>0, <2>16 DEF SaveReportUnacked
  <2> QED
    BY <1>1, <2>1, <2>2, <2>3, <2>4, <2>5, <2>6, <2>7, <2>8, <2>9, <2>10, <2>11, <2>12, <2>13,
       <2>14, <2>15, <2>16 DEF HandlerStep, ObserveInference
<1>2. CASE Expire \/ CooldownElapses \/ ConfigureMonitor \/ ResetBaseline \/ DeleteMonitor \/ UNCHANGED vars
  <2>1. UNCHANGED <<pc, ev, rep>>
    BY <1>2 DEF Expire, CooldownElapses, ConfigureMonitor, ResetBaseline, DeleteMonitor, AdminOnly, vars
  <2> QED
    BY <2>1 DEF PlaceInv, Placed
<1>3. CASE Crash
  BY <1>3, Records DEF Crash, PlaceInv, Placed, Before
<1> QED
  BY <1>1, <1>2, <1>3 DEF Next, HandlerStep

\* Type correctness of the monitor, its handlers and its stores.
THEOREM TypeCorrect == Spec => []TypeInv
  BY TypeInit, TypeStep, PlaceStep, PTL DEF Spec

-----------------------------------------------------------------------------
(* The cooldown *)

\* The steps of a handler before the decision to retrain, and after it was given up.
LEMMA QuietStep ==
    ASSUME TypeInv, NEW h \in Handlers, HandlerStep(h),
           ~(Policy(h) \/ Publish(h) \/ MarkTriggered(h) \/ TriggerRetrain(h))
    PROVE  gate' = gate /\ fires' = fires /\ raced' = raced /\ ~Passed(h)'
<1> USE DEF Passed, Goto, Acked, Nakked, Leaves, output, past, TypeInv, AfterClose
<1>1. ASSUME NEW e \in Events, Deliver(h, e)
      PROVE  gate' = gate /\ fires' = fires /\ raced' = raced /\ ~Passed(h)'
  BY <1>1 DEF Deliver
<1>2. CASE LoadMeta(h)
  BY <1>2 DEF LoadMeta
<1>3. CASE LoadReqs(h)
  BY <1>3 DEF LoadReqs
<1>4. CASE Fold(h)
  BY <1>4 DEF Fold
<1>5. CASE Check(h)
  BY <1>5 DEF Check
<1>6. CASE Score(h)
  BY <1>6 DEF Score
<1>7. CASE SaveReport(h)
  BY <1>7 DEF SaveReport
<1>8. CASE CloseRead(h)
  BY <1>8 DEF CloseRead
<1>9. CASE CloseDel(h)
  BY <1>9 DEF CloseDel
<1>10. CASE Ack(h)
  BY <1>10 DEF Ack
<1>15. CASE CallFails(h)
  BY <1>15 DEF CallFails
<1>16. CASE SaveReportUnacked(h)
  BY <1>16 DEF SaveReportUnacked
<1> QED
  BY <1>1, <1>2, <1>3, <1>4, <1>5, <1>6, <1>7, <1>8, <1>9, <1>10, <1>15, <1>16
     DEF HandlerStep, ObserveInference

LEMMA RetrainStep == TypeInv /\ RetrainInv /\ [Next]_vars => RetrainInv'
<1> SUFFICES ASSUME TypeInv, RetrainInv, [Next]_vars, ~raced'
             PROVE  /\ \A g, k \in Handlers : Passed(g)' /\ Passed(k)' => g = k
                    /\ \A k \in Handlers : Passed(k)' => fires' = 0 /\ (pc'[k] = "trigger" <=> gate' = "hot")
                    /\ gate' = "open" => fires' = 0
                    /\ fires' <= 1
  BY DEF RetrainInv
<1>1. ASSUME NEW h \in Handlers, HandlerStep(h)
      PROVE  RetrainInv'
  <2>0. /\ \A g \in Handlers \ {h} : pc'[g] = pc[g]
        /\ \A g \in Handlers \ {h} : Passed(g)' <=> Passed(g)
    BY <1>1, Others DEF Passed
  <2>1. CASE ~(Policy(h) \/ Publish(h) \/ MarkTriggered(h) \/ TriggerRetrain(h))
    <3>1. gate' = gate /\ fires' = fires /\ raced' = raced /\ ~Passed(h)'
      BY <1>1, <2>1, QuietStep
    <3> QED
      BY <2>0, <3>1 DEF RetrainInv
  <2>2. CASE Policy(h)
    <3> DEFINE joins == Triggers(h) /\ \E g \in Handlers \ {h} : pc[g] \in {"publish", "mark"}
    <3>1. gate' = gate /\ fires' = fires /\ raced' = (raced \/ joins)
      BY <2>2 DEF Policy, output
    <3>5. ~raced /\ ~joins
      <4> HIDE DEF joins
      <4> QED
        BY <3>1 DEF TypeInv
    <3>2. pc'[h] \in {"ack", "alert"} \/ (Triggers(h) /\ pc'[h] = "publish")
      BY <2>2 DEF Policy, Goto, TypeInv
    <3>3. CASE pc'[h] \in {"ack", "alert"}
      <4>1. ~Passed(h)'
        BY <3>3 DEF Passed
      <4> QED
        BY <2>0, <3>1, <3>5, <4>1 DEF RetrainInv
    <3>4. CASE Triggers(h) /\ pc'[h] = "publish"
      <4>1. ~raced /\ gate = "open" /\ \A g \in Handlers \ {h} : pc[g] \notin {"publish", "mark"}
        BY <3>4, <3>5 DEF Triggers
      <4>2. \A g \in Handlers \ {h} : ~Passed(g)
        BY <4>1 DEF RetrainInv, Passed
      <4> QED
        BY <2>0, <3>1, <3>4, <4>1, <4>2 DEF RetrainInv
    <3> QED
      BY <3>2, <3>3, <3>4
  <2>3. CASE Publish(h)
    <3>1. gate' = gate /\ fires' = fires /\ raced' = raced
      BY <2>3 DEF Publish, past
    <3>2. (pc[h] = "publish" /\ pc'[h] = "mark") \/ pc'[h] = "ack"
      BY <2>3 DEF Publish, Goto, TypeInv
    <3> QED
      BY <2>0, <3>1, <3>2 DEF RetrainInv, Passed
  <2>4. CASE MarkTriggered(h)
    <3>1. gate' = "hot" /\ fires' = fires /\ raced' = raced
      BY <2>4 DEF MarkTriggered, past, output
    <3>2. pc[h] = "mark" /\ pc'[h] = "trigger"
      BY <2>4 DEF MarkTriggered, Goto, TypeInv
    <3> QED
      BY <2>0, <3>1, <3>2 DEF RetrainInv, Passed
  <2>5. CASE TriggerRetrain(h)
    <3>1. gate' = gate /\ fires' = fires + 1 /\ raced' = raced
      BY <2>5 DEF TriggerRetrain, past
    <3>2. pc[h] = "trigger" /\ pc'[h] = "ack"
      BY <2>5 DEF TriggerRetrain, Goto, TypeInv
    <3> QED
      BY <2>0, <3>1, <3>2 DEF RetrainInv, Passed
  <2> QED
    BY <2>1, <2>2, <2>3, <2>4, <2>5
<1>2. CASE Expire \/ ConfigureMonitor \/ ResetBaseline \/ DeleteMonitor \/ UNCHANGED vars
  <2>1. UNCHANGED <<pc, gate, fires, raced>>
    BY <1>2 DEF Expire, ConfigureMonitor, ResetBaseline, DeleteMonitor, AdminOnly, vars, output, past
  <2> QED
    BY <2>1 DEF RetrainInv, Passed
<1>3. CASE CooldownElapses
  <2>1. UNCHANGED <<pc, raced>> /\ gate = "hot" /\ gate' = "open" /\ fires' = 0
    BY <1>3 DEF CooldownElapses, past
  <2>2. \A h \in Handlers : ~Passed(h)
    BY <1>3, <2>1 DEF CooldownElapses, RetrainInv, Passed
  <2> QED
    BY <2>1, <2>2 DEF Passed
<1>4. CASE Crash
  BY <1>4 DEF Crash, Passed
<1> QED
  BY <1>1, <1>2, <1>3, <1>4 DEF Next, HandlerStep, RetrainInv

\* One retrain per cooldown, whatever the number of handlers, windows, crashes and failed
\* calls, as long as no two handlers read the gate before either marked it (applyPolicy).
THEOREM CooldownAdmitsOne == Spec => []OneRetrainPerCooldown
<1>1. Init => RetrainInv
  BY DEF Init, RetrainInv, Passed
<1>2. RetrainInv => OneRetrainPerCooldown
  BY DEF RetrainInv, OneRetrainPerCooldown
<1> QED
  BY <1>1, <1>2, TypeInit, TypeStep, PlaceStep, RetrainStep, PTL DEF Spec

-----------------------------------------------------------------------------
(* The window ids *)

LEMMA TokensFinite ==
    /\ IsFiniteSet(Events \X (1..MaxDeliver))
    /\ Cardinality(Events \X (1..MaxDeliver)) = Cardinality(Events) * MaxDeliver
    /\ Cardinality(Events) * MaxDeliver \in Nat
    /\ IsFiniteSet(Tokens) /\ Cardinality(Tokens) \in Nat
<1>1. IsFiniteSet(1..MaxDeliver) /\ Cardinality(1..MaxDeliver) = MaxDeliver
  BY FS_Interval, BoundsAssumption
<1>2. /\ IsFiniteSet(Events \X (1..MaxDeliver))
      /\ Cardinality(Events \X (1..MaxDeliver)) = Cardinality(Events) * Cardinality(1..MaxDeliver)
  BY <1>1, EventsAssumption, FS_Product
<1>3. Cardinality(Events \X (1..MaxDeliver)) \in Nat
  BY <1>2, FS_CardinalityType
<1>4. Tokens \in SUBSET (Events \X (1..MaxDeliver))
  BY DEF Tokens
<1>5. IsFiniteSet(Tokens)
  BY <1>2, <1>4, FS_Subset
<1> QED
  BY <1>1, <1>2, <1>3, <1>5, FS_CardinalityType

LEMMA CountInit == Init => CountInv
<1> SUFFICES ASSUME Init
             PROVE  CountInv
  OBVIOUS
<1>1. Loading = {}
  BY DEF Init, Loading
<1>2. Tokens = Events \X (1..MaxDeliver)
  BY BoundsAssumption DEF Init, Tokens
<1> QED
  BY <1>1, <1>2, TokensFinite, FS_EmptySet DEF CountInv, Init

\* Only a delivery and a load touch what is counted.
LEMMA CountFrame ==
    ASSUME TypeInv, NEW h \in Handlers, HandlerStep(h), ~LoadMeta(h), \A e \in Events : ~Deliver(h, e)
    PROVE  opened' = opened /\ left' = left /\ pc'[h] # "load"
<1> USE DEF Goto, Acked, Nakked, Leaves, store, inbox, TypeInv, AfterClose
<1>3. CASE LoadReqs(h)
  BY <1>3 DEF LoadReqs
<1>4. CASE Fold(h)
  BY <1>4 DEF Fold
<1>5. CASE Check(h)
  BY <1>5 DEF Check
<1>6. CASE Score(h)
  BY <1>6 DEF Score
<1>7. CASE SaveReport(h)
  BY <1>7 DEF SaveReport
<1>8. CASE CloseRead(h)
  BY <1>8 DEF CloseRead
<1>9. CASE CloseDel(h)
  BY <1>9 DEF CloseDel
<1>10. CASE Ack(h)
  BY <1>10 DEF Ack
<1>11. CASE Policy(h)
  BY <1>11 DEF Policy
<1>12. CASE Publish(h)
  BY <1>12 DEF Publish
<1>13. CASE MarkTriggered(h)
  BY <1>13 DEF MarkTriggered
<1>14. CASE TriggerRetrain(h)
  BY <1>14 DEF TriggerRetrain
<1>15. CASE CallFails(h)
  BY <1>15 DEF CallFails
<1>16. CASE SaveReportUnacked(h)
  BY <1>16 DEF SaveReportUnacked
<1> QED
  BY <1>3, <1>4, <1>5, <1>6, <1>7, <1>8, <1>9, <1>10, <1>11, <1>12, <1>13, <1>14,
     <1>15, <1>16 DEF HandlerStep, ObserveInference

LEMMA CountStep == TypeInv /\ CountInv /\ [Next]_vars => CountInv'
<1> SUFFICES ASSUME TypeInv, CountInv, [Next]_vars
             PROVE  CountInv'
  OBVIOUS
<1> DEFINE N == Cardinality(Events) * MaxDeliver
<1>0. /\ N \in Nat /\ Cardinality(Loading) \in Nat /\ Cardinality(Tokens) \in Nat
      /\ IsFiniteSet(Loading) /\ IsFiniteSet(Tokens) /\ opened \in Nat
      /\ opened + Cardinality(Loading) + Cardinality(Tokens) <= N
  BY TokensFinite, FS_CardinalityType DEF CountInv, TypeInv
<1>00. CountInv' <=> (IsFiniteSet(Loading') /\ opened' + Cardinality(Loading') + Cardinality(Tokens') <= N)
  BY DEF CountInv
<1> HIDE DEF N
<1>a. ASSUME opened' = opened, left' = left, Loading' \in SUBSET Loading
      PROVE  CountInv'
  <2>1. Tokens' = Tokens
    BY <1>a DEF Tokens
  <2>2. IsFiniteSet(Loading') /\ Cardinality(Loading') <= Cardinality(Loading)
    BY <1>0, <1>a, FS_Subset
  <2>3. Cardinality(Loading') \in Nat
    BY <2>2, FS_CardinalityType
  <2> QED
    BY <1>0, <1>00, <1>a, <2>1, <2>2, <2>3
<1>1. ASSUME NEW h \in Handlers, NEW e \in Events, Deliver(h, e)
      PROVE  CountInv'
  <2> DEFINE t == <<e, left[e]>>
  <2>1. /\ pc[h] = "idle" /\ left[e] \in 1..MaxDeliver /\ left' = [left EXCEPT ![e] = @ - 1]
        /\ pc' = [pc EXCEPT ![h] = "load"] /\ opened' = opened
    BY <1>1, BoundsAssumption DEF Deliver, TypeInv, store
  <2>2. Loading' = Loading \cup {h} /\ h \notin Loading
    BY <2>1 DEF Loading, TypeInv
  <2>3. Tokens' = Tokens \ {t} /\ t \in Tokens
    <3>1. t \in Tokens
      BY <2>1 DEF Tokens
    <3>2. ASSUME NEW u \in Events \X (1..MaxDeliver)
          PROVE  u[2] <= left'[u[1]] <=> u[2] <= left[u[1]] /\ u # t
      <4>1. PICK f \in Events, n \in 1..MaxDeliver : u = <<f, n>>
        OBVIOUS
      <4>2. CASE f = e
        BY <2>1, <4>1, <4>2, BoundsAssumption DEF TypeInv
      <4>3. CASE f # e
        BY <2>1, <4>1, <4>3, BoundsAssumption DEF TypeInv
      <4> QED
        BY <4>2, <4>3
    <3> HIDE DEF t
    <3> QED
      BY <3>1, <3>2 DEF Tokens
  <2> HIDE DEF t
  <2>4. IsFiniteSet(Loading') /\ Cardinality(Loading') = Cardinality(Loading) + 1
    BY <1>0, <2>2, FS_AddElement
  <2>5. Cardinality(Tokens') = Cardinality(Tokens) - 1
    BY <1>0, <2>3, FS_RemoveElement
  <2> QED
    BY <1>0, <1>00, <2>1, <2>4, <2>5
<1>2. ASSUME NEW h \in Handlers, LoadMeta(h)
      PROVE  CountInv'
  <2>1. pc[h] = "load" /\ left' = left /\ opened' \in {opened, opened + 1}
    BY <1>2 DEF LoadMeta, inbox
  <2>2. Loading' = Loading \ {h} /\ h \in Loading
    BY <1>2, <2>1 DEF LoadMeta, Loading, TypeInv
  <2>3. Tokens' = Tokens
    BY <2>1 DEF Tokens
  <2>4. IsFiniteSet(Loading') /\ Cardinality(Loading') = Cardinality(Loading) - 1
    BY <1>0, <2>2, FS_RemoveElement
  <2> QED
    BY <1>0, <1>00, <2>1, <2>3, <2>4
<1>3. ASSUME NEW h \in Handlers, HandlerStep(h), ~LoadMeta(h), \A e \in Events : ~Deliver(h, e)
      PROVE  CountInv'
  <2>1. opened' = opened /\ left' = left /\ pc'[h] # "load"
    BY <1>3, CountFrame
  <2>2. \A g \in Handlers \ {h} : pc'[g] = pc[g]
    BY <1>3, Others
  <2> QED
    BY <2>1, <2>2, <1>a DEF Loading
<1>4. CASE Expire \/ CooldownElapses \/ ConfigureMonitor \/ ResetBaseline \/ DeleteMonitor \/ UNCHANGED vars
  <2>1. UNCHANGED <<pc, left, opened>>
    BY <1>4 DEF Expire, CooldownElapses, ConfigureMonitor, ResetBaseline, DeleteMonitor, AdminOnly,
                vars, store, inbox
  <2> QED
    BY <2>1, <1>a DEF Loading
<1>5. CASE Crash
  <2>1. opened' = opened /\ left' = left /\ Loading' = {}
    BY <1>5 DEF Crash, store, inbox, Loading
  <2> QED
    BY <2>1, <1>a
<1> QED
  BY <1>1, <1>2, <1>3, <1>4, <1>5 DEF Next, HandlerStep

\* The ids handed out are ids of the model: WindowIDs bounds nothing the code does.
LEMMA IdsSuffice ==
    ASSUME TypeInv, CountInv
    PROVE  1..opened \subseteq WindowIDs
<1>1. opened <= Cardinality(Events) * MaxDeliver
  <2>1. Cardinality(Loading) \in Nat
    BY FS_CardinalityType DEF CountInv
  <2> DEFINE N == Cardinality(Events) * MaxDeliver
  <2>2. N \in Nat /\ opened + Cardinality(Loading) + Cardinality(Tokens) <= N
    BY TokensFinite DEF CountInv
  <2> HIDE DEF N
  <2>3. opened <= N
    BY <2>1, <2>2, TokensFinite DEF TypeInv
  <2> QED
    BY <2>3 DEF N
<1> QED
  BY <1>1, TokensFinite DEF WindowIDs, TypeInv

LEMMA IdStep == TypeInv /\ PlaceInv /\ IdInv /\ [Next]_vars => IdInv'
<1> SUFFICES ASSUME TypeInv, PlaceInv, IdInv, [Next]_vars
             PROVE  IdInv'
  OBVIOUS
<1> DEFINE StoredIds == /\ meta.id <= opened /\ (meta # NoWindow => meta.id > 0)
                        /\ \A r \in reports : r.id \in 1..opened
<1>0. /\ opened \in Nat /\ meta.id \in Nat /\ \A r \in reports : r.id \in Nat
      /\ \A g \in Handlers : win[g].id \in Nat /\ win[g] \in Windows
  BY DEF TypeInv, Windows, Rows
<1>00. StoredIds /\ \A g \in Handlers : Numbered(g)
  BY DEF IdInv
<1>1. ASSUME NEW h \in Handlers, HandlerStep(h)
      PROVE  IdInv'
  <2>0. opened' = opened \/ (opened' = opened + 1 /\ LoadMeta(h))
    <3>1. CASE LoadMeta(h)
      BY <3>1 DEF LoadMeta
    <3>2. ASSUME NEW e \in Events, Deliver(h, e)
          PROVE  opened' = opened
      BY <3>2 DEF Deliver, store
    <3>3. CASE ~LoadMeta(h) /\ \A e \in Events : ~Deliver(h, e)
      BY <3>3, <1>1, CountFrame
    <3> QED
      BY <3>1, <3>2, <3>3
  <2>00. ASSUME NEW g \in Handlers, g # h
         PROVE  Numbered(g)'
    <3>1. pc'[g] = pc[g] /\ win'[g] = win[g]
      BY <1>1, <2>00, Others
    <3> QED
      BY <1>0, <1>00, <2>0, <3>1 DEF Numbered
  <2> SUFFICES StoredIds' /\ Numbered(h)'
    BY <2>00 DEF IdInv
  <2>000. win[h].id <= opened /\ (pc[h] \notin {"idle", "load", "ack"} => win[h].id > 0)
    BY <1>00 DEF Numbered
  <2> USE Records, <1>0, <1>00, <2>000 DEF Numbered, Goto, Acked, Nakked, Leaves, store, TypeInv
  <2>1. ASSUME NEW e \in Events, Deliver(h, e)
        PROVE  StoredIds' /\ Numbered(h)'
    BY <2>1 DEF Deliver
  <2>2. CASE LoadMeta(h)
    <3>1. CASE meta = NoWindow
      BY <2>2, <3>1 DEF LoadMeta
    <3>2. CASE meta # NoWindow
      BY <2>2, <3>2 DEF LoadMeta
    <3> QED
      BY <3>1, <3>2
  <2>3. CASE LoadReqs(h)
    <3>1. win'[h].id \in {0, win[h].id} /\ (pc'[h] = "idle" \/ win'[h].id = win[h].id)
      BY <2>3 DEF LoadReqs, Windows
    <3> QED
      BY <2>3, <3>1 DEF LoadReqs
  <2>4. CASE Fold(h)
    <3> DEFINE w == Add(win[h], ev[h])
    <3>1. w \in Windows /\ w.id = win[h].id
      BY <2>4, AddTypes DEF Fold, PlaceInv, Placed
    <3>2. /\ pc[h] = "fold" /\ meta' = [id |-> w.id, count |-> w.count]
          /\ win' = [win EXCEPT ![h] = [w EXCEPT !.reqs = {}]] /\ UNCHANGED <<reports, opened>>
      BY <2>4 DEF Fold, SaveWindow
    <3> HIDE DEF w
    <3>3. meta'.id = win[h].id /\ win'[h].id = win[h].id
      BY <3>1, <3>2 DEF Windows
    <3> QED
      BY <3>2, <3>3
  <2>5. CASE Check(h)
    BY <2>5 DEF Check
  <2>6. CASE Score(h)
    BY <2>6 DEF Score
  <2>7. CASE SaveReport(h)
    BY <2>7 DEF SaveReport, Row
  <2>8. CASE CloseRead(h)
    BY <2>8 DEF CloseRead, AfterClose
  <2>9. CASE CloseDel(h)
    BY <2>9 DEF CloseDel, AfterClose
  <2>10. CASE Ack(h)
    BY <2>10 DEF Ack
  <2>11. CASE Policy(h)
    BY <2>11 DEF Policy
  <2>12. CASE Publish(h)
    BY <2>12 DEF Publish
  <2>13. CASE MarkTriggered(h) \/ TriggerRetrain(h)
    BY <2>13 DEF MarkTriggered, TriggerRetrain
  <2>15. CASE CallFails(h)
    BY <2>15 DEF CallFails
  <2>16. CASE SaveReportUnacked(h)
    BY <2>16 DEF SaveReportUnacked, Row
  <2> QED
    BY <1>1, <2>1, <2>2, <2>3, <2>4, <2>5, <2>6, <2>7, <2>8, <2>9, <2>10, <2>11, <2>12, <2>13,
       <2>15, <2>16 DEF HandlerStep, ObserveInference
<1>2. CASE CooldownElapses \/ ConfigureMonitor \/ ResetBaseline \/ DeleteMonitor \/ UNCHANGED vars
  <2>1. UNCHANGED <<pc, win, meta, opened>> /\ reports' \in {reports, {}}
    BY <1>2 DEF CooldownElapses, ConfigureMonitor, ResetBaseline, DeleteMonitor, AdminOnly, vars, store
  <2> QED
    BY <2>1 DEF IdInv, Numbered
<1>3. CASE Expire
  BY <1>0, <1>3, Records DEF Expire, IdInv, Numbered
<1>4. CASE Crash
  BY <1>0, <1>4, Records DEF Crash, IdInv, Numbered, store
<1> QED
  BY <1>1, <1>2, <1>3, <1>4 DEF Next, HandlerStep

-----------------------------------------------------------------------------
(* Alarms are not lost *)

LEMMA LossStep ==
    TypeInv /\ PlaceInv /\ IdInv /\ CountInv /\ LossInv /\ [Next]_vars => LossInv'
<1> SUFFICES ASSUME TypeInv, PlaceInv, IdInv, CountInv, LossInv, [Next]_vars,
                    NEW r \in reports', r.sev \in Drifted
             PROVE  pubs'[r.id] > 0 \/ r.id \in cut' \/ \E h \in Handlers : Bound(r, h)'
  BY DEF LossInv
<1> DEFINE Told == pubs[r.id] > 0 \/ r.id \in cut \/ \E h \in Handlers : Bound(r, h)
<1>1. ASSUME NEW h \in Handlers, HandlerStep(h)
      PROVE  Told'
  <2>0. ASSUME NEW g \in Handlers, g # h, Bound(r, g)
        PROVE  Bound(r, g)'
    <3>1. pc'[g] = pc[g] /\ win'[g] = win[g] /\ rep'[g] = rep[g]
      BY <1>1, <2>0, Others
    <3> QED
      BY <2>0, <3>1 DEF Bound, Owing
  \* What is left to show: h itself stays bound, or the alarm is out, or it is cut off.
  <2>00. ASSUME UNCHANGED <<reports, pubs>>, cut \subseteq cut', Bound(r, h) => Bound(r, h)' \/ r.id \in cut'
         PROVE  Told'
    BY <2>0, <2>00 DEF LossInv
  <2> USE DEF Owing, Owes, Goto, Acked, Nakked, Leaves, output, past
  <2>1. ASSUME NEW e \in Events, Deliver(h, e)
        PROVE  Told'
    <3>1. UNCHANGED <<reports, pubs, cut>> /\ ~Bound(r, h)
      BY <2>1 DEF Deliver, Bound
    <3> QED
      BY <3>1, <2>00
  <2>2. CASE LoadMeta(h) \/ LoadReqs(h) \/ Fold(h) \/ Check(h) \/ Score(h) \/ Ack(h) \/ MarkTriggered(h) \/ TriggerRetrain(h)
    <3>1. UNCHANGED <<reports, pubs, cut>> /\ ~Bound(r, h)
      BY <2>2 DEF LoadMeta, LoadReqs, Fold, Check, Score, Ack, MarkTriggered, TriggerRetrain, Bound
    <3> QED
      BY <3>1, <2>00
  <2>7. CASE SaveReport(h)
    <3>1. pc[h] = "report" /\ UNCHANGED <<win, pubs, cut>> /\ ~Bound(r, h)
      BY <2>7 DEF SaveReport, Bound
    <3>2. CASE r \in reports
      BY <2>0, <3>1, <3>2 DEF LossInv
    <3>3. CASE r \notin reports
      <4>1. r = Row(h) /\ ~Stored(win[h].id)
        BY <2>7, <3>3 DEF SaveReport
      <4>2. pc'[h] = "close" /\ rep'[h].inserted /\ rep'[h].sev = rep[h].sev
        BY <2>7, <4>1 DEF SaveReport, TypeInv, Reports
      <4> QED
        BY <3>1, <4>1, <4>2 DEF Row, Bound
    <3> QED
      BY <3>2, <3>3
  <2>8. CASE CloseRead(h)
    <3>1. UNCHANGED <<reports, pubs, cut>> /\ (Bound(r, h) => Bound(r, h)')
      BY <2>8 DEF CloseRead, AfterClose, Bound, TypeInv
    <3> QED
      BY <3>1, <2>00
  <2>9. CASE CloseDel(h)
    <3>1. UNCHANGED <<reports, pubs, cut>> /\ (Bound(r, h) => Bound(r, h)')
      BY <2>9 DEF CloseDel, AfterClose, Bound, TypeInv
    <3> QED
      BY <3>1, <2>00
  <2>11. CASE Policy(h)
    <3>1. UNCHANGED <<reports, pubs, cut>> /\ (Bound(r, h) => Bound(r, h)')
      BY <2>11 DEF Policy, Emits, Bound, TypeInv, Drifted
    <3> QED
      BY <3>1, <2>00
  <2>12. CASE Publish(h)
    <3>1. pubs' = [pubs EXCEPT ![win[h].id] = @ + 1] /\ UNCHANGED <<reports, cut>> /\ pc[h] \in {"publish", "alert"}
      BY <2>12 DEF Publish
    <3>2. win[h].id \in WindowIDs /\ r.id \in WindowIDs
      BY <3>1, IdsSuffice DEF IdInv, Numbered, TypeInv, Windows, Rows
    <3>3. pubs'[win[h].id] > 0 /\ (r.id # win[h].id => pubs'[r.id] = pubs[r.id])
      BY <3>1, <3>2 DEF TypeInv
    <3>4. CASE r.id = win[h].id
      BY <3>3, <3>4
    <3>5. CASE r.id # win[h].id
      <4>1. ~Bound(r, h)
        BY <3>5 DEF Bound
      <4> QED
        BY <2>0, <3>1, <3>3, <3>5, <4>1 DEF LossInv
    <3> QED
      BY <3>4, <3>5
  <2>15. CASE CallFails(h)
    <3>1. UNCHANGED <<reports, pubs>> /\ CutOff({h})
      BY <2>15 DEF CallFails
    <3>2. cut \subseteq cut' /\ (Bound(r, h) => r.id \in cut')
      BY <3>1 DEF CutOff, Bound
    <3> QED
      BY <3>1, <3>2, <2>00
  <2>16. CASE SaveReportUnacked(h)
    <3>1. /\ reports' = reports \cup {Row(h)} /\ cut' = cut \cup {win[h].id} /\ UNCHANGED pubs
          /\ pc[h] = "report" /\ ~Bound(r, h)
      BY <2>16 DEF SaveReportUnacked, Bound
    <3>2. CASE r \in reports
      BY <2>0, <3>1, <3>2 DEF LossInv
    <3>3. CASE r = Row(h)
      BY <3>1, <3>3 DEF Row
    <3> QED
      BY <3>1, <3>2, <3>3
  <2> QED
    BY <1>1, <2>1, <2>2, <2>7, <2>8, <2>9, <2>11, <2>12, <2>15, <2>16 DEF HandlerStep, ObserveInference
<1>2. CASE Expire \/ CooldownElapses \/ ConfigureMonitor \/ ResetBaseline \/ DeleteMonitor \/ UNCHANGED vars
  <2>1. UNCHANGED <<pc, win, rep, pubs, cut>> /\ reports' \in {reports, {}}
    BY <1>2 DEF Expire, CooldownElapses, ConfigureMonitor, ResetBaseline, DeleteMonitor, AdminOnly,
                vars, output, past
  <2> QED
    BY <2>1 DEF LossInv, Bound, Owing
<1>3. CASE Crash
  <2>1. UNCHANGED <<reports, pubs>> /\ CutOff(Handlers)
    BY <1>3 DEF Crash
  <2>2. \A g \in Handlers : Bound(r, g) => r.id \in cut'
    BY <2>1 DEF CutOff, Bound
  <2>3. cut \subseteq cut'
    BY <2>1 DEF CutOff
  <2> QED
    BY <2>1, <2>2, <2>3 DEF LossInv
<1> QED
  BY <1>1, <1>2, <1>3 DEF Next, HandlerStep

\* A stored report of drift that nobody is still working on was published, or its inserter
\* or its process failed between insert and publish, for any number of handlers, windows
\* and redeliveries, purged monitors included (observe, applyPolicy).
THEOREM AlarmsLostOnlyToFailure == Spec => []AlarmLossExplained
<1>1. Init => IdInv /\ LossInv
  BY Records DEF Init, IdInv, Numbered, LossInv
<1>2. LossInv => AlarmLossExplained
  BY DEF LossInv, AlarmLossExplained, Bound, Owing, Drifted
<1> QED
  BY <1>1, <1>2, TypeInit, TypeStep, PlaceStep, CountInit, CountStep, IdStep, LossStep, PTL DEF Spec

-----------------------------------------------------------------------------
(* Alarms are earned *)

\* Steps that neither store nor publish keep the monitor, and a handler that has inserted
\* a report keeps it and its window until it lets go of both.
LEMMA EarnedFrame ==
    ASSUME TypeInv, PlaceInv, NEW h \in Handlers, HandlerStep(h),
           ~(SaveReport(h) \/ SaveReportUnacked(h) \/ Publish(h))
    PROVE  /\ UNCHANGED <<mon, reports, pubs>>
           /\ rep'[h].inserted =>
                rep[h].inserted /\ win'[h] = win[h] /\ rep'[h] = rep[h] /\ (Owing(h)' => Owing(h))
<1> DEFINE G == /\ UNCHANGED <<mon, reports, pubs>>
                /\ rep'[h].inserted =>
                     rep[h].inserted /\ win'[h] = win[h] /\ rep'[h] = rep[h] /\ (Owing(h)' => Owing(h))
<1>0. Placed(h) /\ rep[h] \in Reports
  BY DEF PlaceInv, TypeInv
<1> USE Records, <1>0 DEF Placed, Before, Owing, Owes, Goto, Acked, Nakked, Leaves, output, TypeInv
<1>1. ASSUME NEW e \in Events, Deliver(h, e)
      PROVE  G
  BY <1>1 DEF Deliver
<1>2. CASE LoadMeta(h)
  BY <1>2 DEF LoadMeta
<1>3. CASE LoadReqs(h)
  BY <1>3 DEF LoadReqs
<1>4. CASE Fold(h)
  BY <1>4 DEF Fold
<1>5. CASE Check(h)
  BY <1>5 DEF Check
<1>6. CASE Score(h)
  BY <1>6 DEF Score, Reports
<1>8. CASE CloseRead(h)
  BY <1>8 DEF CloseRead, AfterClose
<1>9. CASE CloseDel(h)
  BY <1>9 DEF CloseDel, AfterClose
<1>10. CASE Ack(h)
  BY <1>10 DEF Ack
<1>11. CASE Policy(h)
  BY <1>11 DEF Policy
<1>13. CASE MarkTriggered(h)
  BY <1>13 DEF MarkTriggered
<1>14. CASE TriggerRetrain(h)
  BY <1>14 DEF TriggerRetrain
<1>15. CASE CallFails(h)
  BY <1>15 DEF CallFails
<1> QED
  BY <1>1, <1>2, <1>3, <1>4, <1>5, <1>6, <1>8, <1>9, <1>10, <1>11, <1>13, <1>14, <1>15
     DEF HandlerStep, ObserveInference

\* The four parts of EarnedInv, for a monitor that is not deleted.
Published == \A w \in WindowIDs : pubs[w] <= 1 /\ (pubs[w] # 0 => \E r \in reports : r.id = w /\ r.sev \in Drifted)
Inserted  == \A h \in Handlers : rep[h].inserted => OwnReport(h)
Unsaid    == \A h \in Handlers : Owing(h) => pubs[win[h].id] = 0
Sole      == \A g, h \in Handlers : rep[g].inserted /\ rep[h].inserted /\ win[g].id = win[h].id => g = h

LEMMA EarnedParts == EarnedInv <=> (mon # "deleted" => Published /\ Inserted /\ Unsaid /\ Sole)
  BY DEF EarnedInv, Published, Inserted, Unsaid, Sole

LEMMA EarnedStep ==
    TypeInv /\ PlaceInv /\ IdInv /\ CountInv /\ EarnedInv /\ [Next]_vars => EarnedInv'
<1> SUFFICES ASSUME TypeInv, PlaceInv, IdInv, CountInv, EarnedInv, [Next]_vars, mon' # "deleted"
             PROVE  Published' /\ Inserted' /\ Unsaid' /\ Sole'
  BY EarnedParts DEF EarnedInv, Published, Inserted, Unsaid, Sole
<1> DEFINE Goal == Published' /\ Inserted' /\ Unsaid' /\ Sole'
<1>1. ASSUME NEW h \in Handlers, HandlerStep(h)
      PROVE  Goal
  <2>0. \A g \in Handlers \ {h} : pc'[g] = pc[g] /\ win'[g] = win[g] /\ rep'[g] = rep[g]
    BY <1>1, Others
  <2>1. CASE ~(SaveReport(h) \/ SaveReportUnacked(h) \/ Publish(h))
    <3>1. /\ UNCHANGED <<mon, reports, pubs>>
          /\ rep'[h].inserted =>
               rep[h].inserted /\ win'[h] = win[h] /\ rep'[h] = rep[h] /\ (Owing(h)' => Owing(h))
      BY <1>1, <2>1, EarnedFrame
    <3>2. Published /\ Inserted /\ Unsaid /\ Sole
      BY <3>1, EarnedParts
    <3>3. Published'
      BY <3>1, <3>2 DEF Published
    <3>4. Inserted'
      BY <2>0, <3>1, <3>2 DEF Inserted, OwnReport
    <3>5. Unsaid'
      BY <2>0, <3>1, <3>2 DEF Unsaid, Owing
    <3>6. Sole'
      BY <2>0, <3>1, <3>2 DEF Sole
    <3> QED
      BY <3>3, <3>4, <3>5, <3>6
  <2>2. CASE SaveReport(h) \/ SaveReportUnacked(h)
    <3>1. /\ mon' = mon /\ pubs' = pubs /\ pc[h] = "report"
          /\ reports' = IF Stored(win[h].id) THEN reports ELSE reports \cup {Row(h)}
      BY <2>2 DEF SaveReport, SaveReportUnacked, output
    <3>2. rep'[h].inserted => ~Stored(win[h].id) /\ win'[h] = win[h] /\ rep'[h].sev = rep[h].sev
      BY <2>2, Records DEF SaveReport, SaveReportUnacked, Nakked, Leaves, TypeInv, Reports
    <3>3. Published /\ Inserted /\ Unsaid /\ Sole
      BY <3>1, EarnedParts
    <3>4. reports \subseteq reports' /\ (~Stored(win[h].id) => Row(h) \in reports')
      BY <3>1
    <3>5. Published'
      BY <3>1, <3>3, <3>4 DEF Published
    <3>6. Inserted'
      BY <2>0, <3>2, <3>3, <3>4 DEF Inserted, OwnReport, Row
    <3>7. win[h].id \in WindowIDs
      BY <3>1, IdsSuffice DEF IdInv, Numbered, TypeInv, Windows
    <3>8. ~Stored(win[h].id) => pubs[win[h].id] = 0
      BY <3>3, <3>7 DEF Published, Stored
    <3>9. Unsaid'
      BY <2>0, <3>1, <3>2, <3>3, <3>8 DEF Unsaid, Owing
    <3>10. \A g \in Handlers : rep[g].inserted => Stored(win[g].id)
      BY <3>3 DEF Inserted, OwnReport, Stored
    <3>11. Sole'
      BY <2>0, <3>2, <3>3, <3>10 DEF Sole
    <3> QED
      BY <3>5, <3>6, <3>9, <3>11
  <2>3. CASE Publish(h)
    <3>1. /\ pc[h] \in {"publish", "alert"} /\ pubs' = [pubs EXCEPT ![win[h].id] = @ + 1]
          /\ reports' = reports /\ mon' = mon
      BY <2>3 DEF Publish
    <3>2. (pc'[h] = "mark" /\ win'[h] = win[h] /\ rep'[h] = rep[h]) \/ (pc'[h] = "ack" /\ ~rep'[h].inserted)
      BY <2>3, Records DEF Publish, Goto, TypeInv
    <3>3. Published /\ Inserted /\ Unsaid /\ Sole
      BY <3>1, EarnedParts
    <3>4. win[h].id \in WindowIDs
      BY <3>1, IdsSuffice DEF IdInv, Numbered, TypeInv, Windows
    <3>5. rep[h].inserted /\ rep[h].sev \in Drifted
      BY <3>1 DEF PlaceInv, Placed
    <3>6. Owing(h) /\ pubs[win[h].id] = 0
      BY <3>1, <3>3, <3>5 DEF Owing, Owes, Unsaid
    <3>7. pubs'[win[h].id] = 1 /\ \A w \in WindowIDs : w # win[h].id => pubs'[w] = pubs[w]
      BY <3>1, <3>4, <3>6 DEF TypeInv
    <3>8. Published'
      BY <3>1, <3>3, <3>5, <3>7 DEF Published, Inserted, OwnReport
    <3>9. Inserted'
      BY <2>0, <3>1, <3>2, <3>3 DEF Inserted, OwnReport
    <3>10. Unsaid'
      <4> SUFFICES ASSUME NEW g \in Handlers, Owing(g)'
                   PROVE  pubs'[win'[g].id] = 0
        BY DEF Unsaid
      <4>1. g # h /\ Owing(g) /\ win'[g] = win[g]
        BY <2>0, <3>2 DEF Owing, Owes
      <4>2. win[g].id # win[h].id
        BY <3>3, <3>5, <4>1 DEF Sole, Owing
      <4>3. win[g].id \in WindowIDs
        BY <4>1, IdsSuffice DEF IdInv, Numbered, TypeInv, Windows, Owing, Owes
      <4> QED
        BY <3>3, <3>7, <4>1, <4>2, <4>3 DEF Unsaid
    <3>11. Sole'
      BY <2>0, <3>2, <3>3 DEF Sole
    <3> QED
      BY <3>8, <3>9, <3>10, <3>11
  <2> QED
    BY <2>1, <2>2, <2>3
<1>2. CASE Expire \/ CooldownElapses \/ ConfigureMonitor \/ ResetBaseline \/ UNCHANGED vars
  <2>1. UNCHANGED <<pc, win, rep, pubs, reports>> /\ mon # "deleted"
    BY <1>2 DEF Expire, CooldownElapses, ConfigureMonitor, ResetBaseline, AdminOnly, vars, output
  <2>2. Published /\ Inserted /\ Unsaid /\ Sole
    BY <2>1, EarnedParts
  <2> QED
    BY <2>1, <2>2 DEF Published, Inserted, OwnReport, Unsaid, Owing, Sole
<1>3. CASE DeleteMonitor
  BY <1>3 DEF DeleteMonitor
<1>4. CASE Crash
  <2>1. UNCHANGED <<reports, pubs, mon>> /\ \A g \in Handlers : ~rep'[g].inserted
    BY <1>4, Records DEF Crash
  <2>2. Published
    BY <2>1, EarnedParts
  <2> QED
    BY <2>1, <2>2 DEF Published, Inserted, Unsaid, Owing, Sole
<1> QED
  BY <1>1, <1>2, <1>3, <1>4 DEF Next, HandlerStep

\* While the monitor exists, a drift event is published at most once per window, and only
\* for a stored report of drift, for any number of handlers, redeliveries and failures
\* (Save's `inserted', applyPolicy).
THEOREM AlarmsAreEarned == Spec => []AlarmIsEarned
<1>1. Init => IdInv /\ EarnedInv
  BY Records DEF Init, IdInv, Numbered, EarnedInv, Owing
<1>2. EarnedInv => AlarmIsEarned
  BY DEF EarnedInv, AlarmIsEarned, Drifted
<1> QED
  BY <1>1, <1>2, TypeInit, TypeStep, PlaceStep, CountInit, CountStep, IdStep, EarnedStep, PTL DEF Spec

-----------------------------------------------------------------------------
(* Windows are exact *)

\* Every set of events is finite, and a larger one has no fewer of them.
LEMMA EventSets ==
    ASSUME NEW S \in SUBSET Events, NEW T \in SUBSET S
    PROVE  IsFiniteSet(S) /\ Cardinality(S) \in Nat /\ Cardinality(T) \in Nat /\ Cardinality(T) <= Cardinality(S)
<1>1. IsFiniteSet(S)
  BY EventsAssumption, FS_Subset
<1>2. IsFiniteSet(T) /\ Cardinality(T) <= Cardinality(S)
  BY <1>1, FS_Subset
<1> QED
  BY <1>1, <1>2, FS_CardinalityType

\* Steps that leave the window, the reports and the folds alone, and do not bring a
\* handler to a place where its copy matters.
LEMMA ExactFrame ==
    ASSUME TypeInv, NEW h \in Handlers, HandlerStep(h),
           ~(LoadMeta(h) \/ LoadReqs(h) \/ Fold(h) \/ Check(h) \/ CloseDel(h) \/ SaveReport(h) \/ SaveReportUnacked(h))
    PROVE  /\ UNCHANGED <<meta, reqs, reports, folds, overlap>>
           /\ pc'[h] \notin {"members", "fold", "check"}
           /\ pc'[h] \in {"score", "report"} => pc[h] = "score" /\ win'[h] = win[h]
<1> DEFINE G == /\ UNCHANGED <<meta, reqs, reports, folds, overlap>>
                /\ pc'[h] \notin {"members", "fold", "check"}
                /\ pc'[h] \in {"score", "report"} => pc[h] = "score" /\ win'[h] = win[h]
<1> USE DEF Goto, Acked, Nakked, Leaves, store, past, TypeInv
<1>1. ASSUME NEW e \in Events, Deliver(h, e)
      PROVE  G
  BY <1>1 DEF Deliver
<1>6. CASE Score(h)
  BY <1>6 DEF Score
<1>8. CASE CloseRead(h)
  BY <1>8 DEF CloseRead, AfterClose
<1>10. CASE Ack(h)
  BY <1>10 DEF Ack
<1>11. CASE Policy(h)
  BY <1>11 DEF Policy
<1>12. CASE Publish(h)
  BY <1>12 DEF Publish
<1>13. CASE MarkTriggered(h)
  BY <1>13 DEF MarkTriggered
<1>14. CASE TriggerRetrain(h)
  BY <1>14 DEF TriggerRetrain
<1>15. CASE CallFails(h)
  BY <1>15 DEF CallFails
<1> QED
  BY <1>1, <1>6, <1>8, <1>10, <1>11, <1>12, <1>13, <1>14, <1>15 DEF HandlerStep, ObserveInference

\* A Fold of a copy that is up to date, seen by nobody else.
LEMMA FoldExact ==
    ASSUME TypeInv, PlaceInv, IdInv, CountInv, Exact, NEW h \in Handlers, HandlerStep(h), Fold(h), ~Disturbs(h)
    PROVE  Exact'
<1> DEFINE e == ev[h]
           w == Add(win[h], e)
           i == win[h].id
<1>1. pc[h] = "fold" /\ e \in Events /\ win[h] \in Windows /\ meta.count \in Nat /\ reqs \in SUBSET Events
  BY DEF Fold, PlaceInv, Placed, TypeInv
<1>2. i \in WindowIDs /\ i > 0
  BY <1>1, IdsSuffice DEF IdInv, Numbered, TypeInv, Windows
<1>3. win[h].reqs = reqs /\ win[h].count = Cardinality(reqs) /\ reqs \subseteq folds[i]
  <2>1. Counted(h) /\ meta.count = Cardinality(reqs)
    BY DEF Exact
  <2>2. CASE meta # NoWindow /\ ReadsStored(h) /\ win[h].reqs = reqs
    BY <2>1, <2>2 DEF Exact, ReadsStored
  <2>3. CASE Fresh(h)
    <3>1. reqs = {}
      BY <1>1, <2>1, <2>3, Records, EventSets, FS_EmptySet DEF Fresh
    <3> QED
      BY <2>1, <2>3, <3>1, Records DEF Fresh
  <2> QED
    BY <1>1, <2>1, <2>2, <2>3 DEF Counted
<1>4. w \in Windows /\ w.id = i /\ w.reqs = reqs \cup {e} /\ w.count = Cardinality(reqs \cup {e})
  <2>1. w \in Windows /\ w.id = i
    BY <1>1, AddTypes
  <2>2. IsFiniteSet(reqs)
    BY <1>1, EventSets
  <2>3. CASE e \in reqs
    BY <1>3, <2>1, <2>3 DEF Add
  <2>4. CASE e \notin reqs
    <3>1. Cardinality(reqs \cup {e}) = Cardinality(reqs) + 1
      BY <2>2, <2>4, FS_AddElement
    <3>2. w.reqs = win[h].reqs \cup {e} /\ w.count = win[h].count + 1
      BY <1>1, <1>3, <2>4 DEF Add, Windows
    <3> QED
      BY <1>3, <2>1, <3>1, <3>2
  <2> QED
    BY <2>3, <2>4
<1>5. /\ meta' = [id |-> w.id, count |-> w.count] /\ reqs' = reqs \cup w.reqs
      /\ win' = [win EXCEPT ![h] = [w EXCEPT !.reqs = {}]] /\ pc' = [pc EXCEPT ![h] = "check"]
      /\ folds' = [folds EXCEPT ![w.id] = @ \cup {e}] /\ reports' = reports
  BY DEF Fold, SaveWindow
<1> HIDE DEF w
<1>6. meta'.id = i /\ meta'.count = Cardinality(reqs') /\ reqs' = reqs \cup {e}
  BY <1>4, <1>5
<1>7. /\ \A x \in WindowIDs : folds'[x] \in SUBSET Events /\ folds[x] \subseteq folds'[x]
      /\ folds'[i] = folds[i] \cup {e}
  BY <1>1, <1>2, <1>4, <1>5 DEF TypeInv
<1>8. reqs' \subseteq folds'[i]
  BY <1>3, <1>6, <1>7
<1>9. \A x \in WindowIDs : /\ Cardinality(folds[x]) <= Cardinality(folds'[x])
                           /\ Cardinality(folds[x]) \in Nat /\ Cardinality(folds'[x]) \in Nat
  BY <1>7, EventSets
<1>10. Counted(h)'
  <2>1. win'[h].id = i /\ win'[h].count = Cardinality(reqs') /\ pc'[h] = "check"
    BY <1>4, <1>5, <1>6 DEF TypeInv, Windows
  <2>2. Cardinality(reqs') <= Cardinality(folds'[i])
    BY <1>2, <1>7, <1>8, EventSets
  <2> QED
    BY <2>1, <2>2 DEF Counted
<1>11. ASSUME NEW g \in Handlers, g # h
       PROVE  Counted(g)'
  <2>1. pc'[g] = pc[g] /\ win'[g] = win[g] /\ pc[g] \notin {"members", "fold"}
    BY <1>11, Others DEF Disturbs
  <2>2. pc[g] \in {"check", "score", "report"} => win[g].count <= Cardinality(folds[win[g].id])
    BY DEF Exact, Counted
  <2>3. pc[g] \in {"check", "score", "report"} => win[g].id \in WindowIDs
    BY IdsSuffice DEF IdInv, Numbered, TypeInv, Windows
  <2>4. win[g].count \in Nat
    BY DEF TypeInv, Windows
  <2> QED
    BY <1>9, <2>1, <2>2, <2>3, <2>4 DEF Counted
<1>12. ASSUME NEW r \in reports'
       PROVE  r.count <= Cardinality(folds'[r.id])
  <2>1. r.id \in WindowIDs /\ r.count \in Nat /\ r.count <= Cardinality(folds[r.id])
    BY <1>5, IdsSuffice DEF IdInv, TypeInv, Rows, Exact
  <2> QED
    BY <1>9, <2>1
<1> QED
  BY <1>6, <1>8, <1>10, <1>11, <1>12 DEF Exact

LEMMA ExactStep ==
    TypeInv /\ PlaceInv /\ IdInv /\ CountInv /\ ExactInv /\ [Next]_vars => ExactInv'
<1> SUFFICES ASSUME TypeInv, PlaceInv, IdInv, CountInv, ExactInv, [Next]_vars
             PROVE  Enough' /\ (~overlap' => Exact')
  BY DEF ExactInv
<1> DEFINE Goal == Enough' /\ (~overlap' => Exact')
<1>0. Enough
  BY DEF ExactInv
<1>1. ASSUME NEW h \in Handlers, HandlerStep(h)
      PROVE  Goal
  <2>0. \A g \in Handlers \ {h} : pc'[g] = pc[g] /\ win'[g] = win[g]
    BY <1>1, Others
  \* The others' copies and the stored window stay comparable when the window stays.
  <2>00. ASSUME UNCHANGED <<meta, reqs, folds, reports>>, Exact, Counted(h)'
         PROVE  Exact'
    <3>1. ASSUME NEW g \in Handlers, g # h
          PROVE  Counted(g)'
      BY <2>0, <2>00, <3>1 DEF Exact, Counted, ReadsStored, Fresh
    <3> QED
      BY <2>00, <3>1 DEF Exact
  <2>1. CASE ~(LoadMeta(h) \/ LoadReqs(h) \/ Fold(h) \/ Check(h) \/ CloseDel(h) \/ SaveReport(h) \/ SaveReportUnacked(h))
    <3>1. /\ UNCHANGED <<meta, reqs, reports, folds, overlap>>
          /\ pc'[h] \notin {"members", "fold", "check"}
          /\ pc'[h] \in {"score", "report"} => pc[h] = "score" /\ win'[h] = win[h]
      BY <1>1, <2>1, ExactFrame
    <3>2. Enough'
      BY <1>0, <2>0, <3>1 DEF Enough
    <3>3. Exact => Counted(h)'
      BY <3>1 DEF Exact, Counted
    <3> QED
      BY <2>00, <3>1, <3>2, <3>3 DEF ExactInv
  <2>2. CASE LoadMeta(h)
    <3>1. /\ UNCHANGED <<meta, reqs, reports, folds, overlap>> /\ pc'[h] \in {"fold", "members"}
          /\ pc'[h] = "fold" => meta = NoWindow /\ win'[h] = [id |-> opened + 1, count |-> 0, reqs |-> {}]
          /\ pc'[h] = "members" => meta # NoWindow /\ win'[h] = [id |-> meta.id, count |-> meta.count, reqs |-> {}]
      BY <2>2 DEF LoadMeta, past, TypeInv
    <3>2. Enough'
      BY <1>0, <2>0, <3>1 DEF Enough
    <3>3. Counted(h)'
      BY <3>1 DEF Counted, ReadsStored, Fresh
    <3> QED
      BY <2>00, <3>1, <3>2, <3>3 DEF ExactInv
  <2>3. CASE LoadReqs(h)
    <3>1. /\ UNCHANGED <<meta, reqs, reports, folds, overlap>> /\ pc[h] = "members" /\ pc'[h] \in {"idle", "fold"}
          /\ pc'[h] = "fold" => win' = [win EXCEPT ![h].reqs = reqs]
      BY <2>3 DEF LoadReqs, Nakked, Leaves, store, past, TypeInv
    <3>2. Enough'
      BY <1>0, <2>0, <3>1 DEF Enough
    <3>3. pc'[h] = "fold" => win'[h].id = win[h].id /\ win'[h].count = win[h].count /\ win'[h].reqs = reqs
      BY <3>1 DEF TypeInv, Windows
    <3>4. Exact => Counted(h)'
      BY <3>1, <3>3 DEF Exact, Counted, ReadsStored
    <3> QED
      BY <2>00, <3>1, <3>2, <3>4 DEF ExactInv
  <2>4. CASE Fold(h)
    <3>1. pc' = [pc EXCEPT ![h] = "check"] /\ reports' = reports /\ overlap' = (overlap \/ Disturbs(h))
      BY <2>4 DEF Fold
    <3>2. Enough'
      BY <1>0, <2>0, <3>1 DEF Enough, TypeInv
    <3>3. ~overlap' => ~overlap /\ ~Disturbs(h)
      BY <3>1 DEF TypeInv
    <3> QED
      BY <1>1, <2>4, <3>2, <3>3, FoldExact DEF ExactInv
  <2>5. CASE Check(h)
    <3>1. /\ UNCHANGED <<meta, reqs, reports, folds, overlap>> /\ pc[h] = "check" /\ pc'[h] \in {"idle", "score", "close"}
          /\ pc'[h] = "score" => win'[h] = win[h] /\ MinSamples <= win[h].count
      BY <2>5, ShapeAssumption DEF Check, Acked, Leaves, Goto, HasEnoughSamples, store, past, TypeInv, Windows
    <3>2. Enough'
      BY <1>0, <2>0, <3>1 DEF Enough
    <3>3. Exact => Counted(h)'
      BY <3>1 DEF Exact, Counted
    <3> QED
      BY <2>00, <3>1, <3>2, <3>3 DEF ExactInv
  <2>6. CASE CloseDel(h)
    <3>1. /\ meta' = NoWindow /\ reqs' = {} /\ UNCHANGED <<reports, folds>> /\ overlap' = (overlap \/ Disturbs(h))
          /\ pc'[h] \in {"policy", "ack"}
      BY <2>6 DEF CloseDel, Goto, AfterClose, TypeInv
    <3>2. Enough'
      BY <1>0, <2>0, <3>1 DEF Enough
    <3>3. ~overlap' => ~overlap /\ ~Disturbs(h)
      BY <3>1 DEF TypeInv
    <3>4. ASSUME Exact, ~Disturbs(h)
          PROVE  Exact'
      <4>1. ASSUME NEW g \in Handlers
            PROVE  Counted(g)'
        BY <2>0, <3>1, <3>4, <4>1 DEF Exact, Counted, Disturbs
      <4> QED
        BY <3>1, <3>4, <4>1, Records, FS_EmptySet DEF Exact
    <3> QED
      BY <3>2, <3>3, <3>4 DEF ExactInv
  <2>7. CASE SaveReport(h) \/ SaveReportUnacked(h)
    <3>1. /\ UNCHANGED <<meta, reqs, folds, overlap>> /\ pc[h] = "report" /\ pc'[h] \in {"idle", "close"}
          /\ reports' \subseteq reports \cup {Row(h)}
      BY <2>7 DEF SaveReport, SaveReportUnacked, Nakked, Leaves, store, past, TypeInv
    <3>2. Row(h).count = win[h].count /\ Row(h).id = win[h].id
      BY DEF Row
    <3>3. Enough'
      BY <1>0, <2>0, <3>1, <3>2 DEF Enough
    <3>4. ASSUME Exact
          PROVE  Exact'
      <4>1. ASSUME NEW g \in Handlers
            PROVE  Counted(g)'
        BY <2>0, <3>1, <3>4, <4>1 DEF Exact, Counted, ReadsStored, Fresh
      <4> QED
        BY <3>1, <3>2, <3>4, <4>1 DEF Exact, Counted
    <3> QED
      BY <3>1, <3>3, <3>4 DEF ExactInv
  <2> QED
    BY <2>1, <2>2, <2>3, <2>4, <2>5, <2>6, <2>7
<1>2. CASE CooldownElapses \/ ConfigureMonitor \/ ResetBaseline \/ DeleteMonitor \/ UNCHANGED vars
  <2>1. UNCHANGED <<pc, win, meta, reqs, folds, overlap>> /\ reports' \in {reports, {}}
    BY <1>2 DEF CooldownElapses, ConfigureMonitor, ResetBaseline, DeleteMonitor, AdminOnly, vars, store, past
  <2> QED
    BY <2>1 DEF ExactInv, Enough, Exact, Counted, ReadsStored, Fresh
<1>3. CASE Expire
  <2>1. /\ UNCHANGED <<pc, win, reports, folds, overlap>> /\ meta' = NoWindow /\ reqs' = {}
        /\ \A g \in Handlers : pc[g] = "idle"
    BY <1>3 DEF Expire, past
  <2> QED
    BY <2>1, Records, FS_EmptySet DEF ExactInv, Enough, Exact, Counted
<1>4. CASE Crash
  <2>1. UNCHANGED <<reports, folds, overlap, meta, reqs>> /\ \A g \in Handlers : pc'[g] = "idle"
    BY <1>4 DEF Crash, store
  <2> QED
    BY <2>1 DEF ExactInv, Enough, Exact, Counted
<1> QED
  BY <1>1, <1>2, <1>3, <1>4 DEF Next, HandlerStep

\* Until a window is written or deleted under another handler's eyes, its sample_count is
\* the number of its request ids, a report is of at least MinSamples, and none counts an
\* event twice: for every window shape and any number of crashes, failed calls,
\* redeliveries and expiries (window_store.go, Window.Add).
THEOREM WindowsAreExact == Spec => []WindowIsExact
<1>1. Init => IdInv /\ ExactInv
  BY Records, FS_EmptySet DEF Init, IdInv, Numbered, ExactInv, Enough, Exact, Counted
<1>2. ExactInv => WindowIsExact
  BY DEF ExactInv, Enough, Exact, WindowIsExact
<1> QED
  BY <1>1, <1>2, TypeInit, TypeStep, PlaceStep, CountInit, CountStep, IdStep, ExactStep, PTL DEF Spec
=============================================================================
