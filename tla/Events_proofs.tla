---------------------------- MODULE Events_proofs ----------------------------
(***************************************************************************)
(* Proofs about EventConsumer, for any number of replicas, events, retries  *)
(* and faults; and, from "FeatureStore" on, about FeatureStore, for any     *)
(* number of callers, entities, keys, events and faults.  The two share no  *)
(* variable and no operator.                                                *)
(***************************************************************************)
EXTENDS EventConsumer, FeatureStore, FiniteSetTheorems, SequenceTheorems, WellFoundedInduction, TLAPS

-----------------------------------------------------------------------------
(* Part 1: what holds whatever the timeouts are *)

\* An event that may still be delivered has a delivery left.
ReadyHasDelivery == \A m \in Msgs : st[m] = "ready" => n[m] <= MaxRetries

\* The store and the ack step know only events whose handler has committed.
MarkedMeansHandled ==
    /\ \A m \in processed : effects[m] >= 1
    /\ \A r \in Replicas : pc[r] \in {"mark", "ack"} => effects[msg[r]] >= 1

BaseInv == TypeOK /\ ReadyHasDelivery /\ MarkedMeansHandled /\ AckedMeansHandled

\* The initial states satisfy the invariant.
LEMMA BaseInit == Init => BaseInv
  BY SetsAssumption, NumbersAssumption
  DEF Init, BaseInv, TypeOK, ReadyHasDelivery, MarkedMeansHandled, AckedMeansHandled, Settled, Steps

\* Every action preserves the invariant: mark-before-ack is what carries
\* MarkedMeansHandled to AckedMeansHandled.
LEMMA BaseStep == BaseInv /\ [Next]_vars => BaseInv'
<1> SUFFICES ASSUME BaseInv, [Next]_vars PROVE BaseInv'
  OBVIOUS
<1> USE SetsAssumption, NumbersAssumption
    DEF BaseInv, TypeOK, ReadyHasDelivery, MarkedMeansHandled, AckedMeansHandled,
        Settled, Steps, server, local, Goto, Fault, MaxDeliver, AllFaults
<1>1. ASSUME NEW r \in Replicas, NEW m \in Msgs, Deliver(r, m) PROVE BaseInv'
  BY <1>1 DEF Deliver
<1>2. ASSUME NEW r \in Replicas, CheckProcessed(r) PROVE BaseInv'
  BY <1>2 DEF CheckProcessed
<1>3. ASSUME NEW r \in Replicas, HandlerSucceeds(r) PROVE BaseInv'
  BY <1>3 DEF HandlerSucceeds
<1>4. ASSUME NEW r \in Replicas, HandlerFails(r) PROVE BaseInv'
  <2>1. faults' \subseteq [kind : AllFaults, msg : Msgs, dn : 0..(MaxRetries + 1)]
    BY <1>4 DEF HandlerFails
  <2>2. \/ UNCHANGED expired
        \/ expired' = [expired EXCEPT ![r] = TRUE]
    BY <1>4 DEF HandlerFails
  <2>3. expired' \in [Replicas -> BOOLEAN]
    BY <2>2
  <2>4. \/ pc' = [pc EXCEPT ![r] = "dlq"]
        \/ pc' = [pc EXCEPT ![r] = "nak"]
    BY <1>4 DEF HandlerFails, HandleFailure
  <2>5. UNCHANGED <<server, local, processed, effects, dlq, gaps>>
    BY <1>4 DEF HandlerFails
  <2> QED
    BY <2>1, <2>3, <2>4, <2>5
<1>5. ASSUME NEW r \in Replicas, MarkProcessed(r) PROVE BaseInv'
  BY <1>5 DEF MarkProcessed
<1>6. ASSUME NEW r \in Replicas, RouteToDLQ(r) PROVE BaseInv'
  BY <1>6 DEF RouteToDLQ
<1>7. ASSUME NEW r \in Replicas, Ack(r) PROVE BaseInv'
  BY <1>7 DEF Ack
<1>8. ASSUME NEW r \in Replicas, Nak(r) PROVE BaseInv'
  BY <1>8 DEF Nak, Redeliver
<1>9. ASSUME NEW r \in Replicas, Term(r) PROVE BaseInv'
  BY <1>9 DEF Term
<1>10. ASSUME NEW r \in Replicas, Crash(r) PROVE BaseInv'
  BY <1>10 DEF Crash
<1>11. ASSUME NEW m \in Msgs, AckWaitExpires(m) PROVE BaseInv'
  BY <1>11 DEF AckWaitExpires, Redeliver
<1>12. CASE UNCHANGED vars
  BY <1>12 DEF vars
<1> QED
  BY <1>1, <1>2, <1>3, <1>4, <1>5, <1>6, <1>7, <1>8, <1>9, <1>10, <1>11, <1>12 DEF Next, HandleMessage

\* Every state is well typed, and the number of deliveries never exceeds
\* MaxDeliver (maxDeliverFromCfg).
THEOREM TypeCorrect == Spec => []TypeOK
<1>1. Spec => []BaseInv
  BY BaseInit, BaseStep, PTL DEF Spec
<1>2. BaseInv => TypeOK
  BY DEF BaseInv
<1> QED
  BY <1>1, <1>2, PTL

\* handleMessage acknowledges only events whose side effect was applied,
\* whatever crashes, store errors, lost acks and overlapping deliveries occur.
THEOREM AcksAreHonest == Spec => []AckedMeansHandled
<1>1. Spec => []BaseInv
  BY BaseInit, BaseStep, PTL DEF Spec
<1>2. BaseInv => AckedMeansHandled
  BY DEF BaseInv
<1> QED
  BY <1>1, <1>2, PTL

-----------------------------------------------------------------------------
(* Part 2: what the rule "message timeout below AckWait" buys *)

\* A replica at work holds the delivery JetStream is waiting on.
HoldsDelivery ==
    \A r \in Replicas : pc[r] # "idle" => st[msg[r]] = "inflight" /\ dn[r] = n[msg[r]]

\* Nobody else marks an event while its handler runs.
FreshAtHandle == \A r \in Replicas : pc[r] = "handle" => msg[r] \notin processed

\* The side effects are accounted for: one per gap, and one more once the
\* event is marked or about to be.
AtMark(m) == \E r \in Replicas : pc[r] = "mark" /\ msg[r] = m
Accounted ==
    \A m \in Msgs :
        /\ effects[m] <= 1 + gaps[m]
        /\ m \notin processed /\ ~AtMark(m) => effects[m] <= gaps[m]

\* A dead-lettered event is out of deliveries, unmarked, and nobody handles it.
DeadIsOver ==
    /\ \A r \in Replicas : pc[r] = "dlq" => dn[r] = MaxRetries + 1 /\ msg[r] \notin processed
    /\ \A m \in dlq : /\ n[m] = MaxRetries + 1 /\ m \notin processed
                      /\ \A r \in Replicas : Working(r, m) => pc[r] = "term"

TimelyInv == BaseInv /\ HoldsDelivery /\ SingleHandler /\ FreshAtHandle /\ Accounted /\ DeadIsOver

\* The initial states satisfy the invariant.
LEMMA TimelyInit == Init => TimelyInv
<1> SUFFICES ASSUME Init PROVE TimelyInv
  OBVIOUS
<1>1. BaseInv
  BY BaseInit
<1>2. HoldsDelivery /\ SingleHandler /\ FreshAtHandle /\ DeadIsOver
  BY DEF Init, HoldsDelivery, SingleHandler, FreshAtHandle, DeadIsOver, Working
<1>3. Accounted
  BY DEF Init, Accounted
<1> QED
  BY <1>1, <1>2, <1>3 DEF TimelyInv

\* Every action preserves the invariant when a delivery in progress keeps
\* JetStream from redelivering.
LEMMA TimelyStep ==
    ASSUME MsgTimeout < AckWait, TimelyInv, [Next]_vars
    PROVE  TimelyInv'
<1> USE NumbersAssumption, SetsAssumption
    DEF TimelyInv, HoldsDelivery, SingleHandler, FreshAtHandle, Accounted, DeadIsOver, AtMark,
        Working, BaseInv, TypeOK, ReadyHasDelivery, Settled, Steps, server, local, Goto, Fault, MaxDeliver
<1>0. BaseInv'
  BY BaseStep
<1>1. ASSUME NEW r \in Replicas, NEW m \in Msgs, Deliver(r, m) PROVE TimelyInv'
  BY <1>0, <1>1 DEF Deliver
<1>2. ASSUME NEW r \in Replicas, CheckProcessed(r) PROVE TimelyInv'
  BY <1>0, <1>2 DEF CheckProcessed
<1>3. ASSUME NEW r \in Replicas, HandlerSucceeds(r) PROVE TimelyInv'
  BY <1>0, <1>3 DEF HandlerSucceeds
<1>4. ASSUME NEW r \in Replicas, HandlerFails(r) PROVE TimelyInv'
  <2>1. /\ pc[r] = "handle" /\ pc' = [pc EXCEPT ![r] = IF dn[r] >= MaxRetries + 1 THEN "dlq" ELSE "nak"]
        /\ UNCHANGED <<server, local, processed, effects, dlq, gaps>>
    BY <1>4 DEF HandlerFails, HandleFailure
  <2>2. HoldsDelivery' /\ SingleHandler' /\ FreshAtHandle'
    BY <2>1
  <2>3. Accounted'
    BY <2>1
  <2>4. DeadIsOver'
    BY <2>1
  <2> QED BY <1>0, <2>2, <2>3, <2>4
<1>5. ASSUME NEW r \in Replicas, MarkProcessed(r) PROVE TimelyInv'
  BY <1>0, <1>5 DEF MarkProcessed
<1>6. ASSUME NEW r \in Replicas, RouteToDLQ(r) PROVE TimelyInv'
  BY <1>0, <1>6 DEF RouteToDLQ
<1>7. ASSUME NEW r \in Replicas, Ack(r) PROVE TimelyInv'
  BY <1>0, <1>7 DEF Ack
<1>8. ASSUME NEW r \in Replicas, Nak(r) PROVE TimelyInv'
  BY <1>0, <1>8 DEF Nak, Redeliver
<1>9. ASSUME NEW r \in Replicas, Term(r) PROVE TimelyInv'
  BY <1>0, <1>9 DEF Term
<1>10. ASSUME NEW r \in Replicas, Crash(r) PROVE TimelyInv'
  BY <1>0, <1>10 DEF Crash
<1>11. ASSUME NEW m \in Msgs, AckWaitExpires(m) PROVE TimelyInv'
  BY <1>0, <1>11 DEF AckWaitExpires, AnsweredInTime, Redeliver
<1>12. CASE UNCHANGED vars
  BY <1>0, <1>12 DEF vars
<1> QED
  BY <1>1, <1>2, <1>3, <1>4, <1>5, <1>6, <1>7, <1>8, <1>9, <1>10, <1>11, <1>12 DEF Next, HandleMessage

\* The invariant holds in every reachable state under the rule.
LEMMA Timely == ASSUME MsgTimeout < AckWait PROVE Spec => []TimelyInv
<1>1. TimelyInv /\ [Next]_vars => TimelyInv'
  BY TimelyStep
<1> QED
  BY TimelyInit, <1>1, PTL DEF Spec

\* No two replicas work on the same event when the message timeout is below
\* AckWait (WithMessageTimeout).
THEOREM OneHandlerAtATime == ASSUME MsgTimeout < AckWait PROVE Spec => []SingleHandler
<1>1. TimelyInv => SingleHandler
  BY DEF TimelyInv
<1> QED
  BY Timely, <1>1, PTL

\* Redeliveries and lost acks alone never repeat a side effect: each repetition
\* is paid for by a delivery that ended between commit and MarkProcessed.
THEOREM DedupWorks == ASSUME MsgTimeout < AckWait PROVE Spec => []OncePerGap
<1>1. TimelyInv => OncePerGap
  BY DEF TimelyInv, Accounted, OncePerGap
<1> QED
  BY Timely, <1>1, PTL

\* Dead-lettering is the last resort: only on the final delivery, and only of
\* events whose side effect is not in place (handleFailure, routeToDLQ).
THEOREM DeadLettersAreUnhandled == ASSUME MsgTimeout < AckWait PROVE Spec => []DLQIsLastResort
<1>1. ASSUME TimelyInv, NEW m \in dlq
      PROVE  n[m] = MaxDeliver /\ (gaps[m] = 0 => effects[m] = 0)
  <2>1. m \in Msgs /\ n[m] = MaxRetries + 1 /\ m \notin processed
    BY <1>1 DEF TimelyInv, DeadIsOver, BaseInv, TypeOK
  <2>2. ~AtMark(m)
    BY <1>1 DEF TimelyInv, DeadIsOver, AtMark, Working
  <2>3. effects[m] <= gaps[m] /\ effects[m] \in Nat
    BY <1>1, <2>1, <2>2 DEF TimelyInv, Accounted, BaseInv, TypeOK
  <2> QED
    BY <2>1, <2>3 DEF MaxDeliver
<1>2. TimelyInv => DLQIsLastResort
  BY <1>1 DEF DLQIsLastResort
<1> QED
  BY Timely, <1>2, PTL

-----------------------------------------------------------------------------
(* Part 3: every silent loss is a fault of the last delivery *)

\* The event's last allowed delivery met a fault that may cost the event.
Explained(m) ==
    \E f \in faults : /\ f.msg = m /\ f.dn = MaxRetries + 1
                     /\ f.kind \in {"store", "crash", "timeout", "dlq"}

\* The event is handled, dead-lettered or explained.
Accountable(m) == effects[m] >= 1 \/ m \in dlq \/ Explained(m)

\* What a delivery still owes: a NAK on the last delivery, a Term and a dead
\* context have their reasons, and so has a last delivery nobody works on.
LossInv ==
    /\ \A r \in Replicas : msg[r] \notin Corrupt =>
        /\ pc[r] = "nak" /\ dn[r] = MaxRetries + 1 => Accountable(msg[r])
        /\ pc[r] = "term" => Accountable(msg[r])
        /\ pc[r] = "dlq" /\ expired[r] => Explained(msg[r])
    /\ \A r \in Replicas : pc[r] \in {"check", "handle"} => ~expired[r]
    /\ \A m \in Msgs \ Corrupt :
        st[m] = "inflight" /\ n[m] = MaxRetries + 1 /\ (\A r \in Replicas : ~Working(r, m))
            => Accountable(m)
    /\ \A m \in Msgs \ Corrupt : st[m] \in Settled => Accountable(m)

\* The initial states satisfy the invariant.
LEMMA LossInit == Init => LossInv
  BY NumbersAssumption DEF Init, LossInv, Settled

\* Effects, dead letters and faults only accumulate.
LEMMA AccountableStays ==
    ASSUME TypeOK, [Next]_vars, NEW m \in Msgs
    PROVE  (Explained(m) => Explained(m)') /\ (Accountable(m) => Accountable(m)')
<1>1. faults \subseteq faults'
  BY DEF Next, HandleMessage, Deliver, CheckProcessed, HandlerSucceeds, HandlerFails, MarkProcessed,
     RouteToDLQ, Ack, Nak, Term, Crash, AckWaitExpires, Fault, vars
<1>2. dlq \subseteq dlq'
  BY DEF Next, HandleMessage, Deliver, CheckProcessed, HandlerSucceeds, HandlerFails, MarkProcessed,
     RouteToDLQ, Ack, Nak, Term, Crash, AckWaitExpires, vars
<1>3. effects[m] >= 1 => effects'[m] >= 1
  BY DEF TypeOK, Next, HandleMessage, Deliver, CheckProcessed, HandlerSucceeds, HandlerFails,
     MarkProcessed, RouteToDLQ, Ack, Nak, Term, Crash, AckWaitExpires, vars
<1> QED
  BY <1>1, <1>2, <1>3 DEF Explained, Accountable

\* A fault that may cost the event explains it when it hits the last delivery.
LEMMA FaultExplains ==
    ASSUME NEW r \in Replicas, NEW k \in {"store", "crash", "timeout", "dlq"},
           Fault(k, r), dn[r] = MaxRetries + 1
    PROVE  \E f \in faults' : /\ f.msg = msg[r] /\ f.dn = MaxRetries + 1
                             /\ f.kind \in {"store", "crash", "timeout", "dlq"}
<1> DEFINE g == [kind |-> k, msg |-> msg[r], dn |-> dn[r]]
<1>1. g \in faults'
  BY DEF Fault
<1>2. g.msg = msg[r] /\ g.dn = MaxRetries + 1 /\ g.kind = k
  OBVIOUS
<1> QED
  BY <1>1, <1>2

\* Every action preserves the invariant under the timeout rule: a last delivery
\* ends in a mark, a dead letter or one of the faults above.
LEMMA LossStep ==
    ASSUME MsgTimeout < AckWait, TimelyInv, LossInv, [Next]_vars
    PROVE  LossInv'
<1> USE NumbersAssumption, SetsAssumption
    DEF LossInv, HoldsDelivery, Working, TypeOK, Settled, Steps, server, local, Goto
<1>0. TypeOK /\ HoldsDelivery /\ MarkedMeansHandled /\ SingleHandler /\ ReadyHasDelivery
  BY DEF TimelyInv, BaseInv
<1>a. \A m \in Msgs : (Explained(m) => Explained(m)') /\ (Accountable(m) => Accountable(m)')
  BY <1>0, AccountableStays
<1>b. \A m \in Msgs : Explained(m)' => Accountable(m)'
  BY DEF Accountable
<1>1. ASSUME NEW r \in Replicas, NEW m \in Msgs, Deliver(r, m) PROVE LossInv'
  BY <1>0, <1>1, <1>a DEF Deliver
<1>2. ASSUME NEW r \in Replicas, CheckProcessed(r) PROVE LossInv'
  <2>1. Fault("store", r) /\ dn[r] = MaxRetries + 1 => Explained(msg[r])'
    BY <1>2, FaultExplains DEF CheckProcessed, Explained
  <2> QED
    BY <1>0, <1>2, <1>a, <1>b, <2>1 DEF CheckProcessed
<1>3. ASSUME NEW r \in Replicas, HandlerSucceeds(r) PROVE LossInv'
  BY <1>0, <1>3, <1>a DEF HandlerSucceeds
<1>4. ASSUME NEW r \in Replicas, HandlerFails(r) PROVE LossInv'
  <2>1. Fault("timeout", r) /\ dn[r] = MaxRetries + 1 => Explained(msg[r])'
    BY <1>4, FaultExplains DEF HandlerFails, Explained
  <2> QED
    BY <1>0, <1>4, <1>a, <1>b, <2>1 DEF HandlerFails, HandleFailure
<1>5. ASSUME NEW r \in Replicas, MarkProcessed(r) PROVE LossInv'
  <2>1. Accountable(msg[r])
    BY <1>0, <1>5 DEF MarkProcessed, MarkedMeansHandled, Accountable
  <2> QED
    BY <1>0, <1>5, <1>a, <2>1 DEF MarkProcessed
<1>6. ASSUME NEW r \in Replicas, RouteToDLQ(r) PROVE LossInv'
  <2>1. Fault("dlq", r) => Explained(msg[r])'
    BY <1>6, FaultExplains DEF RouteToDLQ, Explained, TimelyInv, DeadIsOver
  <2>2. msg[r] \notin Corrupt => Accountable(msg[r])'
    BY <1>0, <1>6, <1>a, <1>b, <2>1 DEF RouteToDLQ, Accountable
  <2> QED
    BY <1>0, <1>6, <1>a, <2>2 DEF RouteToDLQ
<1>7. ASSUME NEW r \in Replicas, Ack(r) PROVE LossInv'
  <2>1. Accountable(msg[r])
    BY <1>0, <1>7 DEF Ack, MarkedMeansHandled, Accountable
  <2> QED
    BY <1>0, <1>7, <1>a, <2>1 DEF Ack
<1>8. ASSUME NEW r \in Replicas, Nak(r) PROVE LossInv'
  BY <1>0, <1>8, <1>a DEF Nak, Redeliver, MaxDeliver
<1>9. ASSUME NEW r \in Replicas, Term(r) PROVE LossInv'
  BY <1>0, <1>9, <1>a DEF Term
<1>10. ASSUME NEW r \in Replicas, Crash(r) PROVE LossInv'
  <2>1. dn[r] = MaxRetries + 1 => Explained(msg[r])'
    BY <1>10, FaultExplains DEF Crash, Explained
  <2> QED
    BY <1>0, <1>10, <1>a, <1>b, <2>1 DEF Crash
<1>11. ASSUME NEW m \in Msgs, AckWaitExpires(m) PROVE LossInv'
  BY <1>0, <1>11, <1>a DEF AckWaitExpires, AnsweredInTime, Redeliver, MaxDeliver
<1>12. CASE UNCHANGED vars
  BY <1>0, <1>12, <1>a DEF vars
<1> QED
  BY <1>1, <1>2, <1>3, <1>4, <1>5, <1>6, <1>7, <1>8, <1>9, <1>10, <1>11, <1>12 DEF Next, HandleMessage

\* With the message timeout below AckWait, an event is lost without a trace only by
\* a store error, a crash, an expired context or a DLQ error on its last delivery.
THEOREM LossesAreExplained == ASSUME MsgTimeout < AckWait PROVE Spec => []LossIsExplained
<1>1. TimelyInv /\ LossInv /\ [Next]_vars => LossInv'
  BY LossStep
<1>2. TimelyInv /\ LossInv => LossIsExplained
  BY DEF LossInv, LossIsExplained, Accountable, Explained, MaxDeliver, TimelyInv, BaseInv, TypeOK
<1> QED
  BY Timely, LossInit, <1>1, <1>2, PTL DEF Spec

\* Whatever fails, an event that is settled was handled, dead-lettered unhandled, or
\* lost to a fault on its last delivery.
THEOREM SettlementIsHonest == ASSUME MsgTimeout < AckWait PROVE Spec => []SettledHonestly
<1>1. AckedMeansHandled /\ DLQIsLastResort /\ LossIsExplained => SettledHonestly
  BY DEF SettledHonestly
<1> QED
  BY AcksAreHonest, DeadLettersAreUnhandled, LossesAreExplained, <1>1, PTL

-----------------------------------------------------------------------------
(* FeatureStore: the invariant *)

\* The events of L in lo..hi that carry a value of e, and the latest of them.
ValuesIn(L, e, lo, hi) == {i \in lo..hi : L[i].type = "value" /\ L[i].entity = e}
LatestIn(L, e, lo, hi) == IF ValuesIn(L, e, lo, hi) = {} THEN 0 ELSE Max(ValuesIn(L, e, lo, hi))

EventRec ==
    [type : {"defined", "deleted", "value"}, entity : Entities \cup {"none"}, time : Times \cup {0, NowTime},
     key : Keys \cup {NoKey}, pos : Nat, schema : Nat]
Places == {"load", "lookup", "insert", "put", "publish", "members", "purge", "fill", "offline"}
CallRec == [pc : Places, req : Requests, first : Nat, last : Nat, members : SUBSET Entities]

\* What each place of a command goes with.
PlaceOK(w, len) ==
    /\ w.first <= len /\ w.last <= len
    /\ w.pc \in {"lookup", "insert"} => w.req.op \in {"write", "define", "delete"}
    /\ w.pc \in {"put", "publish"} => w.req.op = "write" /\ w.first >= 1
    /\ w.pc \in {"members", "purge"} => w.req.op \in {"rebuild", "delete"}
    /\ w.pc \in {"fill", "offline"} => w.req.op = "rebuild"

LogOK ==
    /\ log \in Seq(EventRec) /\ Len(log) >= 1
    /\ \A i \in 1..Len(log) :
          log[i].schema <= i /\ (log[i].type = "value" => log[i].time \in Times)

StoreTypeOK ==
    /\ LogOK
    /\ ranges \subseteq [key : Keys, first : Nat, last : Nat]
    /\ \A r \in ranges : 1 <= r.first /\ r.first <= Len(log) /\ r.last <= Len(log)
    /\ online \in [Entities -> Nat] /\ index \subseteq Entities /\ offline \in [Entities -> Nat]
    /\ seen \subseteq Keys /\ pubs \in [Keys -> Nat]
    /\ call \in [Callers -> CallRec \cup {Idle}]
    /\ \A c \in Callers : call[c] # Idle => PlaceOK(call[c], Len(log))
    /\ dirty \in BOOLEAN /\ raced \in BOOLEAN

\* Has looked its key up, and not returned.
PastLookup(c) == call[c].pc \in {"insert", "put", "publish"}

\* A key without a range has no events.
RangedKeys == \A k \in Keys : (\A r \in ranges : r.key # k) => \A i \in 1..Len(log) : log[i].key # k
\* The deduper remembers what was published.
PubsOK == \A k \in Keys : pubs[k] = IF k \in seen THEN 1 ELSE 0
\* Without a race one command at a time is past its lookup of a key, and what it found
\* still holds when it inserts.
OneAtATime ==
    /\ \A i, j \in 1..Len(log) :
          log[i].key \in Keys /\ log[i].key = log[j].key /\ log[i].pos = 1 /\ log[j].pos = 1 => i = j
    /\ \A c, d \in Callers :
          PastLookup(c) /\ PastLookup(d) /\ call[c].req.key \in Keys
          /\ call[c].req.key = call[d].req.key => c = d
    /\ \A c \in Callers : call[c].pc = "insert" /\ call[c].req.key \in Keys =>
          \A r \in ranges : r.key # call[c].req.key
KeyInv == RangedKeys /\ PubsOK /\ (~raced => OneAtATime)

Rebuilding(c) == call[c].pc \in {"members", "purge", "fill"} /\ call[c].req.op = "rebuild"

\* A put that will write the latest vector of e.
Putting(c, e) ==
    /\ call[c].pc = "put"
    /\ ValuesIn(log, e, call[c].first, call[c].last) # {}
    /\ ValuesIn(log, e, call[c].last + 1, Len(log)) = {}

\* Whatever the online view lacks has a command on its way to set it right.
LiveOK ==
    \A e \in Entities :
        /\ \/ online[e] = LatestIn(log, e, 1, Len(log))
           \/ \E c \in Callers : Rebuilding(c) \/ Putting(c, e)
        /\ online[e] # 0 => e \in index \/ \E c \in Callers : call[c].pc = "fill"

\* Whatever is left of a deleted view is about to be purged, by everyone at it.
DeletedOK ==
    \A e \in Entities :
        \/ online[e] = 0
        \/ /\ e \in index /\ \A c \in Callers : call[c].pc = "purge" => e \in call[c].members
           /\ \E c \in Callers : call[c].pc \in {"members", "purge"}

OnlineInv ==
    /\ \A e \in Entities : online[e] # 0 => online[e] \in ValuesIn(log, e, 1, Len(log))
    /\ \A c \in Callers :
          call[c].pc \in {"members", "purge"} /\ call[c].req.op = "delete" => Deleted
    /\ ~dirty =>
        /\ \A c \in Callers : Rebuilding(c) => call[c].last = Len(log)
        /\ ~Deleted => LiveOK
        /\ Deleted => DeletedOK

OfflineInv ==
    \E p \in 0..Len(log) : offline = [e \in Entities |-> LatestIn(log, e, 1, p)]

-----------------------------------------------------------------------------
(* FeatureStore: greatest elements *)

\* Every nonempty set of naturals has a least element.
LEMMA LeastElement ==
    ASSUME NEW T \in SUBSET Nat, T # {}
    PROVE  \E x \in T : \A y \in T : x <= y
<1> DEFINE R == OpToRel(<, Nat)
<1>1. IsWellFoundedOn(R, Nat)
  BY NatLessThanWellFounded, Zenon
<1>2. \A x, y \in Nat : x < y => <<x, y>> \in R
  BY DEF OpToRel
<1> HIDE DEF R
<1>3. PICK x \in T : \A y \in T : ~(<<y, x>> \in R)
  BY <1>1, WFMin
<1>4. ASSUME NEW y \in T
      PROVE  x <= y
  <2>1. x \in Nat /\ y \in Nat
    OBVIOUS
  <2>2. ~(y < x)
    BY <1>2, <1>3, <2>1
  <2> QED
    BY <2>1, <2>2
<1> QED
  BY <1>4

\* Induction, over a set: an operator parameter is beyond the provers.
LEMMA SetInduction ==
    ASSUME NEW S \in SUBSET Nat, 0 \in S, \A x \in S : x + 1 \in S
    PROVE  \A x \in Nat : x \in S
<1> DEFINE T == Nat \ S
<1> SUFFICES ASSUME T # {} PROVE FALSE
  OBVIOUS
<1>1. PICK x \in T : \A y \in T : x <= y
  BY LeastElement
<1>2. x \in Nat /\ x # 0 /\ x - 1 \in Nat
  OBVIOUS
<1>3. x - 1 \in S
  BY <1>1, <1>2
<1> QED
  BY <1>2, <1>3

\* Max is a maximum of a nonempty bounded set of naturals.
LEMMA MaxBounded ==
    ASSUME NEW S \in SUBSET Nat, S # {}, NEW b \in Nat, \A x \in S : x <= b
    PROVE  Max(S) \in S /\ \A y \in S : y <= Max(S)
<1> DEFINE T == {z \in Nat : \E x \in S : z = b - x}
<1>1. \A x \in S : x \in Nat /\ x <= b
  OBVIOUS
<1>2. \A x \in S : b - x \in T
  BY <1>1
<1>3. T \in SUBSET Nat /\ T # {}
  BY <1>2
<1>4. \A z \in T : \E x \in S : z = b - x
  OBVIOUS
<1> HIDE DEF T
<1>5. PICK t \in T : \A u \in T : t <= u
  BY <1>3, LeastElement
<1>6. PICK x \in S : t = b - x
  BY <1>4
<1>7. ASSUME NEW y \in S
      PROVE  x >= y
  <2>1. x \in Nat /\ y \in Nat
    BY <1>1
  <2>2. b - x <= b - y
    BY <1>2, <1>5, <1>6
  <2> QED
    BY <2>1, <2>2
<1>8. Max(S) \in S /\ \A y \in S : Max(S) >= y
  BY <1>7 DEF Max
<1> QED
  BY <1>1, <1>8

\* What the latest-per-entity fold returns.
LEMMA LatestFacts ==
    ASSUME NEW L, NEW e, NEW lo \in Nat, NEW hi \in Nat
    PROVE  /\ ValuesIn(L, e, lo, hi) \in SUBSET (lo..hi)
           /\ ValuesIn(L, e, lo, hi) = {} => LatestIn(L, e, lo, hi) = 0
           /\ ValuesIn(L, e, lo, hi) # {} =>
                 /\ LatestIn(L, e, lo, hi) \in ValuesIn(L, e, lo, hi)
                 /\ \A i \in ValuesIn(L, e, lo, hi) : i <= LatestIn(L, e, lo, hi)
           /\ LatestIn(L, e, lo, hi) \in Nat
<1> DEFINE V == ValuesIn(L, e, lo, hi)
<1>1. V \in SUBSET Nat /\ V \in SUBSET (lo..hi) /\ \A x \in V : x <= hi
  BY DEF ValuesIn
<1>2. V # {} => Max(V) \in V /\ \A i \in V : i <= Max(V)
  <2> HIDE DEF V
  <2> QED
    BY <1>1, MaxBounded
<1> HIDE DEF V
<1>3. LatestIn(L, e, lo, hi) = IF V = {} THEN 0 ELSE Max(V)
  BY DEF LatestIn, V
<1> QED
  BY <1>1, <1>2, <1>3 DEF V

\* The greatest event is the latest.
LEMMA LatestIs ==
    ASSUME NEW L, NEW e, NEW lo \in Nat, NEW hi \in Nat, NEW x \in ValuesIn(L, e, lo, hi),
           \A i \in ValuesIn(L, e, lo, hi) : i <= x
    PROVE  LatestIn(L, e, lo, hi) = x
<1>1. LatestIn(L, e, lo, hi) \in ValuesIn(L, e, lo, hi) /\ x <= LatestIn(L, e, lo, hi)
  BY LatestFacts
<1>2. ValuesIn(L, e, lo, hi) \in SUBSET Nat
  BY DEF ValuesIn
<1> QED
  BY <1>1, <1>2

\* What follows a range does not matter to its fold, nor what a longer log adds.
LEMMA LatestOfPrefix ==
    ASSUME NEW L, NEW M, NEW len \in Nat, \A i \in 1..len : M[i] = L[i],
           NEW e, NEW lo \in Nat \ {0}, NEW hi \in 0..len
    PROVE  /\ ValuesIn(M, e, lo, hi) = ValuesIn(L, e, lo, hi)
           /\ LatestIn(M, e, lo, hi) = LatestIn(L, e, lo, hi)
<1>1. ValuesIn(M, e, lo, hi) = ValuesIn(L, e, lo, hi)
  BY DEF ValuesIn
<1> QED
  BY <1>1 DEF LatestIn

-----------------------------------------------------------------------------
(* FeatureStore: what each step does *)

\* The requests clients make.
LEMMA RequestFacts ==
    ASSUME NEW r \in Requests
    PROVE  /\ r.op \in {"write", "define", "delete", "rebuild"} /\ r.key \in Keys \cup {NoKey}
           /\ r.op = "write" => /\ r.time \in Times /\ r.rows \in Seq(Entities)
                                /\ Len(r.rows) \in {1, 2} /\ DOMAIN r.rows = 1..Len(r.rows)
                                /\ \A i \in 1..Len(r.rows) : r.rows[i] \in Entities
           /\ r.op # "write" => r.key = NoKey /\ r.time = NowTime
<1>1. CASE r \in {Request("write", b, t, k) : b \in Batches, t \in Times, k \in Keys \cup {NoKey}}
  <2>1. PICK b \in Batches, t \in Times, k \in Keys \cup {NoKey} : r = Request("write", b, t, k)
    BY <1>1
  <2>2. r.op = "write" /\ r.rows = b /\ r.time = t /\ r.key = k
    BY <2>1 DEF Request
  <2>3. /\ b \in Seq(Entities) /\ Len(b) \in {1, 2} /\ DOMAIN b = 1..Len(b)
        /\ \A i \in 1..Len(b) : b[i] \in Entities
    <3>1. ASSUME NEW e \in Entities, b = <<e>>
          PROVE  /\ b \in Seq(Entities) /\ Len(b) \in {1, 2} /\ DOMAIN b = 1..Len(b)
                 /\ \A i \in 1..Len(b) : b[i] \in Entities
      <4>1. b \in Seq(Entities) /\ Len(b) = 1
        BY <3>1
      <4> QED
        BY <4>1, LenProperties, ElementOfSeq
    <3>2. ASSUME NEW e \in Entities, NEW f \in Entities, b = <<e, f>>
          PROVE  /\ b \in Seq(Entities) /\ Len(b) \in {1, 2} /\ DOMAIN b = 1..Len(b)
                 /\ \A i \in 1..Len(b) : b[i] \in Entities
      <4>1. b \in Seq(Entities) /\ Len(b) = 2
        BY <3>2
      <4> QED
        BY <4>1, LenProperties, ElementOfSeq
    <3> QED
      BY <3>1, <3>2 DEF Batches
  <2> QED
    BY <2>2, <2>3
<1>2. CASE r \in {Request(op, << >>, NowTime, NoKey) : op \in {"define", "delete", "rebuild"}}
  BY <1>2 DEF Request
<1> QED
  BY <1>1, <1>2 DEF Requests

\* A command that is not idle is a record with all its fields.
LEMMA CallFacts ==
    ASSUME StoreTypeOK, NEW c \in Callers
    PROVE  /\ call[c].pc = "idle" <=> call[c] = Idle
           /\ call[c] # Idle =>
                 /\ call[c] \in CallRec /\ PlaceOK(call[c], Len(log))
                 /\ call[c].pc \in Places /\ call[c].req \in Requests
                 /\ call[c].first \in Nat /\ call[c].last \in Nat /\ call[c].members \in SUBSET Entities
  BY DEF StoreTypeOK, Idle, CallRec, Places

\* The log is a sequence of events.
LEMMA LogFacts ==
    ASSUME LogOK
    PROVE  /\ Len(log) \in Nat /\ Len(log) >= 1 /\ DOMAIN log = 1..Len(log)
           /\ \A i \in 1..Len(log) : /\ log[i] \in EventRec /\ log[i].key \in Keys \cup {NoKey}
                                     /\ log[i].schema \in Nat /\ log[i].schema <= i
<1>1. log \in Seq(EventRec) /\ Len(log) >= 1
  BY DEF LogOK
<1>2. Len(log) \in Nat /\ DOMAIN log = 1..Len(log) /\ \A i \in 1..Len(log) : log[i] \in EventRec
  BY <1>1, LenProperties, ElementOfSeq
<1>3. \A i \in 1..Len(log) : log[i].key \in Keys \cup {NoKey} /\ log[i].schema \in Nat
  BY <1>2 DEF EventRec
<1>4. \A i \in 1..Len(log) : log[i].schema <= i
  BY DEF LogOK
<1> QED
  BY <1>1, <1>2, <1>3, <1>4

\* The number of the last definition is at most the length of the log.
LEMMA SchemaBound == ASSUME LogOK PROVE Schema \in Nat /\ Schema <= Len(log)
<1> DEFINE S == {log[i].schema : i \in 1..Len(log)}
<1>1. Len(log) \in Nat /\ S \in SUBSET Nat /\ S # {} /\ \A x \in S : x <= Len(log)
  BY LogFacts
<1>2. Schema = Max(S)
  BY DEF Schema
<1> HIDE DEF S
<1>3. Max(S) \in S
  BY <1>1, MaxBounded
<1> QED
  BY <1>1, <1>2, <1>3

\* What an append adds: events of one type, with the request's key, numbered from 1.
LEMMA NewEventsFacts ==
    ASSUME StoreTypeOK, NEW c \in Callers, call[c].pc = "insert"
    PROVE  /\ NewEvents(c) \in Seq(EventRec) /\ Len(NewEvents(c)) \in {1, 2}
           /\ \A i \in 1..Len(NewEvents(c)) :
                 /\ NewEvents(c)[i].key = call[c].req.key /\ NewEvents(c)[i].pos = i
                 /\ NewEvents(c)[i].schema <= Len(log) + 1
                 /\ NewEvents(c)[i].type = CASE call[c].req.op = "write"  -> "value"
                                             [] call[c].req.op = "define" -> "defined"
                                             [] call[c].req.op = "delete" -> "deleted"
                 /\ NewEvents(c)[i].type = "value" => NewEvents(c)[i].time \in Times
<1> DEFINE r == call[c].req
           E == NewEvents(c)
           Ev(type, e, pos) == [type |-> type, entity |-> e, time |-> r.time, key |-> r.key, pos |-> pos,
                                schema |-> IF type = "defined" THEN call[c].first + 1 ELSE 0]
<1>1. /\ r \in Requests /\ r.op \in {"write", "define", "delete"} /\ call[c].first \in Nat
      /\ call[c].first <= Len(log) /\ Len(log) \in Nat
  BY CallFacts, LogFacts DEF PlaceOK, Idle, StoreTypeOK
<1>2. r.key \in Keys \cup {NoKey} /\ r.time \in Times \cup {0, NowTime}
  BY <1>1, RequestFacts
<1>3. \A t \in {"defined", "deleted", "value"}, e \in Entities \cup {"none"}, p \in Nat :
          Ev(t, e, p) \in EventRec
  BY <1>1, <1>2 DEF EventRec
<1>4. CASE r.op = "write"
  <2>1. /\ r.time \in Times /\ Len(r.rows) \in {1, 2} /\ DOMAIN r.rows = 1..Len(r.rows)
        /\ \A i \in 1..Len(r.rows) : r.rows[i] \in Entities
    BY <1>1, <1>4, RequestFacts
  <2>2. E = [i \in 1..Len(r.rows) |-> Ev("value", r.rows[i], i)]
    BY <1>4, <2>1 DEF NewEvents
  <2>3. E \in Seq(EventRec) /\ Len(E) = Len(r.rows)
    BY <1>3, <2>1, <2>2
  <2> QED
    BY <1>1, <1>4, <2>1, <2>2, <2>3
<1>5. CASE r.op = "define"
  <2>1. E = <<Ev("defined", "none", 1)>>
    BY <1>5 DEF NewEvents
  <2>2. Ev("defined", "none", 1) \in EventRec
    BY <1>3
  <2> QED
    BY <1>1, <1>5, <2>1, <2>2
<1>6. CASE r.op = "delete"
  <2>1. E = <<Ev("deleted", "none", 1)>>
    BY <1>6 DEF NewEvents
  <2>2. Ev("deleted", "none", 1) \in EventRec
    BY <1>3
  <2> QED
    BY <1>1, <1>6, <2>1, <2>2
<1> QED
  BY <1>1, <1>4, <1>5, <1>6

CallFields == {"pc", "req", "first", "last", "members"}

\* A command moves on, or returns, and the others stay where they are.
Stays(c) ==
    /\ call' \in [Callers -> CallRec \cup {Idle}]
    /\ \A d \in Callers \ {c} : call'[d] = call[d]
Moved(c, p, f, l, M) ==
    /\ Stays(c) /\ call'[c] \in CallRec /\ call'[c] # Idle /\ call'[c].pc = p
    /\ call'[c].req = call[c].req /\ call'[c].first = f /\ call'[c].last = l /\ call'[c].members = M
Returned(c) == Stays(c) /\ call'[c] = Idle

LEMMA MovedFacts ==
    ASSUME StoreTypeOK, NEW c \in Callers, call[c] # Idle, NEW p \in Places, NEW f \in Nat, NEW l \in Nat,
           NEW M \in SUBSET Entities, NEW w, w = [a \in CallFields |-> w[a]],
           w.pc = p, w.req = call[c].req, w.first = f, w.last = l, w.members = M,
           call' = [call EXCEPT ![c] = w]
    PROVE  Moved(c, p, f, l, M)
<1>1. w.req \in Requests
  BY CallFacts
<1>2. w \in CallRec
  BY <1>1 DEF CallRec, CallFields
<1>3. w # Idle
  BY DEF Idle, Places
<1>4. call \in [Callers -> CallRec \cup {Idle}] /\ call' = [call EXCEPT ![c] = w]
  BY DEF StoreTypeOK
<1>5. call'[c] = w /\ Stays(c)
  BY <1>2, <1>4 DEF Stays
<1> QED
  BY <1>2, <1>3, <1>5 DEF Moved

LEMMA CallShape ==
    ASSUME NEW u \in CallRec
    PROVE  /\ u = [a \in CallFields |-> u[a]] /\ DOMAIN u = CallFields
           /\ "pc" \in CallFields /\ "req" \in CallFields /\ "first" \in CallFields
           /\ "last" \in CallFields /\ "members" \in CallFields
  BY DEF CallRec, CallFields

LEMMA ProceedMoves ==
    ASSUME StoreTypeOK, NEW c \in Callers, call[c] # Idle, NEW p \in Places, Proceed(c, p)
    PROVE  Moved(c, p, call[c].first, call[c].last, call[c].members)
<1> PICK u \in CallRec : u = call[c]
  BY CallFacts
<1> PICK w : w = [u EXCEPT !.pc = p]
  OBVIOUS
<1>1. /\ w = [a \in CallFields |-> w[a]] /\ w.pc = p /\ w.req = u.req
      /\ w.first = u.first /\ w.last = u.last /\ w.members = u.members
  BY CallShape
<1>2. call' = [call EXCEPT ![c] = w]
  BY DEF Proceed
<1> QED
  BY <1>1, <1>2, CallFacts, MovedFacts

LEMMA ReturnReturns ==
    ASSUME StoreTypeOK, NEW c \in Callers, Return(c)
    PROVE  Returned(c)
<1>1. call \in [Callers -> CallRec \cup {Idle}]
  BY DEF StoreTypeOK
<1> QED
  BY <1>1 DEF Return, Returned, Stays

LEMMA LoadStep ==
    ASSUME StoreTypeOK, NEW c \in Callers, Load(c)
    PROVE  /\ call[c] # Idle /\ call[c].pc = "load"
           /\ UNCHANGED <<log, ranges, views, seen, pubs, dirty, raced>>
           /\ \/ call[c].req.op = "rebuild" /\ Moved(c, "members", call[c].first, Len(log), call[c].members)
              \/ call[c].req.op = "define" /\ Moved(c, "lookup", Schema, call[c].last, call[c].members)
              \/ /\ call[c].req.op \in {"write", "delete"}
                 /\ Moved(c, "lookup", call[c].first, call[c].last, call[c].members)
              \/ Returned(c)
<1>1. call[c].pc = "load" /\ call[c] # Idle
  BY DEF Load, At, Idle
<1>2. UNCHANGED <<log, ranges, views, seen, pubs, dirty, raced>>
  BY DEF Load
<1>3. call[c].req \in Requests /\ call[c].first \in Nat /\ call[c].last \in Nat
      /\ call[c].members \in SUBSET Entities
  BY <1>1, CallFacts
<1>4. Schema \in Nat /\ Len(log) \in Nat
  BY SchemaBound, LogFacts DEF StoreTypeOK
<1>p. "members" \in Places /\ "lookup" \in Places
  BY DEF Places
<1> PICK w \in CallRec : w = call[c]
  BY <1>1, CallFacts
<1>5. CASE w.req.op = "rebuild"
  <2>1. call' = [call EXCEPT ![c].pc = "members", ![c].last = Len(log)]
    BY <1>5 DEF Load
  <2> PICK z : z = [w EXCEPT !.pc = "members", !.last = Len(log)]
    OBVIOUS
  <2>2. /\ z = [a \in CallFields |-> z[a]] /\ z.pc = "members" /\ z.req = w.req
        /\ z.first = w.first /\ z.last = Len(log) /\ z.members = w.members
    BY CallShape
  <2>3. call' = [call EXCEPT ![c] = z]
    BY <2>1, Zenon
  <2>4. Moved(c, "members", call[c].first, Len(log), call[c].members)
    BY <1>1, <1>3, <1>4, <1>p, <2>2, <2>3, MovedFacts
  <2> QED
    BY <1>1, <1>2, <1>5, <2>4
<1>6. CASE w.req.op = "define"
  <2>1. call' = [call EXCEPT ![c].pc = "lookup", ![c].first = Schema]
    BY <1>6 DEF Load
  <2> PICK z : z = [w EXCEPT !.pc = "lookup", !.first = Schema]
    OBVIOUS
  <2>2. /\ z = [a \in CallFields |-> z[a]] /\ z.pc = "lookup" /\ z.req = w.req
        /\ z.first = Schema /\ z.last = w.last /\ z.members = w.members
    BY CallShape
  <2>3. call' = [call EXCEPT ![c] = z]
    BY <2>1, Zenon
  <2>4. Moved(c, "lookup", Schema, call[c].last, call[c].members)
    BY <1>1, <1>3, <1>4, <1>p, <2>2, <2>3, MovedFacts
  <2> QED
    BY <1>1, <1>2, <1>6, <2>4
<1>7. CASE w.req.op \in {"write", "delete"}
  <2>1. Return(c) \/ Proceed(c, "lookup")
    BY <1>7 DEF Load
  <2> QED
    BY <1>1, <1>2, <1>7, <1>p, <2>1, ReturnReturns, ProceedMoves
<1> QED
  BY <1>3, <1>5, <1>6, <1>7, RequestFacts

LEMMA LookupStep ==
    ASSUME StoreTypeOK, NEW c \in Callers, Lookup(c)
    PROVE  /\ call[c] # Idle /\ call[c].pc = "lookup"
           /\ UNCHANGED <<log, ranges, views, seen, pubs, dirty>>
           /\ raced' = (raced \/ (/\ call[c].req.key # NoKey
                                  /\ \E d \in Callers \ {c} : call[d].pc # "idle" /\ call[d].req.key = call[c].req.key))
           /\ \/ /\ \A r \in ranges : r.key # call[c].req.key
                 /\ Moved(c, "insert", call[c].first, call[c].last, call[c].members)
              \/ \E r \in ranges : /\ r.key = call[c].req.key
                                   /\ Moved(c, "put", r.first, r.last, call[c].members)
<1>0. call[c].pc = "lookup"
  BY DEF Lookup, At
<1>1. call[c].pc = "lookup" /\ call[c] # Idle
  BY <1>0 DEF Idle
<1>p. "insert" \in Places /\ "put" \in Places
  BY DEF Places
<1>2. UNCHANGED <<log, ranges, views, seen, pubs, dirty>>
  BY DEF Lookup
<1>3. raced' = (raced \/ (/\ call[c].req.key # NoKey
                          /\ \E d \in Callers \ {c} : call[d].pc # "idle" /\ call[d].req.key = call[c].req.key))
  BY DEF Lookup
<1>4. CASE Hit(call[c].req.key) = {}
  <2>1. Proceed(c, "insert")
    BY <1>4 DEF Lookup
  <2>2. \A r \in ranges : r.key # call[c].req.key
    BY <1>4 DEF Hit, KeyRange
  <2> QED
    BY <1>1, <1>p, <1>2, <1>3, <2>1, <2>2, ProceedMoves
<1>5. CASE Hit(call[c].req.key) # {}
  <2>1. PICK r \in Hit(call[c].req.key) :
            call' = [call EXCEPT ![c].pc = "put", ![c].first = r.first, ![c].last = r.last]
    BY <1>5 DEF Lookup
  <2>2. r \in ranges /\ r.key = call[c].req.key
    BY DEF Hit, KeyRange
  <2>3. r.first \in Nat /\ r.last \in Nat
    BY <2>2 DEF StoreTypeOK
  <2> PICK u \in CallRec : u = call[c] /\ u.members \in SUBSET Entities
    BY <1>1, CallFacts
  <2> PICK z : z = [u EXCEPT !.pc = "put", !.first = r.first, !.last = r.last]
    OBVIOUS
  <2>4. /\ z = [a \in CallFields |-> z[a]] /\ z.pc = "put" /\ z.req = u.req
        /\ z.first = r.first /\ z.last = r.last /\ z.members = u.members
    BY CallShape
  <2>5. call' = [call EXCEPT ![c] = z]
    BY <2>1, Zenon
  <2>6. Moved(c, "put", r.first, r.last, call[c].members)
    BY <1>1, <1>p, <2>3, <2>4, <2>5, MovedFacts
  <2> QED
    BY <1>1, <1>2, <1>3, <2>2, <2>6
<1> QED
  BY <1>4, <1>5

\* An append keeps what there is, and adds events of the request's key.
LEMMA InsertStep ==
    ASSUME StoreTypeOK, NEW c \in Callers, Insert(c)
    PROVE  /\ call[c] # Idle /\ call[c].pc = "insert" /\ call[c].req.op \in {"write", "define", "delete"}
           /\ UNCHANGED <<views, seen, pubs, raced>>
           /\ LogOK' /\ Len(log') \in {Len(log) + 1, Len(log) + 2}
           /\ \A i \in 1..Len(log) : log'[i] = log[i]
           /\ \A i \in (Len(log) + 1)..Len(log') :
                 /\ log'[i].key = call[c].req.key /\ log'[i].pos = i - Len(log)
                 /\ call[c].req.op = "write" => log'[i].type = "value"
                 /\ call[c].req.op = "define" => log'[i].type = "defined"
                 /\ call[c].req.op = "delete" => log'[i].type = "deleted"
           /\ ranges' = IF call[c].req.key = NoKey \/ KeyRange(call[c].req.key) # {} THEN ranges
                        ELSE ranges \cup {[key |-> call[c].req.key, first |-> Len(log) + 1, last |-> Len(log')]}
           /\ \/ /\ call[c].req.op = "write"
                 /\ Moved(c, "put", Len(log) + 1, Len(log'), call[c].members)
              \/ call[c].req.op = "define" /\ Returned(c)
              \/ /\ call[c].req.op = "delete"
                 /\ Moved(c, "members", call[c].first, call[c].last, call[c].members)
           /\ dirty' = (\/ dirty \/ \E d \in Callers \ {c} : Exposed(d)
                        \/ call[c].req.op = "write" /\ Deleted)
<1> DEFINE E == NewEvents(c)
<1>0. call[c].pc = "insert"
  BY DEF Insert, At
<1>1. call[c].pc = "insert" /\ call[c] # Idle
  BY <1>0 DEF Idle
<1>2. call[c].req.op \in {"write", "define", "delete"} /\ call[c].req \in Requests
  BY <1>1, CallFacts DEF PlaceOK
<1>3. log \in Seq(EventRec) /\ Len(log) \in Nat /\ Len(log) >= 1
  BY LogFacts DEF StoreTypeOK, LogOK
<1>4. /\ E \in Seq(EventRec) /\ Len(E) \in {1, 2}
      /\ \A i \in 1..Len(E) :
            /\ E[i].key = call[c].req.key /\ E[i].pos = i /\ E[i].schema <= Len(log) + 1
            /\ E[i].type = CASE call[c].req.op = "write"  -> "value"
                              [] call[c].req.op = "define" -> "defined"
                              [] call[c].req.op = "delete" -> "deleted"
            /\ E[i].type = "value" => E[i].time \in Times
  BY <1>1, NewEventsFacts
<1>5. log' = log \o E
  BY DEF Insert
<1> HIDE DEF E
<1>6. /\ log' \in Seq(EventRec) /\ Len(log') = Len(log) + Len(E)
      /\ \A i \in 1..Len(log') : log'[i] = IF i <= Len(log) THEN log[i] ELSE E[i - Len(log)]
  BY <1>3, <1>4, <1>5, ConcatProperties
<1>7. \A i \in 1..Len(log) : log'[i] = log[i]
  BY <1>3, <1>4, <1>6
<1>8. ASSUME NEW i \in (Len(log) + 1)..Len(log')
      PROVE  i - Len(log) \in 1..Len(E) /\ log'[i] = E[i - Len(log)]
  BY <1>3, <1>4, <1>6
<1>9. LogOK'
  <2>1. ASSUME NEW i \in 1..Len(log')
        PROVE  log'[i].schema <= i /\ (log'[i].type = "value" => log'[i].time \in Times)
    <3>1. CASE i <= Len(log)
      BY <1>3, <1>7, <3>1 DEF StoreTypeOK, LogOK
    <3>2. CASE i > Len(log)
      <4>1. i \in (Len(log) + 1)..Len(log')
        BY <1>3, <1>4, <1>6, <3>2
      <4>2. i - Len(log) \in 1..Len(E) /\ log'[i] = E[i - Len(log)]
        BY <1>8, <4>1
      <4>3. log'[i].schema <= Len(log) + 1 /\ (log'[i].type = "value" => log'[i].time \in Times)
        BY <1>4, <4>2
      <4>4. log'[i] \in EventRec
        BY <1>6, ElementOfSeq
      <4>5. log'[i].schema \in Nat
        BY <4>4 DEF EventRec
      <4> QED
        BY <1>3, <3>2, <4>3, <4>5
    <3> QED
      BY <1>3, <1>4, <1>6, <3>1, <3>2
  <2>2. Len(log') >= 1
    BY <1>3, <1>4, <1>6
  <2> QED
    BY <1>6, <2>1, <2>2 DEF LogOK
<1>10. ASSUME NEW i \in (Len(log) + 1)..Len(log')
       PROVE  /\ log'[i].key = call[c].req.key /\ log'[i].pos = i - Len(log)
              /\ call[c].req.op = "write" => log'[i].type = "value"
              /\ call[c].req.op = "define" => log'[i].type = "defined"
              /\ call[c].req.op = "delete" => log'[i].type = "deleted"
  BY <1>4, <1>8
<1>11. Len(log') \in {Len(log) + 1, Len(log) + 2} /\ Len(log) + 1 \in Nat /\ Len(log') \in Nat
  <2>1. Len(E) = 1 \/ Len(E) = 2
    BY <1>4
  <2>2. Len(log') = Len(log) + Len(E)
    BY <1>6
  <2>3. Len(log) \in Nat
    BY <1>3
  <2>4. CASE Len(E) = 1
    BY <2>2, <2>3, <2>4
  <2>5. CASE Len(E) = 2
    BY <2>2, <2>3, <2>5
  <2> QED
    BY <2>1, <2>4, <2>5
<1>p. "put" \in Places /\ "members" \in Places
  BY DEF Places
<1>12. \/ /\ call[c].req.op = "write"
          /\ Moved(c, "put", Len(log) + 1, Len(log'), call[c].members)
       \/ call[c].req.op = "define" /\ Returned(c)
       \/ /\ call[c].req.op = "delete"
          /\ Moved(c, "members", call[c].first, call[c].last, call[c].members)
  <2>1. CASE call[c].req.op = "write"
    <3>1. call' = [call EXCEPT ![c].pc = "put", ![c].first = Len(log) + 1, ![c].last = Len(log')]
      BY <2>1 DEF Insert
    <3> PICK u \in CallRec : u = call[c] /\ u.members \in SUBSET Entities
      BY <1>1, CallFacts
    <3> PICK z : z = [u EXCEPT !.pc = "put", !.first = Len(log) + 1, !.last = Len(log')]
      OBVIOUS
    <3>2. /\ z = [a \in CallFields |-> z[a]] /\ z.pc = "put" /\ z.req = u.req
          /\ z.first = Len(log) + 1 /\ z.last = Len(log') /\ z.members = u.members
      BY CallShape
    <3>3. call' = [call EXCEPT ![c] = z]
      BY <3>1, Zenon
    <3>4. Moved(c, "put", Len(log) + 1, Len(log'), call[c].members)
      BY <1>1, <1>11, <1>p, <3>2, <3>3, MovedFacts
    <3> QED
      BY <2>1, <3>4
  <2>2. CASE call[c].req.op = "define"
    <3>1. Return(c)
      BY <2>2 DEF Insert
    <3> QED
      BY <2>2, <3>1, ReturnReturns
  <2>3. CASE call[c].req.op = "delete"
    <3>1. Proceed(c, "members")
      BY <2>3 DEF Insert
    <3> QED
      BY <1>1, <1>p, <2>3, <3>1, ProceedMoves
  <2> QED
    BY <1>2, <2>1, <2>2, <2>3
<1>13. UNCHANGED <<views, seen, pubs, raced>>
  BY DEF Insert
<1>14. ranges' = IF call[c].req.key = NoKey \/ KeyRange(call[c].req.key) # {} THEN ranges
                 ELSE ranges \cup {[key |-> call[c].req.key, first |-> Len(log) + 1, last |-> Len(log')]}
  BY DEF Insert
<1>15. dirty' = (\/ dirty \/ \E d \in Callers \ {c} : Exposed(d)
                 \/ call[c].req.op = "write" /\ Deleted)
  BY DEF Insert
<1> QED
  BY <1>1, <1>2, <1>7, <1>9, <1>10, <1>11, <1>12, <1>13, <1>14, <1>15

LEMMA PutStep ==
    ASSUME StoreTypeOK, NEW c \in Callers, Put(c)
    PROVE  /\ call[c] # Idle /\ call[c].pc = "put" /\ UNCHANGED <<log, ranges, offline, seen, pubs, raced>>
           /\ Fill(call[c].first, call[c].last)
           /\ Moved(c, "publish", call[c].first, call[c].last, call[c].members)
           /\ dirty' = (\/ dirty \/ Deleted \/ \E d \in Callers \ {c} : Exposed(d)
                        \/ \E e \in Entities : /\ Values(e, call[c].first, call[c].last) # {}
                                               /\ Values(e, call[c].last + 1, Len(log)) # {})
<1>1. call[c].pc = "put" /\ Proceed(c, "publish") /\ Fill(call[c].first, call[c].last)
  BY DEF Put, At
<1>2. call[c] # Idle /\ "publish" \in Places
  BY <1>1 DEF Idle, Places
<1>3. Moved(c, "publish", call[c].first, call[c].last, call[c].members)
  BY <1>1, <1>2, ProceedMoves
<1> QED
  BY <1>1, <1>2, <1>3 DEF Put

LEMMA MembersStep ==
    ASSUME StoreTypeOK, NEW c \in Callers, Members(c)
    PROVE  /\ call[c] # Idle /\ call[c].pc = "members" /\ UNCHANGED <<log, ranges, views, seen, pubs, raced>>
           /\ Moved(c, "purge", call[c].first, call[c].last, index)
           /\ dirty' = (dirty /\ ~(/\ call[c].req.op = "rebuild" /\ call[c].last = Len(log)
                                   /\ \A e \in Entities : online[e] # 0 => e \in index
                                   /\ \A d \in Callers \ {c} : ~Exposed(d)))
<1>0. call[c].pc = "members"
  BY DEF Members, At
<1>1. call[c].pc = "members" /\ call[c] # Idle /\ "purge" \in Places
  BY <1>0 DEF Idle, Places
<1>2. call' = [call EXCEPT ![c].pc = "purge", ![c].members = index]
  BY DEF Members
<1> PICK u \in CallRec : u = call[c] /\ u.first \in Nat /\ u.last \in Nat
  BY <1>1, CallFacts
<1> PICK z : z = [u EXCEPT !.pc = "purge", !.members = index]
  OBVIOUS
<1>3. /\ z = [a \in CallFields |-> z[a]] /\ z.pc = "purge" /\ z.req = u.req
      /\ z.first = u.first /\ z.last = u.last /\ z.members = index
  BY CallShape
<1>4. call' = [call EXCEPT ![c] = z]
  BY <1>2, Zenon
<1>5. index \in SUBSET Entities
  BY DEF StoreTypeOK
<1>6. Moved(c, "purge", call[c].first, call[c].last, index)
  BY <1>1, <1>3, <1>4, <1>5, MovedFacts
<1>7. UNCHANGED <<log, ranges, views, seen, pubs, raced>>
  BY DEF Members
<1>8. dirty' = (dirty /\ ~(/\ call[c].req.op = "rebuild" /\ call[c].last = Len(log)
                           /\ \A e \in Entities : online[e] # 0 => e \in index
                           /\ \A d \in Callers \ {c} : ~Exposed(d)))
  BY DEF Members
<1> QED
  BY <1>1, <1>6, <1>7, <1>8

LEMMA PurgeStep ==
    ASSUME StoreTypeOK, NEW c \in Callers, Purge(c)
    PROVE  /\ call[c] # Idle /\ call[c].pc = "purge"
           /\ UNCHANGED <<log, ranges, offline, seen, pubs, dirty, raced>>
           /\ online' = Purged(c) /\ index' = {}
           /\ \/ call[c].req.op = "delete" /\ Returned(c)
              \/ /\ call[c].req.op # "delete"
                 /\ Moved(c, "fill", call[c].first, call[c].last, call[c].members)
<1>1. call[c].pc = "purge" /\ UNCHANGED <<log, ranges, offline, seen, pubs, dirty, raced>>
      /\ online' = Purged(c) /\ index' = {}
      /\ IF call[c].req.op = "delete" THEN Return(c) ELSE Proceed(c, "fill")
  BY DEF Purge, At
<1>2. call[c] # Idle /\ "fill" \in Places
  BY <1>1 DEF Idle, Places
<1> QED
  BY <1>1, <1>2, ReturnReturns, ProceedMoves

LEMMA RebuildStep ==
    ASSUME StoreTypeOK, NEW c \in Callers, Rebuild(c)
    PROVE  /\ call[c] # Idle /\ call[c].pc = "fill"
           /\ UNCHANGED <<log, ranges, offline, seen, pubs, dirty, raced>>
           /\ IF IsDeleted(call[c].last) THEN UNCHANGED <<online, index>> ELSE Fill(1, call[c].last)
           /\ Moved(c, "offline", call[c].first, call[c].last, call[c].members)
<1>1. call[c].pc = "fill" /\ UNCHANGED <<log, ranges, offline, seen, pubs, dirty, raced>>
      /\ IF IsDeleted(call[c].last) THEN UNCHANGED <<online, index>> ELSE Fill(1, call[c].last)
      /\ Proceed(c, "offline")
  BY DEF Rebuild, At
<1>2. call[c] # Idle /\ "offline" \in Places
  BY <1>1 DEF Idle, Places
<1>3. Proceed(c, "offline")
  BY DEF Rebuild
<1>4. Moved(c, "offline", call[c].first, call[c].last, call[c].members)
  BY <1>2, <1>3, ProceedMoves
<1> QED
  BY <1>1, <1>2, <1>4, Zenon

LEMMA OfflineStep ==
    ASSUME StoreTypeOK, NEW c \in Callers, RebuildOffline(c)
    PROVE  /\ call[c] # Idle /\ call[c].pc = "offline"
           /\ UNCHANGED <<log, ranges, online, index, seen, pubs, dirty, raced>>
           /\ offline' = [e \in Entities |-> ProjectLatest(e, 1, call[c].last)] /\ Returned(c)
<1>1. call[c].pc = "offline" /\ UNCHANGED <<log, ranges, online, index, seen, pubs, dirty, raced>>
      /\ offline' = [e \in Entities |-> ProjectLatest(e, 1, call[c].last)] /\ Return(c)
  BY DEF RebuildOffline, At
<1>2. call[c] # Idle
  BY <1>1 DEF Idle
<1> QED
  BY <1>1, <1>2, ReturnReturns

LEMMA PublishStep ==
    ASSUME StoreTypeOK, NEW c \in Callers, Publish(c)
    PROVE  /\ call[c] # Idle /\ call[c].pc = "publish" /\ UNCHANGED <<log, ranges, views, dirty, raced>>
           /\ Returned(c)
           /\ pubs' = IF call[c].req.key \in Keys \ seen THEN [pubs EXCEPT ![call[c].req.key] = @ + 1] ELSE pubs
           /\ seen' = seen \cup ({call[c].req.key} \cap Keys)
<1>1. call[c].pc = "publish" /\ UNCHANGED <<log, ranges, views, dirty, raced>> /\ Return(c)
      /\ pubs' = (IF call[c].req.key \in Keys \ seen THEN [pubs EXCEPT ![call[c].req.key] = @ + 1] ELSE pubs)
      /\ seen' = seen \cup ({call[c].req.key} \cap Keys)
  BY DEF Publish, At
<1>2. call[c] # Idle
  BY <1>1 DEF Idle
<1> QED
  BY <1>1, <1>2, ReturnReturns

LEMMA BeginStep ==
    ASSUME StoreTypeOK, NEW c \in Callers, NEW r \in Requests, Begin(c, r)
    PROVE  /\ call[c] = Idle /\ UNCHANGED <<log, ranges, views, seen, pubs, dirty, raced>>
           /\ Stays(c) /\ call'[c] \in CallRec /\ call'[c] # Idle /\ call'[c].pc = "load"
           /\ call'[c].req = r /\ call'[c].first = 0 /\ call'[c].last = 0
<1> DEFINE w == [pc |-> "load", req |-> r, first |-> 0, last |-> 0, members |-> {}]
<1>1. call[c] = Idle /\ UNCHANGED <<log, ranges, views, seen, pubs, dirty, raced>>
      /\ call' = [call EXCEPT ![c] = w]
  BY CallFacts DEF Begin, At
<1>2. w \in CallRec /\ w.pc = "load" /\ w.req = r /\ w.first = 0 /\ w.last = 0
  BY DEF CallRec, Places
<1>3. w # Idle
  BY <1>2 DEF Idle
<1> HIDE DEF w
<1>4. call \in [Callers -> CallRec \cup {Idle}]
  BY DEF StoreTypeOK
<1>5. call'[c] = w /\ Stays(c)
  BY <1>1, <1>2, <1>4 DEF Stays
<1> QED
  BY <1>1, <1>2, <1>3, <1>5

LEMMA FailsStep ==
    ASSUME StoreTypeOK, NEW c \in Callers, Fails(c)
    PROVE  /\ call[c] # Idle /\ UNCHANGED <<log, ranges, views, seen, pubs, raced>>
           /\ Returned(c) /\ dirty' = (dirty \/ Exposed(c))
<1>1. call[c].pc # "idle" /\ Return(c) /\ UNCHANGED <<log, ranges, views, seen, pubs, raced>>
      /\ dirty' = (dirty \/ Exposed(c))
  BY DEF Fails, At
<1> QED
  BY <1>1, CallFacts, ReturnReturns

-----------------------------------------------------------------------------
(* FeatureStore: types *)

LEMMA FoldNames ==
    \A e, lo, hi : Values(e, lo, hi) = ValuesIn(log, e, lo, hi) /\ ProjectLatest(e, lo, hi) = LatestIn(log, e, lo, hi)
  BY DEF Values, ValuesIn, ProjectLatest, LatestIn

LEMMA FillFacts ==
    ASSUME StoreTypeOK, NEW lo \in Nat \ {0}, NEW hi \in Nat, Fill(lo, hi)
    PROVE  /\ online' \in [Entities -> Nat] /\ index' \subseteq Entities
           /\ \A e \in Entities :
                 /\ ValuesIn(log, e, lo, hi) = {} => online'[e] = online[e]
                 /\ ValuesIn(log, e, lo, hi) # {} => online'[e] = LatestIn(log, e, lo, hi) /\ e \in index'
           /\ \A e \in index : e \in index'
<1>1. online \in [Entities -> Nat] /\ index \subseteq Entities
  BY DEF StoreTypeOK
<1>2. online' = [e \in Entities |-> Projected(e, lo, hi, online[e])]
  BY DEF Fill
<1>3. index' = index \cup {e \in Entities : ValuesIn(log, e, lo, hi) # {}}
  BY FoldNames DEF Fill
<1>4. ASSUME NEW e \in Entities, ValuesIn(log, e, lo, hi) = {}
      PROVE  Projected(e, lo, hi, online[e]) = online[e] /\ online[e] \in Nat
  BY <1>1, <1>4, FoldNames, LatestFacts DEF Projected
<1>5. ASSUME NEW e \in Entities, ValuesIn(log, e, lo, hi) # {}
      PROVE  /\ Projected(e, lo, hi, online[e]) = LatestIn(log, e, lo, hi) /\ e \in index'
             /\ LatestIn(log, e, lo, hi) \in Nat
  <2>1. LatestIn(log, e, lo, hi) \in lo..hi
    BY <1>5, LatestFacts
  <2>2. LatestIn(log, e, lo, hi) \in Nat /\ LatestIn(log, e, lo, hi) # 0
    BY <2>1
  <2> QED
    BY <1>3, <1>5, <2>2, FoldNames DEF Projected
<1>6. \A e \in Entities : Projected(e, lo, hi, online[e]) \in Nat
  BY <1>4, <1>5
<1>7. online' \in [Entities -> Nat]
  BY <1>2, <1>6
<1> QED
  BY <1>1, <1>2, <1>3, <1>4, <1>5, <1>7

\* A step of one command that leaves the log and the key ranges alone.
LEMMA TypeKept ==
    ASSUME StoreTypeOK, NEW c \in Callers, UNCHANGED <<log, ranges>>, Stays(c),
           call'[c] # Idle => PlaceOK(call'[c], Len(log)),
           online' \in [Entities -> Nat], index' \subseteq Entities, offline' \in [Entities -> Nat],
           seen' \subseteq Keys, pubs' \in [Keys -> Nat], dirty' \in BOOLEAN, raced' \in BOOLEAN
    PROVE  StoreTypeOK'
<1>1. LogOK'
  BY DEF StoreTypeOK, LogOK
<1>2. \A d \in Callers : call'[d] # Idle => PlaceOK(call'[d], Len(log'))
  BY DEF StoreTypeOK, Stays
<1>3. /\ ranges' \subseteq [key : Keys, first : Nat, last : Nat]
      /\ \A r \in ranges' : 1 <= r.first /\ r.first <= Len(log') /\ r.last <= Len(log')
  BY DEF StoreTypeOK
<1> QED
  BY <1>1, <1>2, <1>3 DEF StoreTypeOK, Stays

LEMMA TypeInit == StoreInit => StoreTypeOK
<1> SUFFICES ASSUME StoreInit PROVE StoreTypeOK
  OBVIOUS
<1> DEFINE w == Defined(1)
<1>1. w \in EventRec /\ w.schema = 1 /\ w.type = "defined"
  BY DEF Defined, EventRec
<1>2. log = <<w>>
  BY DEF StoreInit
<1> HIDE DEF w
<1>3. log \in Seq(EventRec) /\ Len(log) = 1 /\ log[1] = w
  BY <1>1, <1>2
<1>4. LogOK
  BY <1>1, <1>3 DEF LogOK
<1>5. /\ ranges = {} /\ online = [e \in Entities |-> 0] /\ index = {} /\ offline = [e \in Entities |-> 0]
      /\ seen = {} /\ call = [c \in Callers |-> Idle] /\ pubs = [k \in Keys |-> 0]
      /\ dirty = FALSE /\ raced = FALSE
  BY DEF StoreInit
<1>6. /\ online \in [Entities -> Nat] /\ offline \in [Entities -> Nat] /\ pubs \in [Keys -> Nat]
      /\ call \in [Callers -> CallRec \cup {Idle}] /\ dirty \in BOOLEAN /\ raced \in BOOLEAN
  BY <1>5
<1> QED
  BY <1>4, <1>5, <1>6 DEF StoreTypeOK

LEMMA TypeNext ==
    ASSUME StoreTypeOK, [StoreNext]_storeVars
    PROVE  StoreTypeOK'
<1>0. /\ online \in [Entities -> Nat] /\ index \subseteq Entities /\ offline \in [Entities -> Nat]
      /\ seen \subseteq Keys /\ pubs \in [Keys -> Nat] /\ dirty \in BOOLEAN /\ raced \in BOOLEAN
      /\ Len(log) \in Nat /\ Len(log) >= 1
  BY LogFacts DEF StoreTypeOK
<1>1. ASSUME NEW c \in Callers, Load(c)
      PROVE  StoreTypeOK'
  <2>1. Stays(c) /\ UNCHANGED <<log, ranges, views, seen, pubs, dirty, raced>>
    BY <1>1, LoadStep DEF Moved, Returned
  <2>2. PlaceOK(call[c], Len(log))
    BY <1>1, LoadStep, CallFacts
  <2>3. Schema \in Nat /\ Schema <= Len(log)
    BY SchemaBound DEF StoreTypeOK
  <2>4. call'[c] # Idle => PlaceOK(call'[c], Len(log))
    BY <1>0, <1>1, <2>2, <2>3, LoadStep DEF Moved, Returned, PlaceOK
  <2> QED
    BY <1>0, <2>1, <2>4, TypeKept DEF views
<1>2. ASSUME NEW c \in Callers, Lookup(c)
      PROVE  StoreTypeOK'
  <2>1. Stays(c) /\ UNCHANGED <<log, ranges, views, seen, pubs, dirty>>
    BY <1>2, LookupStep DEF Moved
  <2>2. raced' \in BOOLEAN
    BY <1>2, LookupStep, Zenon
  <2>3. call[c] # Idle /\ call[c].pc = "lookup" /\ PlaceOK(call[c], Len(log)) /\ call[c].req \in Requests
    BY <1>2, LookupStep, CallFacts
  <2>4. CASE Moved(c, "insert", call[c].first, call[c].last, call[c].members)
    <3>1. PlaceOK(call'[c], Len(log))
      BY <2>3, <2>4 DEF Moved, PlaceOK
    <3> QED
      BY <1>0, <2>1, <2>2, <3>1, TypeKept DEF views
  <2>5. ASSUME NEW r \in ranges, r.key = call[c].req.key, Moved(c, "put", r.first, r.last, call[c].members)
        PROVE  StoreTypeOK'
    <3>1. r.key \in Keys /\ r.first >= 1 /\ r.first <= Len(log) /\ r.last <= Len(log)
      BY DEF StoreTypeOK
    <3>2. call[c].req.op = "write"
      BY <2>3, <2>5, <3>1, RequestFacts, BoundsAssumption
    <3>3. PlaceOK(call'[c], Len(log))
      BY <2>3, <2>5, <3>1, <3>2 DEF Moved, PlaceOK
    <3> QED
      BY <1>0, <2>1, <2>2, <3>3, TypeKept DEF views
  <2> QED
    BY <1>2, <2>4, <2>5, LookupStep
<1>3. ASSUME NEW c \in Callers, Insert(c)
      PROVE  StoreTypeOK'
  <2>1. Stays(c) /\ UNCHANGED <<views, seen, pubs, raced>> /\ LogOK'
    BY <1>3, InsertStep DEF Moved, Returned
  <2>2. Len(log') \in Nat /\ Len(log) + 1 <= Len(log')
    <3>1. Len(log') = Len(log) + 1 \/ Len(log') = Len(log) + 2
      BY <1>3, InsertStep
    <3> QED
      BY <1>0, <3>1
  <2>3. dirty' \in BOOLEAN
    BY <1>3, InsertStep, Zenon
  <2>4. \A d \in Callers : call'[d] # Idle => PlaceOK(call'[d], Len(log'))
    <3>1. ASSUME NEW d \in Callers, call[d] # Idle PROVE PlaceOK(call[d], Len(log'))
      <4>1. PlaceOK(call[d], Len(log)) /\ call[d].first \in Nat /\ call[d].last \in Nat
        BY <3>1, CallFacts
      <4> QED
        BY <1>0, <2>2, <4>1 DEF PlaceOK
    <3>2. call'[c] # Idle => PlaceOK(call'[c], Len(log'))
      <4>1. PlaceOK(call[c], Len(log'))
        BY <1>3, <3>1, InsertStep
      <4>2. CASE call'[c].pc = "put" /\ call'[c].req.op = "write" /\ call'[c].first = Len(log) + 1
                 /\ call'[c].last = Len(log')
        BY <1>0, <2>2, <4>2 DEF PlaceOK
      <4>3. CASE call'[c].pc = "members" /\ call'[c].req.op = "delete" /\ call'[c].first = call[c].first
                 /\ call'[c].last = call[c].last
        BY <4>1, <4>3 DEF PlaceOK
      <4> QED
        BY <1>3, <4>2, <4>3, InsertStep DEF Moved, Returned
    <3> QED
      BY <2>1, <3>1, <3>2 DEF Stays
  <2>5. /\ ranges' \subseteq [key : Keys, first : Nat, last : Nat]
        /\ \A r \in ranges' : 1 <= r.first /\ r.first <= Len(log') /\ r.last <= Len(log')
    <3>1. \A r \in ranges : /\ r \in [key : Keys, first : Nat, last : Nat]
                             /\ 1 <= r.first /\ r.first <= Len(log) /\ r.last <= Len(log)
                             /\ r.first \in Nat /\ r.last \in Nat
      BY DEF StoreTypeOK
    <3>2. call[c].req.key \in Keys \cup {NoKey}
      BY <1>3, InsertStep, CallFacts, RequestFacts
    <3> PICK w : w = [key |-> call[c].req.key, first |-> Len(log) + 1, last |-> Len(log')]
      OBVIOUS
    <3>3. call[c].req.key # NoKey => w \in [key : Keys, first : Nat, last : Nat]
      BY <1>0, <2>2, <3>2
    <3>4. w.first = Len(log) + 1 /\ w.last = Len(log')
      OBVIOUS
    <3>5. \A r \in ranges' : r \in ranges \/ (r = w /\ call[c].req.key # NoKey)
      BY <1>3, InsertStep
    <3> QED
      BY <1>0, <2>2, <3>1, <3>3, <3>4, <3>5
  <2> QED
    BY <1>0, <2>1, <2>3, <2>4, <2>5 DEF StoreTypeOK, Stays, views
<1>4. ASSUME NEW c \in Callers, Put(c)
      PROVE  StoreTypeOK'
  <2>1. Stays(c) /\ UNCHANGED <<log, ranges, offline, seen, pubs, raced>> /\ Fill(call[c].first, call[c].last)
    BY <1>4, PutStep DEF Moved
  <2>2. dirty' \in BOOLEAN
    BY <1>4, PutStep, Zenon
  <2>3. call[c] # Idle /\ PlaceOK(call[c], Len(log)) /\ call[c].first \in Nat \ {0} /\ call[c].last \in Nat
    <3>1. call[c] # Idle /\ call[c].pc = "put" /\ PlaceOK(call[c], Len(log))
          /\ call[c].first \in Nat /\ call[c].last \in Nat
      BY <1>4, PutStep, CallFacts
    <3>2. call[c].first >= 1
      BY <3>1 DEF PlaceOK
    <3> QED
      BY <3>1, <3>2
  <2>4. PlaceOK(call'[c], Len(log))
    BY <1>4, <2>3, PutStep DEF Moved, PlaceOK
  <2>5. online' \in [Entities -> Nat] /\ index' \subseteq Entities
    BY <2>1, <2>3, FillFacts
  <2> QED
    BY <1>0, <2>1, <2>2, <2>4, <2>5, TypeKept
<1>5. ASSUME NEW c \in Callers, Members(c)
      PROVE  StoreTypeOK'
  <2>1. Stays(c) /\ UNCHANGED <<log, ranges, views, seen, pubs, raced>>
    BY <1>5, MembersStep DEF Moved
  <2>2. dirty' \in BOOLEAN
    BY <1>5, MembersStep, Zenon
  <2>3. call[c] # Idle /\ PlaceOK(call[c], Len(log))
    BY <1>5, MembersStep, CallFacts
  <2>4. PlaceOK(call'[c], Len(log))
    BY <1>5, <2>3, MembersStep DEF Moved, PlaceOK
  <2> QED
    BY <1>0, <2>1, <2>2, <2>4, TypeKept DEF views
<1>6. ASSUME NEW c \in Callers, Purge(c)
      PROVE  StoreTypeOK'
  <2>1. Stays(c) /\ UNCHANGED <<log, ranges, offline, seen, pubs, dirty, raced>> /\ online' = Purged(c) /\ index' = {}
    BY <1>6, PurgeStep DEF Moved, Returned
  <2>2. online' \in [Entities -> Nat]
    BY <1>0, <2>1 DEF Purged
  <2>3. call[c] # Idle /\ PlaceOK(call[c], Len(log))
    BY <1>6, PurgeStep, CallFacts
  <2>4. call'[c] # Idle => PlaceOK(call'[c], Len(log))
    BY <1>6, <2>3, PurgeStep DEF Moved, Returned, PlaceOK
  <2> QED
    BY <1>0, <2>1, <2>2, <2>4, TypeKept
<1>7. ASSUME NEW c \in Callers, Rebuild(c)
      PROVE  StoreTypeOK'
  <2>0. /\ call[c] # Idle /\ call[c].pc = "fill" /\ UNCHANGED <<log, ranges, offline, seen, pubs, dirty, raced>>
        /\ Moved(c, "offline", call[c].first, call[c].last, call[c].members)
        /\ IF IsDeleted(call[c].last) THEN UNCHANGED <<online, index>> ELSE Fill(1, call[c].last)
    BY <1>7, RebuildStep, Zenon
  <2>1. PlaceOK(call[c], Len(log)) /\ call[c].last \in Nat
    BY <2>0, CallFacts
  <2>2. online' \in [Entities -> Nat] /\ index' \subseteq Entities
    <3>1. CASE IsDeleted(call[c].last)
      BY <1>0, <2>0, <3>1
    <3>2. CASE Fill(1, call[c].last)
      BY <2>1, <3>2, FillFacts
    <3> QED
      BY <2>0, <3>1, <3>2
  <2>3. PlaceOK(call'[c], Len(log)) /\ Stays(c)
    BY <2>0, <2>1 DEF Moved, PlaceOK
  <2> QED
    BY <1>0, <2>0, <2>2, <2>3, TypeKept
<1>8. ASSUME NEW c \in Callers, RebuildOffline(c)
      PROVE  StoreTypeOK'
  <2>1. Stays(c) /\ UNCHANGED <<log, ranges, online, index, seen, pubs, dirty, raced>> /\ call'[c] = Idle
    BY <1>8, OfflineStep DEF Returned
  <2>2. call[c].last \in Nat
    BY <1>8, OfflineStep, CallFacts
  <2>3. \A e \in Entities : ProjectLatest(e, 1, call[c].last) \in Nat
    BY <2>2, FoldNames, LatestFacts
  <2>4. offline' \in [Entities -> Nat]
    BY <1>8, <2>3, OfflineStep
  <2> QED
    BY <1>0, <2>1, <2>4, TypeKept
<1>9. ASSUME NEW c \in Callers, Publish(c)
      PROVE  StoreTypeOK'
  <2>1. Stays(c) /\ UNCHANGED <<log, ranges, views, dirty, raced>> /\ call'[c] = Idle
    BY <1>9, PublishStep DEF Returned
  <2>2. seen' \subseteq Keys /\ pubs' \in [Keys -> Nat]
    BY <1>0, <1>9, PublishStep
  <2> QED
    BY <1>0, <2>1, <2>2, TypeKept DEF views
<1>10. ASSUME NEW c \in Callers, Fails(c)
       PROVE  StoreTypeOK'
  <2>1. Stays(c) /\ UNCHANGED <<log, ranges, views, seen, pubs, raced>> /\ call'[c] = Idle
    BY <1>10, FailsStep DEF Returned
  <2>2. dirty' \in BOOLEAN
    BY <1>10, FailsStep, Zenon
  <2> QED
    BY <1>0, <2>1, <2>2, TypeKept DEF views
<1>11. ASSUME NEW c \in Callers, NEW r \in Requests, Begin(c, r)
       PROVE  StoreTypeOK'
  <2>1. Stays(c) /\ UNCHANGED <<log, ranges, views, seen, pubs, dirty, raced>>
    BY <1>11, BeginStep
  <2>2. PlaceOK(call'[c], Len(log))
    BY <1>0, <1>11, BeginStep DEF PlaceOK
  <2> QED
    BY <1>0, <2>1, <2>2, TypeKept DEF views
<1>12. CASE Restart
  <2>1. UNCHANGED <<log, ranges, views, raced>> /\ call' = [c \in Callers |-> Idle] /\ seen' = {}
        /\ pubs' = [k \in Keys |-> 0]
    BY <1>12 DEF Restart
  <2>2. dirty' \in BOOLEAN
    BY <1>12, Zenon DEF Restart
  <2>3. LogOK' /\ ranges' \subseteq [key : Keys, first : Nat, last : Nat]
        /\ \A r \in ranges' : 1 <= r.first /\ r.first <= Len(log') /\ r.last <= Len(log')
    BY <2>1 DEF StoreTypeOK, LogOK
  <2>4. call' \in [Callers -> CallRec \cup {Idle}] /\ pubs' \in [Keys -> Nat]
        /\ \A c \in Callers : call'[c] = Idle
    BY <2>1
  <2> QED
    BY <1>0, <2>1, <2>2, <2>3, <2>4 DEF StoreTypeOK, views
<1>13. CASE UNCHANGED storeVars
  <2>1. UNCHANGED <<log, ranges, online, index, offline, seen, call, pubs, dirty, raced>>
    BY <1>13 DEF storeVars, views
  <2> QED
    BY <2>1 DEF StoreTypeOK, LogOK
<1> QED
  BY <1>1, <1>2, <1>3, <1>4, <1>5, <1>6, <1>7, <1>8, <1>9, <1>10, <1>11, <1>12, <1>13 DEF StoreNext, Command

-----------------------------------------------------------------------------
(* FeatureStore: keys *)

\* A step of one command that looks nothing up and appends nothing.
LEMMA KeyKept ==
    ASSUME StoreTypeOK, RangedKeys, ~raced => OneAtATime, NEW c \in Callers, UNCHANGED <<log, ranges, raced>>,
           Stays(c), call'[c].pc # "insert",
           call'[c].pc \in {"put", "publish"} => call[c].pc = "put" /\ call'[c].req.key = call[c].req.key
    PROVE  RangedKeys' /\ (~raced' => OneAtATime')
<1>1. RangedKeys'
  BY DEF RangedKeys
<1>2. ASSUME ~raced PROVE OneAtATime'
  <2>1. OneAtATime
    BY <1>2
  <2>2. \A i, j \in 1..Len(log') :
          log'[i].key \in Keys /\ log'[i].key = log'[j].key /\ log'[i].pos = 1 /\ log'[j].pos = 1 => i = j
    BY <2>1 DEF OneAtATime
  <2>3. \A d \in Callers : PastLookup(d)' => PastLookup(d) /\ call'[d].req.key = call[d].req.key
    BY DEF PastLookup, Stays
  <2>4. \A d \in Callers : call'[d].pc = "insert" => call[d] = call'[d]
    BY DEF Stays
  <2> QED
    BY <2>1, <2>2, <2>3, <2>4 DEF OneAtATime
<1> QED
  BY <1>1, <1>2

LEMMA KeyInit == StoreInit => KeyInv
<1> SUFFICES ASSUME StoreInit PROVE KeyInv
  OBVIOUS
<1> DEFINE w == Defined(1)
<1>1. w.key = NoKey
  BY DEF Defined
<1>2. log = <<w>> /\ ranges = {} /\ call = [c \in Callers |-> Idle] /\ seen = {} /\ pubs = [k \in Keys |-> 0]
  BY DEF StoreInit
<1> HIDE DEF w
<1>3. Len(log) = 1 /\ log[1].key = NoKey /\ NoKey \notin Keys
  BY <1>1, <1>2, BoundsAssumption
<1>4. \A i \in 1..Len(log) : log[i].key = NoKey
  BY <1>3
<1>5. \A c \in Callers : call[c].pc = "idle"
  BY <1>2 DEF Idle
<1>6. RangedKeys
  BY <1>3, <1>4 DEF RangedKeys
<1>7. OneAtATime
  BY <1>3, <1>4, <1>5 DEF OneAtATime, PastLookup
<1>8. PubsOK
  BY <1>2 DEF PubsOK
<1> QED
  BY <1>6, <1>7, <1>8 DEF KeyInv

LEMMA KeyNext ==
    ASSUME StoreTypeOK, KeyInv, [StoreNext]_storeVars
    PROVE  KeyInv'
<1>0. RangedKeys /\ PubsOK /\ (~raced => OneAtATime)
  BY DEF KeyInv
<1>p. UNCHANGED <<seen, pubs>> => PubsOK'
  BY <1>0 DEF PubsOK
<1>1. ASSUME NEW c \in Callers, Load(c)
      PROVE  KeyInv'
  <2>1. /\ Stays(c) /\ UNCHANGED <<log, ranges, raced, seen, pubs>>
        /\ call'[c].pc \in {"members", "lookup", "idle"}
    BY <1>1, LoadStep DEF Moved, Returned, Idle
  <2> QED
    BY <1>0, <1>p, <2>1, KeyKept DEF KeyInv
<1>2. ASSUME NEW c \in Callers, Lookup(c)
      PROVE  KeyInv'
  <2>1. /\ call[c] # Idle /\ call[c].pc = "lookup" /\ UNCHANGED <<log, ranges, seen, pubs>> /\ Stays(c)
        /\ call'[c].req = call[c].req /\ call'[c].pc \in {"insert", "put"}
        /\ call'[c].pc = "insert" => \A r \in ranges : r.key # call[c].req.key
    BY <1>2, LookupStep DEF Moved
  <2>2. RangedKeys' /\ PubsOK'
    BY <1>0, <2>1 DEF RangedKeys, PubsOK
  <2>3. ASSUME ~raced' PROVE OneAtATime'
    <3>1. ~raced /\ (call[c].req.key # NoKey =>
              \A d \in Callers \ {c} : call[d].pc = "idle" \/ call[d].req.key # call[c].req.key)
      BY <1>2, <2>3, LookupStep
    <3>2. OneAtATime
      BY <1>0, <3>1
    <3>3. \A i, j \in 1..Len(log') :
            log'[i].key \in Keys /\ log'[i].key = log'[j].key /\ log'[i].pos = 1 /\ log'[j].pos = 1 => i = j
      BY <2>1, <3>2 DEF OneAtATime
    <3>4. \A d \in Callers \ {c} : call'[d] = call[d]
      BY <2>1 DEF Stays
    <3>5. NoKey \notin Keys
      BY BoundsAssumption
    <3>6. \A d, f \in Callers :
            PastLookup(d)' /\ PastLookup(f)' /\ call'[d].req.key \in Keys
            /\ call'[d].req.key = call'[f].req.key => d = f
      BY <2>1, <3>1, <3>2, <3>4, <3>5 DEF OneAtATime, PastLookup
    <3>7. \A d \in Callers : call'[d].pc = "insert" /\ call'[d].req.key \in Keys =>
            \A r \in ranges' : r.key # call'[d].req.key
      BY <2>1, <3>2, <3>4 DEF OneAtATime
    <3> QED
      BY <3>3, <3>6, <3>7 DEF OneAtATime
  <2> QED
    BY <2>2, <2>3 DEF KeyInv
<1>3. ASSUME NEW c \in Callers, Insert(c)
      PROVE  KeyInv'
  <2> PICK k : k = call[c].req.key
    OBVIOUS
  <2>1. /\ call[c] # Idle /\ call[c].pc = "insert" /\ UNCHANGED <<seen, pubs, raced>> /\ Stays(c)
        /\ call'[c].pc \in {"put", "members", "idle"} /\ (call'[c] # Idle => call'[c].req = call[c].req)
    <3>1. call[c] # Idle /\ call[c].pc = "insert" /\ UNCHANGED <<seen, pubs, raced>>
      BY <1>3, InsertStep
    <3>2. \/ Moved(c, "put", Len(log) + 1, Len(log'), call[c].members) \/ Returned(c)
          \/ Moved(c, "members", call[c].first, call[c].last, call[c].members)
      BY <1>3, InsertStep
    <3> QED
      BY <3>1, <3>2 DEF Moved, Returned, Idle
  <2>2. /\ \A i \in 1..Len(log) : log'[i] = log[i]
        /\ \A i \in (Len(log) + 1)..Len(log') : log'[i].key = k /\ log'[i].pos = i - Len(log)
        /\ Len(log') \in Nat /\ Len(log) \in Nat
    <3>1. Len(log) \in Nat /\ (Len(log') = Len(log) + 1 \/ Len(log') = Len(log) + 2)
      BY <1>3, InsertStep, LogFacts DEF StoreTypeOK
    <3>2. Len(log') \in Nat
      BY <3>1
    <3> QED
      BY <1>3, <3>1, <3>2, InsertStep
  <2>3. /\ \A r \in ranges : r \in ranges'
        /\ \A r \in ranges' : r \in ranges \/ r.key = k
        /\ k # NoKey => \E r \in ranges' : r.key = k
    <3> PICK w : w = [key |-> k, first |-> Len(log) + 1, last |-> Len(log')]
      OBVIOUS
    <3>1. ranges' = IF k = NoKey \/ KeyRange(k) # {} THEN ranges ELSE ranges \cup {w}
      BY <1>3, InsertStep
    <3>2. w.key = k
      OBVIOUS
    <3> QED
      BY <3>1, <3>2 DEF KeyRange
  <2>4. k \in Keys => k # NoKey
    BY BoundsAssumption
  <2>5. \A i \in 1..Len(log') : i \in 1..Len(log) \/ i \in (Len(log) + 1)..Len(log')
    BY <2>2
  <2>6. RangedKeys'
    <3>1. ASSUME NEW j \in Keys, \A r \in ranges' : r.key # j, NEW i \in 1..Len(log')
          PROVE  log'[i].key # j
      <4>1. j # k
        BY <2>3, <2>4, <3>1
      <4>2. \A r \in ranges : r.key # j
        BY <2>3, <3>1
      <4> QED
        BY <1>0, <2>2, <2>5, <4>1, <4>2 DEF RangedKeys
    <3> QED
      BY <3>1 DEF RangedKeys
  <2>7. ASSUME ~raced' PROVE OneAtATime'
    <3>1. OneAtATime
      BY <1>0, <2>1, <2>7
    <3>2. k \in Keys => \A i \in 1..Len(log) : log[i].key # k
      BY <1>0, <2>1, <3>1 DEF OneAtATime, RangedKeys
    <3>3. ASSUME NEW i \in 1..Len(log'), NEW j \in 1..Len(log'), log'[i].key \in Keys,
                 log'[i].key = log'[j].key, log'[i].pos = 1, log'[j].pos = 1
          PROVE  i = j
      <4>1. CASE i \in 1..Len(log) /\ j \in 1..Len(log)
        BY <2>2, <3>1, <3>3, <4>1 DEF OneAtATime
      <4>2. CASE i \in (Len(log) + 1)..Len(log') /\ j \in (Len(log) + 1)..Len(log')
        <5>1. i - Len(log) = 1 /\ j - Len(log) = 1
          BY <2>2, <3>3, <4>2
        <5> QED
          BY <2>2, <5>1
      <4>3. CASE i \in 1..Len(log) /\ j \in (Len(log) + 1)..Len(log')
        BY <2>2, <3>2, <3>3, <4>3
      <4>4. CASE j \in 1..Len(log) /\ i \in (Len(log) + 1)..Len(log')
        BY <2>2, <3>2, <3>3, <4>4
      <4> QED
        BY <2>5, <4>1, <4>2, <4>3, <4>4
    <3>4. \A d \in Callers : PastLookup(d)' => PastLookup(d) /\ call'[d].req.key = call[d].req.key
      BY <2>1 DEF PastLookup, Stays, Idle
    <3>5. \A d, f \in Callers :
            PastLookup(d)' /\ PastLookup(f)' /\ call'[d].req.key \in Keys
            /\ call'[d].req.key = call'[f].req.key => d = f
      BY <3>1, <3>4 DEF OneAtATime
    <3>6. ASSUME NEW d \in Callers, call'[d].pc = "insert", call'[d].req.key \in Keys, NEW r \in ranges'
          PROVE  r.key # call'[d].req.key
      <4>1. d # c /\ call'[d] = call[d]
        BY <2>1, <3>6 DEF Stays
      <4>2. call[d].req.key # k
        BY <2>1, <3>1, <3>6, <4>1 DEF OneAtATime, PastLookup
      <4> QED
        BY <2>3, <3>1, <3>6, <4>1, <4>2 DEF OneAtATime
    <3> QED
      BY <3>3, <3>5, <3>6 DEF OneAtATime
  <2> QED
    BY <1>p, <2>1, <2>6, <2>7 DEF KeyInv
<1>4. ASSUME NEW c \in Callers, Put(c)
      PROVE  KeyInv'
  <2>1. /\ Stays(c) /\ UNCHANGED <<log, ranges, raced, seen, pubs>> /\ call[c].pc = "put"
        /\ call'[c].pc = "publish" /\ call'[c].req = call[c].req
    BY <1>4, PutStep DEF Moved
  <2> QED
    BY <1>0, <1>p, <2>1, KeyKept DEF KeyInv
<1>5. ASSUME NEW c \in Callers, Members(c)
      PROVE  KeyInv'
  <2>1. Stays(c) /\ UNCHANGED <<log, ranges, raced, seen, pubs>> /\ call'[c].pc = "purge"
    BY <1>5, MembersStep DEF Moved
  <2> QED
    BY <1>0, <1>p, <2>1, KeyKept DEF KeyInv
<1>6. ASSUME NEW c \in Callers, Purge(c)
      PROVE  KeyInv'
  <2>1. Stays(c) /\ UNCHANGED <<log, ranges, raced, seen, pubs>> /\ call'[c].pc \in {"fill", "idle"}
    BY <1>6, PurgeStep DEF Moved, Returned, Idle
  <2> QED
    BY <1>0, <1>p, <2>1, KeyKept DEF KeyInv
<1>7. ASSUME NEW c \in Callers, Rebuild(c)
      PROVE  KeyInv'
  <2>1. Moved(c, "offline", call[c].first, call[c].last, call[c].members)
        /\ UNCHANGED <<log, ranges, raced, seen, pubs>>
    BY <1>7, RebuildStep, Zenon
  <2>2. Stays(c) /\ call'[c].pc = "offline"
    BY <2>1 DEF Moved
  <2> QED
    BY <1>0, <1>p, <2>1, <2>2, KeyKept DEF KeyInv
<1>8. ASSUME NEW c \in Callers, RebuildOffline(c)
      PROVE  KeyInv'
  <2>1. Stays(c) /\ UNCHANGED <<log, ranges, raced, seen, pubs>> /\ call'[c].pc = "idle"
    BY <1>8, OfflineStep DEF Returned, Idle
  <2> QED
    BY <1>0, <1>p, <2>1, KeyKept DEF KeyInv
<1>9. ASSUME NEW c \in Callers, Publish(c)
      PROVE  KeyInv'
  <2>1. /\ Stays(c) /\ UNCHANGED <<log, ranges, raced>> /\ call'[c].pc = "idle"
        /\ pubs' = (IF call[c].req.key \in Keys \ seen THEN [pubs EXCEPT ![call[c].req.key] = @ + 1] ELSE pubs)
        /\ seen' = seen \cup ({call[c].req.key} \cap Keys)
    BY <1>9, PublishStep DEF Returned, Idle
  <2>2. pubs \in [Keys -> Nat] /\ seen \subseteq Keys
    BY DEF StoreTypeOK
  <2>3. PubsOK'
    BY <1>0, <2>1, <2>2 DEF PubsOK
  <2> QED
    BY <1>0, <2>1, <2>3, KeyKept DEF KeyInv
<1>10. ASSUME NEW c \in Callers, Fails(c)
       PROVE  KeyInv'
  <2>1. Stays(c) /\ UNCHANGED <<log, ranges, raced, seen, pubs>> /\ call'[c].pc = "idle"
    BY <1>10, FailsStep DEF Returned, Idle
  <2> QED
    BY <1>0, <1>p, <2>1, KeyKept DEF KeyInv
<1>11. ASSUME NEW c \in Callers, NEW r \in Requests, Begin(c, r)
       PROVE  KeyInv'
  <2>1. Stays(c) /\ UNCHANGED <<log, ranges, raced, seen, pubs>> /\ call'[c].pc = "load"
    BY <1>11, BeginStep
  <2> QED
    BY <1>0, <1>p, <2>1, KeyKept DEF KeyInv
<1>12. CASE Restart
  <2>1. UNCHANGED <<log, ranges, raced>> /\ call' = [c \in Callers |-> Idle] /\ seen' = {}
        /\ pubs' = [k \in Keys |-> 0]
    BY <1>12 DEF Restart
  <2>2. \A c \in Callers : call'[c].pc = "idle"
    BY <2>1 DEF Idle
  <2>3. RangedKeys' /\ PubsOK'
    BY <1>0, <2>1 DEF RangedKeys, PubsOK
  <2>4. ~raced' => OneAtATime'
    BY <1>0, <2>1, <2>2 DEF OneAtATime, PastLookup
  <2> QED
    BY <2>3, <2>4 DEF KeyInv
<1>13. CASE UNCHANGED storeVars
  <2>1. UNCHANGED <<log, ranges, seen, call, pubs, raced>>
    BY <1>13 DEF storeVars, views
  <2> QED
    BY <2>1 DEF KeyInv, RangedKeys, PubsOK, OneAtATime, PastLookup
<1> QED
  BY <1>1, <1>2, <1>3, <1>4, <1>5, <1>6, <1>7, <1>8, <1>9, <1>10, <1>11, <1>12, <1>13 DEF StoreNext, Command

\* Without a race a key's batch is in the log at most once, and published at most once.
LEMMA OncePerKeyHolds == ASSUME StoreTypeOK, KeyInv PROVE OncePerKey
<1> SUFFICES ASSUME ~raced, NEW k \in Keys
             PROVE  /\ Cardinality({i \in 1..Len(log) : log[i].key = k /\ log[i].pos = 1}) <= 1
                    /\ pubs[k] <= 1
  BY DEF OncePerKey
<1> DEFINE S == {i \in 1..Len(log) : log[i].key = k /\ log[i].pos = 1}
<1>1. \A i, j \in S : i = j
  BY DEF KeyInv, OneAtATime
<1>2. pubs[k] <= 1
  BY DEF KeyInv, PubsOK
<1> HIDE DEF S
<1>3. ASSUME NEW i \in S PROVE Cardinality(S) = 1
  <2>1. S = {i}
    BY <1>1
  <2> QED
    BY <2>1, FS_Singleton
<1>4. CASE S = {}
  <2>1. Cardinality(S) = 0
    BY <1>4, FS_EmptySet
  <2> QED
    BY <1>2, <2>1 DEF S
<1>5. CASE S # {}
  <2>1. Cardinality(S) = 1
    BY <1>3, <1>5
  <2> QED
    BY <1>2, <2>1 DEF S
<1> QED
  BY <1>4, <1>5

-----------------------------------------------------------------------------
(* FeatureStore: the online view *)

\* With nobody between the log and Redis the view is what it should be.
LEMMA CaughtUp ==
    ASSUME OnlineInv, ~dirty, \A d \in Callers : ~Exposed(d), NEW e \in Entities
    PROVE  /\ Deleted => online[e] = 0
           /\ ~Deleted => online[e] = LatestIn(log, e, 1, Len(log)) /\ (online[e] # 0 => e \in index)
<1>1. ASSUME NEW d \in Callers
      PROVE  /\ ~Rebuilding(d) /\ ~Putting(d, e) /\ call[d].pc # "fill"
             /\ call[d].pc # "members" /\ call[d].pc # "purge"
  BY DEF Exposed, Rebuilding, Putting
<1> QED
  BY <1>1 DEF OnlineInv, LiveOK, DeletedOK

\* A step of one command that touches neither the log nor the view, from a place where
\* nothing is owed to it (or else the view counts as disturbed).
LEMMA OnlineKept ==
    ASSUME OnlineInv, NEW c \in Callers, UNCHANGED <<log, online, index>>, Stays(c),
           ~dirty' => ~dirty /\ ~Exposed(c),
           \/ call'[c].pc \notin {"members", "purge", "fill"}
           \/ call'[c].pc = "members" /\ call'[c].req.op = "rebuild" /\ call'[c].last = Len(log)
    PROVE  OnlineInv'
<1>0. Deleted' = Deleted
  BY DEF Deleted, IsDeleted
<1>1. \A d \in Callers \ {c} : call'[d] = call[d]
  BY DEF Stays
<1>2. \A e \in Entities : online'[e] # 0 => online'[e] \in ValuesIn(log', e, 1, Len(log'))
  BY DEF OnlineInv
<1>3. \A d \in Callers : call'[d].pc \in {"members", "purge"} /\ call'[d].req.op = "delete" => Deleted'
  BY <1>0, <1>1 DEF OnlineInv
<1>4. ASSUME ~dirty'
      PROVE  /\ \A d \in Callers : Rebuilding(d)' => call'[d].last = Len(log')
             /\ ~Deleted' => LiveOK'
             /\ Deleted' => DeletedOK'
  <2>1. ~dirty /\ call[c].pc \notin {"put", "members", "purge", "fill"}
    BY <1>4 DEF Exposed
  <2>2. \A d \in Callers : Rebuilding(d)' => call'[d].last = Len(log')
    BY <1>1, <2>1 DEF OnlineInv, Rebuilding
  <2>3. ASSUME ~Deleted', NEW e \in Entities
        PROVE  /\ \/ online'[e] = LatestIn(log', e, 1, Len(log'))
                  \/ \E d \in Callers : Rebuilding(d)' \/ Putting(d, e)'
               /\ online'[e] # 0 => e \in index' \/ \E d \in Callers : call'[d].pc = "fill"
    <3>1. LiveOK
      BY <1>0, <2>1, <2>3 DEF OnlineInv
    <3>2. \A d \in Callers : Rebuilding(d) => Rebuilding(d)'
      BY <1>1, <2>1 DEF Rebuilding
    <3>3. \A d \in Callers : Putting(d, e) => Putting(d, e)'
      BY <1>1, <2>1 DEF Putting
    <3>4. \A d \in Callers : call[d].pc = "fill" => call'[d].pc = "fill"
      BY <1>1, <2>1
    <3> QED
      BY <3>1, <3>2, <3>3, <3>4 DEF LiveOK
  <2>4. Deleted' => DeletedOK'
    BY <1>0, <1>1, <2>1 DEF OnlineInv, DeletedOK
  <2> QED
    BY <2>2, <2>3, <2>4 DEF LiveOK
<1> QED
  BY <1>2, <1>3, <1>4 DEF OnlineInv

\* What an append does to the log and to the folds.
LEMMA AppendedLog ==
    ASSUME StoreTypeOK, NEW c \in Callers, Insert(c)
    PROVE  /\ Len(log) \in Nat /\ Len(log') \in Nat /\ Len(log) < Len(log')
           /\ Deleted' <=> Deleted \/ call[c].req.op = "delete"
<1>1. Len(log) \in Nat /\ (Len(log') = Len(log) + 1 \/ Len(log') = Len(log) + 2)
  BY InsertStep, LogFacts DEF StoreTypeOK
<1>2. Len(log') \in Nat /\ Len(log) < Len(log')
  BY <1>1
<1>3. \A i \in 1..Len(log) : log'[i] = log[i]
  BY InsertStep
<1>4. ASSUME NEW i \in (Len(log) + 1)..Len(log')
      PROVE  /\ call[c].req.op = "write" => log'[i].type = "value"
             /\ call[c].req.op = "define" => log'[i].type = "defined"
             /\ call[c].req.op = "delete" => log'[i].type = "deleted"
             /\ call[c].req.op \in {"write", "define", "delete"}
  BY InsertStep
<1>5. Deleted => Deleted'
  BY <1>1, <1>2, <1>3 DEF Deleted, IsDeleted
<1>6. Len(log) + 1 \in (Len(log) + 1)..Len(log') /\ Len(log) + 1 \in 1..Len(log')
  BY <1>1, <1>2
<1>7. call[c].req.op = "delete" => Deleted'
  BY <1>4, <1>6 DEF Deleted, IsDeleted
<1>8. ASSUME NEW i \in 1..Len(log'), log'[i].type = "deleted", call[c].req.op # "delete" PROVE Deleted
  <2>1. i \notin (Len(log) + 1)..Len(log')
    BY <1>4, <1>8
  <2>2. i \in 1..Len(log)
    BY <1>1, <1>2, <2>1
  <2> QED
    BY <1>3, <1>8, <2>2 DEF Deleted, IsDeleted
<1>9. Deleted' /\ call[c].req.op # "delete" => Deleted
  BY <1>8 DEF Deleted, IsDeleted
<1> QED
  BY <1>1, <1>2, <1>5, <1>7, <1>9

LEMMA AppendedFolds ==
    ASSUME StoreTypeOK, NEW c \in Callers, Insert(c), NEW e \in Entities
    PROVE  /\ ValuesIn(log, e, 1, Len(log)) \subseteq ValuesIn(log', e, 1, Len(log'))
           /\ ValuesIn(log', e, Len(log) + 1, Len(log')) = {} =>
                 LatestIn(log', e, 1, Len(log')) = LatestIn(log, e, 1, Len(log))
           /\ call[c].req.op # "write" => ValuesIn(log', e, Len(log) + 1, Len(log')) = {}
<1>1. Len(log) \in Nat /\ Len(log') \in Nat /\ Len(log) < Len(log')
  BY AppendedLog
<1>2. \A i \in 1..Len(log) : log'[i] = log[i]
  BY InsertStep
<1>3. ValuesIn(log, e, 1, Len(log)) \subseteq ValuesIn(log', e, 1, Len(log'))
  BY <1>1, <1>2 DEF ValuesIn
<1>4. ASSUME ValuesIn(log', e, Len(log) + 1, Len(log')) = {}
      PROVE  LatestIn(log', e, 1, Len(log')) = LatestIn(log, e, 1, Len(log))
  <2>1. ASSUME NEW i \in ValuesIn(log', e, 1, Len(log')) PROVE i \in ValuesIn(log, e, 1, Len(log))
    <3>1. i \notin (Len(log) + 1)..Len(log')
      BY <1>4 DEF ValuesIn
    <3>2. i \in 1..Len(log)
      BY <1>1, <3>1 DEF ValuesIn
    <3> QED
      BY <1>2, <3>2 DEF ValuesIn
  <2>2. ValuesIn(log', e, 1, Len(log')) = ValuesIn(log, e, 1, Len(log))
    BY <1>3, <2>1
  <2> QED
    BY <2>2 DEF LatestIn
<1>5. ASSUME NEW i \in (Len(log) + 1)..Len(log'), call[c].req.op # "write"
      PROVE  log'[i].type # "value"
  <2>1. /\ call[c].req.op = "define" => log'[i].type = "defined"
        /\ call[c].req.op = "delete" => log'[i].type = "deleted"
        /\ call[c].req.op \in {"write", "define", "delete"}
    BY InsertStep
  <2> QED
    BY <1>5, <2>1
<1>6. call[c].req.op # "write" => ValuesIn(log', e, Len(log) + 1, Len(log')) = {}
  BY <1>5 DEF ValuesIn
<1> QED
  BY <1>3, <1>4, <1>6

LEMMA OnlineInsert ==
    ASSUME StoreTypeOK, OnlineInv, NEW c \in Callers, Insert(c)
    PROVE  OnlineInv'
<1>1. call[c].pc = "insert" /\ UNCHANGED <<online, index>> /\ call[c].req.op \in {"write", "define", "delete"}
  <2>1. call[c].pc = "insert" /\ UNCHANGED views /\ call[c].req.op \in {"write", "define", "delete"}
    BY InsertStep
  <2> QED
    BY <2>1 DEF views
<1>2. dirty' = (dirty \/ (\E d \in Callers \ {c} : Exposed(d)) \/ (call[c].req.op = "write" /\ Deleted))
  BY InsertStep
<1>3. Stays(c)
  BY InsertStep DEF Moved, Returned
<1>4. /\ call[c].req.op = "write" => /\ call'[c].pc = "put" /\ call'[c].req = call[c].req
                                     /\ call'[c].first = Len(log) + 1 /\ call'[c].last = Len(log')
      /\ call[c].req.op = "define" => call'[c].pc = "idle"
      /\ call[c].req.op = "delete" => call'[c].pc = "members" /\ call'[c].req = call[c].req
  <2>1. \/ call[c].req.op = "write" /\ Moved(c, "put", Len(log) + 1, Len(log'), call[c].members)
        \/ call[c].req.op = "define" /\ Returned(c)
        \/ call[c].req.op = "delete" /\ Moved(c, "members", call[c].first, call[c].last, call[c].members)
    BY InsertStep
  <2> QED
    BY <2>1 DEF Moved, Returned, Idle
<1>5. \A d \in Callers \ {c} : call'[d] = call[d]
  BY <1>3 DEF Stays
<1>6. /\ Len(log) \in Nat /\ Len(log') \in Nat /\ Len(log) < Len(log')
      /\ Deleted' <=> Deleted \/ call[c].req.op = "delete"
  BY AppendedLog
<1>7. \A e \in Entities : online'[e] # 0 => online'[e] \in ValuesIn(log', e, 1, Len(log'))
  BY <1>1, AppendedFolds DEF OnlineInv
<1>8. \A d \in Callers : call'[d].pc \in {"members", "purge"} /\ call'[d].req.op = "delete" => Deleted'
  BY <1>1, <1>4, <1>5, <1>6 DEF OnlineInv
<1>9. ASSUME ~dirty'
      PROVE  /\ \A d \in Callers : Rebuilding(d)' => call'[d].last = Len(log')
             /\ ~Deleted' => LiveOK'
             /\ Deleted' => DeletedOK'
  <2>1. ~dirty /\ (\A d \in Callers \ {c} : ~Exposed(d)) /\ ~(call[c].req.op = "write" /\ Deleted)
    BY <1>2, <1>9
  <2>2. \A d \in Callers : ~Exposed(d)
    BY <1>1, <2>1 DEF Exposed
  <2>3. \A d \in Callers \ {c} : call'[d].pc \notin {"put", "members", "purge", "fill"}
    BY <1>5, <2>2 DEF Exposed
  <2>4. \A d \in Callers : ~Rebuilding(d)'
    BY <1>1, <1>4, <2>3 DEF Rebuilding
  <2>5. ASSUME ~Deleted', NEW e \in Entities
        PROVE  /\ \/ online'[e] = LatestIn(log', e, 1, Len(log'))
                  \/ \E d \in Callers : Rebuilding(d)' \/ Putting(d, e)'
               /\ online'[e] # 0 => e \in index' \/ \E d \in Callers : call'[d].pc = "fill"
    <3>1. online'[e] = LatestIn(log, e, 1, Len(log)) /\ (online'[e] # 0 => e \in index')
      BY <1>1, <1>6, <2>1, <2>2, <2>5, CaughtUp
    <3>2. CASE ValuesIn(log', e, Len(log) + 1, Len(log')) = {}
      BY <3>1, <3>2, AppendedFolds
    <3>3. CASE ValuesIn(log', e, Len(log) + 1, Len(log')) # {}
      <4>1. call[c].req.op = "write"
        BY <3>3, AppendedFolds
      <4>2. ValuesIn(log', e, Len(log') + 1, Len(log')) = {}
        BY <1>6 DEF ValuesIn
      <4>3. Putting(c, e)'
        BY <1>4, <3>3, <4>1, <4>2 DEF Putting
      <4> QED
        BY <3>1, <4>3
    <3> QED
      BY <3>2, <3>3
  <2>6. ASSUME Deleted', NEW e \in Entities
        PROVE  \/ online'[e] = 0
               \/ /\ e \in index' /\ \A d \in Callers : call'[d].pc = "purge" => e \in call'[d].members
                  /\ \E d \in Callers : call'[d].pc \in {"members", "purge"}
    <3>1. CASE Deleted
      BY <1>1, <2>1, <2>2, <3>1, CaughtUp
    <3>2. CASE ~Deleted
      <4>1. call[c].req.op = "delete" /\ call'[c].pc = "members"
        BY <1>4, <1>6, <2>6, <3>2
      <4>2. online[e] # 0 => e \in index
        BY <2>1, <2>2, <3>2, CaughtUp
      <4>3. \A d \in Callers : call'[d].pc # "purge"
        BY <2>3, <4>1
      <4> QED
        BY <1>1, <4>1, <4>2, <4>3
    <3> QED
      BY <3>1, <3>2
  <2> QED
    BY <2>4, <2>5, <2>6 DEF LiveOK, DeletedOK
<1> QED
  BY <1>7, <1>8, <1>9 DEF OnlineInv

LEMMA OnlinePut ==
    ASSUME StoreTypeOK, OnlineInv, NEW c \in Callers, Put(c)
    PROVE  OnlineInv'
<1> PICK lo, hi : lo = call[c].first /\ hi = call[c].last
  OBVIOUS
<1>1. call[c].pc = "put" /\ UNCHANGED log /\ Stays(c) /\ call'[c].pc = "publish" /\ Fill(lo, hi)
  BY PutStep DEF Moved
<1>2. dirty' = (\/ dirty \/ Deleted \/ \E d \in Callers \ {c} : Exposed(d)
               \/ \E e \in Entities : ValuesIn(log, e, lo, hi) # {} /\ ValuesIn(log, e, hi + 1, Len(log)) # {})
  BY PutStep, FoldNames
<1>3. \A d \in Callers \ {c} : call'[d] = call[d]
  BY <1>1 DEF Stays
<1>4. lo \in Nat \ {0} /\ hi \in Nat /\ hi <= Len(log) /\ Len(log) \in Nat
  <2>1. call[c] # Idle
    BY <1>1 DEF Idle
  <2>2. PlaceOK(call[c], Len(log)) /\ lo \in Nat /\ hi \in Nat /\ Len(log) \in Nat
    BY <2>1, CallFacts, LogFacts DEF StoreTypeOK
  <2>3. lo >= 1 /\ hi <= Len(log)
    BY <1>1, <2>2 DEF PlaceOK
  <2> QED
    BY <2>2, <2>3
<1>5. Deleted' = Deleted
  BY <1>1 DEF Deleted, IsDeleted
<1>6. \A e \in Entities : ValuesIn(log, e, lo, hi) \subseteq ValuesIn(log, e, 1, Len(log))
  BY <1>4 DEF ValuesIn
<1>7. \A e \in Entities :
        /\ ValuesIn(log, e, lo, hi) = {} => online'[e] = online[e]
        /\ ValuesIn(log, e, lo, hi) # {} => online'[e] = LatestIn(log, e, lo, hi) /\ e \in index'
  BY <1>1, <1>4, FillFacts
<1>8. \A e \in index : e \in index'
  BY <1>1, <1>4, FillFacts
<1>9. ASSUME NEW e \in Entities, online'[e] # 0 PROVE online'[e] \in ValuesIn(log', e, 1, Len(log'))
  <2>1. ValuesIn(log, e, lo, hi) # {} => LatestIn(log, e, lo, hi) \in ValuesIn(log, e, lo, hi)
    BY <1>4, LatestFacts
  <2> QED
    BY <1>1, <1>6, <1>7, <1>9, <2>1 DEF OnlineInv
<1>10. \A d \in Callers : call'[d].pc \in {"members", "purge"} /\ call'[d].req.op = "delete" => Deleted'
  BY <1>1, <1>3, <1>5 DEF OnlineInv
<1>11. ASSUME ~dirty'
       PROVE  /\ \A d \in Callers : Rebuilding(d)' => call'[d].last = Len(log')
              /\ ~Deleted' /\ LiveOK'
  <2>1. /\ ~dirty /\ ~Deleted /\ \A d \in Callers \ {c} : ~Exposed(d)
        /\ \A e \in Entities : ValuesIn(log, e, lo, hi) = {} \/ ValuesIn(log, e, hi + 1, Len(log)) = {}
    BY <1>2, <1>11
  <2>2. \A d \in Callers : ~Rebuilding(d)'
    BY <1>1, <1>3, <2>1 DEF Exposed, Rebuilding
  <2>3. \A d \in Callers : ~Rebuilding(d) /\ call[d].pc # "fill"
    BY <1>1, <2>1 DEF Exposed, Rebuilding
  <2>4. LiveOK
    BY <2>1 DEF OnlineInv
  <2>5. ASSUME NEW e \in Entities, ValuesIn(log, e, lo, hi) = {}
        PROVE  /\ online'[e] = LatestIn(log, e, 1, Len(log)) /\ (online'[e] # 0 => e \in index')
    <3>1. \A d \in Callers : ~Putting(d, e)
      BY <1>1, <2>1, <2>5 DEF Exposed, Putting
    <3> QED
      BY <1>7, <1>8, <2>3, <2>4, <2>5, <3>1 DEF LiveOK
  <2>6. ASSUME NEW e \in Entities, ValuesIn(log, e, lo, hi) # {}
        PROVE  /\ online'[e] = LatestIn(log, e, 1, Len(log)) /\ (online'[e] # 0 => e \in index')
    <3> PICK x : x = LatestIn(log, e, lo, hi)
      OBVIOUS
    <3>1. x \in ValuesIn(log, e, lo, hi) /\ \A i \in ValuesIn(log, e, lo, hi) : i <= x
      BY <1>4, <2>6, LatestFacts
    <3>2. x \in lo..hi /\ x \in ValuesIn(log, e, 1, Len(log))
      BY <1>6, <3>1 DEF ValuesIn
    <3>3. ASSUME NEW i \in ValuesIn(log, e, 1, Len(log)) PROVE i <= x
      <4>1. i \notin (hi + 1)..Len(log)
        BY <2>1, <2>6 DEF ValuesIn
      <4>2. i \in 1..Len(log) /\ i <= hi
        BY <1>4, <4>1 DEF ValuesIn
      <4>3. CASE i >= lo
        BY <1>4, <3>1, <4>2, <4>3 DEF ValuesIn
      <4>4. CASE ~(i >= lo)
        BY <1>4, <3>2, <4>2, <4>4
      <4> QED
        BY <4>3, <4>4
    <3>4. LatestIn(log, e, 1, Len(log)) = x
      BY <1>4, <3>2, <3>3, LatestIs
    <3> QED
      BY <1>7, <2>6, <3>4
  <2>7. LiveOK'
    BY <1>1, <2>5, <2>6 DEF LiveOK
  <2> QED
    BY <1>5, <2>1, <2>2, <2>7
<1> QED
  BY <1>9, <1>10, <1>11 DEF OnlineInv

LEMMA OnlineMembers ==
    ASSUME StoreTypeOK, OnlineInv, NEW c \in Callers, Members(c)
    PROVE  OnlineInv'
<1>1. call[c].pc = "members" /\ UNCHANGED <<log, online, index>>
  <2>1. call[c].pc = "members" /\ UNCHANGED <<log, views>>
    BY MembersStep
  <2> QED
    BY <2>1 DEF views
<1>2. /\ Stays(c) /\ call'[c].pc = "purge" /\ call'[c].req = call[c].req /\ call'[c].last = call[c].last
      /\ call'[c].members = index
  BY MembersStep DEF Moved
<1>3. dirty' = (dirty /\ ~(/\ call[c].req.op = "rebuild" /\ call[c].last = Len(log)
                           /\ \A e \in Entities : online[e] # 0 => e \in index
                           /\ \A d \in Callers \ {c} : ~Exposed(d)))
  BY MembersStep
<1>4. \A d \in Callers \ {c} : call'[d] = call[d]
  BY <1>2 DEF Stays
<1>5. Deleted' = Deleted
  BY <1>1 DEF Deleted, IsDeleted
<1>6. \A e \in Entities : online'[e] # 0 => online'[e] \in ValuesIn(log', e, 1, Len(log'))
  BY <1>1 DEF OnlineInv
<1>7. \A d \in Callers : call'[d].pc \in {"members", "purge"} /\ call'[d].req.op = "delete" => Deleted'
  BY <1>1, <1>2, <1>4, <1>5 DEF OnlineInv
<1>8. ASSUME ~dirty
      PROVE  /\ \A d \in Callers : Rebuilding(d)' => call'[d].last = Len(log')
             /\ ~Deleted' => LiveOK'
             /\ Deleted' => DeletedOK'
  <2>1. \A d \in Callers : Rebuilding(d)' => call'[d].last = Len(log')
    BY <1>1, <1>2, <1>4, <1>8 DEF OnlineInv, Rebuilding
  <2>2. ASSUME ~Deleted, NEW e \in Entities
        PROVE  /\ \/ online'[e] = LatestIn(log', e, 1, Len(log'))
                  \/ \E d \in Callers : Rebuilding(d)' \/ Putting(d, e)'
               /\ online'[e] # 0 => e \in index' \/ \E d \in Callers : call'[d].pc = "fill"
    <3>1. LiveOK
      BY <1>8, <2>2 DEF OnlineInv
    <3>2. \A d \in Callers : Rebuilding(d) => Rebuilding(d)'
      BY <1>2, <1>4 DEF Rebuilding
    <3>3. \A d \in Callers : Putting(d, e) => Putting(d, e)'
      BY <1>1, <1>4 DEF Putting
    <3>4. \A d \in Callers : call[d].pc = "fill" => call'[d].pc = "fill"
      BY <1>1, <1>4
    <3> QED
      BY <1>1, <3>1, <3>2, <3>3, <3>4 DEF LiveOK
  <2>3. ASSUME Deleted PROVE DeletedOK'
    <3>1. DeletedOK
      BY <1>8, <2>3 DEF OnlineInv
    <3> QED
      BY <1>1, <1>2, <1>4, <3>1 DEF DeletedOK
  <2> QED
    BY <1>5, <2>1, <2>2, <2>3 DEF LiveOK
<1>9. ASSUME call[c].req.op = "rebuild", call[c].last = Len(log),
             \A e \in Entities : online[e] # 0 => e \in index,
             \A d \in Callers \ {c} : ~Exposed(d)
      PROVE  /\ \A d \in Callers : Rebuilding(d)' => call'[d].last = Len(log')
             /\ ~Deleted' => LiveOK'
             /\ Deleted' => DeletedOK'
  <2>1. \A d \in Callers \ {c} : call'[d].pc \notin {"put", "members", "purge", "fill"}
    BY <1>4, <1>9 DEF Exposed
  <2>2. \A d \in Callers : Rebuilding(d)' => call'[d].last = Len(log')
    BY <1>1, <1>2, <1>9, <2>1 DEF Rebuilding
  <2>3. Rebuilding(c)'
    BY <1>2, <1>9 DEF Rebuilding
  <2>4. LiveOK'
    BY <1>1, <1>9, <2>3 DEF LiveOK
  <2>5. DeletedOK'
    BY <1>1, <1>2, <1>9, <2>1 DEF DeletedOK
  <2> QED
    BY <2>2, <2>4, <2>5
<1>10. ~dirty' =>
         /\ \A d \in Callers : Rebuilding(d)' => call'[d].last = Len(log')
         /\ ~Deleted' => LiveOK'
         /\ Deleted' => DeletedOK'
  BY <1>3, <1>8, <1>9
<1> QED
  BY <1>6, <1>7, <1>10 DEF OnlineInv

LEMMA OnlinePurge ==
    ASSUME StoreTypeOK, OnlineInv, NEW c \in Callers, Purge(c)
    PROVE  OnlineInv'
<1>1. call[c].pc = "purge" /\ UNCHANGED <<log, dirty>> /\ online' = Purged(c) /\ index' = {}
  BY PurgeStep
<1>2. /\ Stays(c)
      /\ call[c].req.op = "delete" => call'[c].pc = "idle"
      /\ call[c].req.op # "delete" =>
            call'[c].pc = "fill" /\ call'[c].req = call[c].req /\ call'[c].last = call[c].last
  BY PurgeStep DEF Moved, Returned, Idle
<1>3. call[c].req.op \in {"rebuild", "delete"}
  <2>1. call[c] # Idle
    BY <1>1 DEF Idle
  <2> QED
    BY <1>1, <2>1, CallFacts DEF PlaceOK
<1>4. \A d \in Callers \ {c} : call'[d] = call[d]
  BY <1>2 DEF Stays
<1>5. Deleted' = Deleted
  BY <1>1 DEF Deleted, IsDeleted
<1>6. \A e \in Entities : online'[e] = IF e \in call[c].members THEN 0 ELSE online[e]
  BY <1>1 DEF Purged
<1>7. \A e \in Entities : online'[e] # 0 => online'[e] \in ValuesIn(log', e, 1, Len(log'))
  BY <1>1, <1>6 DEF OnlineInv
<1>8. \A d \in Callers : call'[d].pc \in {"members", "purge"} /\ call'[d].req.op = "delete" => Deleted'
  BY <1>2, <1>4, <1>5 DEF OnlineInv
<1>9. ASSUME ~dirty
      PROVE  /\ \A d \in Callers : Rebuilding(d)' => call'[d].last = Len(log')
             /\ ~Deleted' => LiveOK'
             /\ Deleted' => DeletedOK'
  <2>1. ASSUME NEW d \in Callers, Rebuilding(d)' PROVE call'[d].last = Len(log')
    <3>1. Rebuilding(d) /\ call'[d].last = call[d].last
      BY <1>1, <1>2, <1>4, <2>1 DEF Rebuilding
    <3> QED
      BY <1>1, <1>9, <3>1 DEF OnlineInv
  <2>2. ASSUME ~Deleted PROVE LiveOK'
    <3>1. call[c].req.op = "rebuild"
      BY <1>1, <1>3, <2>2 DEF OnlineInv
    <3>2. call'[c].pc = "fill" /\ Rebuilding(c)'
      BY <1>2, <3>1 DEF Rebuilding
    <3> QED
      BY <3>2 DEF LiveOK
  <2>3. ASSUME Deleted PROVE DeletedOK'
    <3>1. DeletedOK
      BY <1>9, <2>3 DEF OnlineInv
    <3>2. \A e \in Entities : online'[e] = 0
      BY <1>1, <1>6, <3>1 DEF DeletedOK
    <3> QED
      BY <3>2 DEF DeletedOK
  <2> QED
    BY <1>5, <2>1, <2>2, <2>3
<1> QED
  BY <1>1, <1>7, <1>8, <1>9 DEF OnlineInv

LEMMA OnlineRebuild ==
    ASSUME StoreTypeOK, OnlineInv, NEW c \in Callers, Rebuild(c)
    PROVE  OnlineInv'
<1> PICK hi : hi = call[c].last
  OBVIOUS
<1>0. /\ call[c] # Idle /\ call[c].pc = "fill" /\ UNCHANGED <<log, dirty>>
      /\ Moved(c, "offline", call[c].first, call[c].last, call[c].members)
  BY RebuildStep, Zenon
<1>1. Stays(c) /\ call'[c].pc = "offline"
  BY <1>0 DEF Moved
<1>2. \/ IsDeleted(hi) /\ UNCHANGED <<online, index>>
      \/ ~IsDeleted(hi) /\ Fill(1, hi)
  BY RebuildStep, Zenon
<1>3. \A d \in Callers \ {c} : call'[d] = call[d]
  BY <1>1 DEF Stays
<1>4. call[c].req.op = "rebuild" /\ hi \in Nat /\ hi <= Len(log) /\ Len(log) \in Nat
  <2>1. PlaceOK(call[c], Len(log)) /\ hi \in Nat /\ Len(log) \in Nat
    BY <1>0, CallFacts, LogFacts DEF StoreTypeOK
  <2> QED
    BY <1>0, <2>1 DEF PlaceOK
<1>5. Deleted' = Deleted
  BY <1>0 DEF Deleted, IsDeleted
<1>6. \A d \in Callers : call'[d].pc \in {"members", "purge"} /\ call'[d].req.op = "delete" => Deleted'
  BY <1>1, <1>3, <1>5 DEF OnlineInv
<1>7. ~dirty => \A d \in Callers : Rebuilding(d)' => call'[d].last = Len(log')
  BY <1>0, <1>1, <1>3 DEF OnlineInv, Rebuilding
<1>8. CASE IsDeleted(hi) /\ UNCHANGED <<online, index>>
  <2>1. Deleted
    BY <1>4, <1>8 DEF Deleted, IsDeleted
  <2>2. \A e \in Entities : online'[e] # 0 => online'[e] \in ValuesIn(log', e, 1, Len(log'))
    BY <1>0, <1>8 DEF OnlineInv
  <2>3. ASSUME ~dirty PROVE DeletedOK'
    <3>1. DeletedOK
      BY <2>1, <2>3 DEF OnlineInv
    <3>2. \A d \in Callers : call'[d].pc = "purge" => call'[d] = call[d]
      BY <1>1, <1>3
    <3>3. \A d \in Callers : call[d].pc \in {"members", "purge"} => call'[d] = call[d]
      BY <1>0, <1>3
    <3> QED
      BY <1>8, <3>1, <3>2, <3>3 DEF DeletedOK
  <2> QED
    BY <1>0, <1>5, <1>6, <1>7, <2>1, <2>2, <2>3 DEF OnlineInv
<1>9. CASE ~IsDeleted(hi) /\ Fill(1, hi)
  <2>1. \A e \in Entities :
          /\ ValuesIn(log, e, 1, hi) = {} => online'[e] = online[e]
          /\ ValuesIn(log, e, 1, hi) # {} => online'[e] = LatestIn(log, e, 1, hi) /\ e \in index'
    <3>1. 1 \in Nat \ {0}
      OBVIOUS
    <3>2. Fill(1, hi)
      BY <1>9
    <3> QED
      BY <1>4, <3>1, <3>2, FillFacts
  <2>2. ASSUME NEW e \in Entities, online'[e] # 0 PROVE online'[e] \in ValuesIn(log', e, 1, Len(log'))
    <3>1. ValuesIn(log, e, 1, hi) \subseteq ValuesIn(log, e, 1, Len(log))
      BY <1>4 DEF ValuesIn
    <3>2. ValuesIn(log, e, 1, hi) # {} => LatestIn(log, e, 1, hi) \in ValuesIn(log, e, 1, hi)
      BY <1>4, LatestFacts
    <3> QED
      BY <1>0, <2>1, <2>2, <3>1, <3>2 DEF OnlineInv
  <2>3. ASSUME ~dirty PROVE ~Deleted /\ LiveOK'
    <3>1. hi = Len(log)
      BY <1>0, <1>4, <2>3 DEF OnlineInv, Rebuilding
    <3>2. ~Deleted
      BY <1>9, <3>1 DEF Deleted
    <3>3. ASSUME NEW e \in Entities
          PROVE  online'[e] = LatestIn(log, e, 1, Len(log)) /\ (online'[e] # 0 => e \in index')
      <4>1. CASE ValuesIn(log, e, 1, Len(log)) = {}
        <5>1. online[e] = 0 /\ online'[e] = online[e]
          BY <2>1, <3>1, <4>1 DEF OnlineInv
        <5>2. LatestIn(log, e, 1, Len(log)) = 0
          BY <1>4, <4>1, LatestFacts
        <5> QED
          BY <5>1, <5>2
      <4>2. CASE ValuesIn(log, e, 1, Len(log)) # {}
        BY <2>1, <3>1, <4>2
      <4> QED
        BY <4>1, <4>2
    <3> QED
      BY <1>0, <3>2, <3>3 DEF LiveOK
  <2> QED
    BY <1>0, <1>5, <1>6, <1>7, <2>2, <2>3 DEF OnlineInv
<1> QED
  BY <1>2, <1>8, <1>9

LEMMA OnlineInit == StoreInit => OnlineInv
<1> SUFFICES ASSUME StoreInit PROVE OnlineInv
  OBVIOUS
<1> DEFINE w == Defined(1)
<1>1. w.type = "defined"
  BY DEF Defined
<1>2. log = <<w>> /\ online = [e \in Entities |-> 0] /\ call = [c \in Callers |-> Idle]
  BY DEF StoreInit
<1> HIDE DEF w
<1>3. Len(log) = 1 /\ log[1] = w
  BY <1>2
<1>4. \A i \in 1..Len(log) : log[i].type = "defined"
  BY <1>1, <1>3
<1>5. \A c \in Callers : call[c].pc = "idle"
  BY <1>2 DEF Idle
<1>6. ~Deleted
  BY <1>4 DEF Deleted, IsDeleted
<1>7. \A e \in Entities : online[e] = 0
  BY <1>2
<1>8. ASSUME NEW e \in Entities PROVE LatestIn(log, e, 1, Len(log)) = 0
  <2>1. ValuesIn(log, e, 1, Len(log)) = {}
    BY <1>4 DEF ValuesIn
  <2> QED
    BY <2>1 DEF LatestIn
<1>9. LiveOK
  BY <1>7, <1>8 DEF LiveOK
<1> QED
  BY <1>5, <1>6, <1>7, <1>9 DEF OnlineInv, Rebuilding

LEMMA OnlineNext ==
    ASSUME StoreTypeOK, OnlineInv, [StoreNext]_storeVars
    PROVE  OnlineInv'
<1>1. ASSUME NEW c \in Callers, Load(c)
      PROVE  OnlineInv'
  <2>1. UNCHANGED <<log, views, dirty>> /\ call[c].pc = "load"
    BY <1>1, LoadStep
  <2>2. /\ Stays(c)
        /\ \/ call'[c].pc \in {"lookup", "idle"}
           \/ call'[c].pc = "members" /\ call'[c].req.op = "rebuild" /\ call'[c].last = Len(log)
    BY <1>1, LoadStep DEF Moved, Returned, Idle
  <2> QED
    BY <2>1, <2>2, OnlineKept DEF views, Exposed
<1>2. ASSUME NEW c \in Callers, Lookup(c)
      PROVE  OnlineInv'
  <2>1. UNCHANGED <<log, views, dirty>> /\ call[c].pc = "lookup"
    BY <1>2, LookupStep
  <2>2. Stays(c) /\ call'[c].pc \in {"insert", "put"}
    BY <1>2, LookupStep DEF Moved
  <2> QED
    BY <2>1, <2>2, OnlineKept DEF views, Exposed
<1>3. ASSUME NEW c \in Callers, Publish(c)
      PROVE  OnlineInv'
  <2>1. UNCHANGED <<log, views, dirty>> /\ call[c].pc = "publish"
    BY <1>3, PublishStep
  <2>2. Stays(c) /\ call'[c].pc = "idle"
    BY <1>3, PublishStep DEF Returned, Idle
  <2> QED
    BY <2>1, <2>2, OnlineKept DEF views, Exposed
<1>4. ASSUME NEW c \in Callers, RebuildOffline(c)
      PROVE  OnlineInv'
  <2>1. UNCHANGED <<log, online, index, dirty>> /\ call[c].pc = "offline"
    BY <1>4, OfflineStep
  <2>2. Stays(c) /\ call'[c].pc = "idle"
    BY <1>4, OfflineStep DEF Returned, Idle
  <2> QED
    BY <2>1, <2>2, OnlineKept DEF Exposed
<1>5. ASSUME NEW c \in Callers, Fails(c)
      PROVE  OnlineInv'
  <2>1. UNCHANGED <<log, views>> /\ (~dirty' => ~dirty /\ ~Exposed(c))
    BY <1>5, FailsStep
  <2>2. Stays(c) /\ call'[c].pc = "idle"
    BY <1>5, FailsStep DEF Returned, Idle
  <2> QED
    BY <2>1, <2>2, OnlineKept DEF views
<1>6. ASSUME NEW c \in Callers, NEW r \in Requests, Begin(c, r)
      PROVE  OnlineInv'
  <2>1. UNCHANGED <<log, views, dirty>> /\ call[c].pc = "idle"
    BY <1>6, BeginStep DEF Idle
  <2>2. Stays(c) /\ call'[c].pc = "load"
    BY <1>6, BeginStep
  <2> QED
    BY <2>1, <2>2, OnlineKept DEF views, Exposed
<1>7. CASE Restart
  <2>1. UNCHANGED <<log, online, index>> /\ call' = [c \in Callers |-> Idle]
    BY <1>7 DEF Restart, views
  <2>2. \A c \in Callers : call'[c].pc = "idle"
    BY <2>1 DEF Idle
  <2>3. Deleted' = Deleted
    BY <2>1 DEF Deleted, IsDeleted
  <2>4. ~dirty' => ~dirty /\ \A c \in Callers : ~Exposed(c)
    BY <1>7 DEF Restart
  <2>5. \A e \in Entities : online'[e] # 0 => online'[e] \in ValuesIn(log', e, 1, Len(log'))
    BY <2>1 DEF OnlineInv
  <2>6. ASSUME ~dirty', NEW e \in Entities
        PROVE  /\ Deleted => online[e] = 0
               /\ ~Deleted => online[e] = LatestIn(log, e, 1, Len(log)) /\ (online[e] # 0 => e \in index)
    BY <2>4, <2>6, CaughtUp
  <2>7. ~dirty' /\ ~Deleted' => LiveOK'
    BY <2>1, <2>3, <2>6 DEF LiveOK
  <2>8. ~dirty' /\ Deleted' => DeletedOK'
    BY <2>1, <2>3, <2>6 DEF DeletedOK
  <2> QED
    BY <2>2, <2>5, <2>7, <2>8 DEF OnlineInv, Rebuilding
<1>8. CASE UNCHANGED storeVars
  <2>1. UNCHANGED <<log, online, index, call, dirty>>
    BY <1>8 DEF storeVars, views
  <2> QED
    BY <2>1 DEF OnlineInv, LiveOK, DeletedOK, Rebuilding, Putting, Deleted, IsDeleted
<1> QED
  BY <1>1, <1>2, <1>3, <1>4, <1>5, <1>6, <1>7, <1>8, OnlineInsert, OnlinePut, OnlineMembers, OnlinePurge, OnlineRebuild
     DEF StoreNext, Command

LEMMA OnlineIsLatestHolds == ASSUME StoreTypeOK, OnlineInv PROVE OnlineIsLatest
<1> SUFFICES ASSUME ~dirty, \A c \in Callers : ~Exposed(c)
             PROVE  online = [e \in Entities |-> IF Deleted THEN 0 ELSE ProjectLatest(e, 1, Len(log))]
  BY DEF OnlineIsLatest
<1>1. \A e \in Entities : online[e] = IF Deleted THEN 0 ELSE ProjectLatest(e, 1, Len(log))
  BY CaughtUp, FoldNames
<1>2. online \in [Entities -> Nat]
  BY DEF StoreTypeOK
<1> QED
  BY <1>1, <1>2

-----------------------------------------------------------------------------
(* FeatureStore: history *)

\* The point-in-time fold, one event at a time; over the prefixes of the log it is this
\* function's value.
PickAsOf(best, i, e, t) ==
    IF log[i].type # "value" \/ log[i].entity # e \/ log[i].time > t THEN best
    ELSE IF best = 0 \/ MoreRecentAsOf(i, best) THEN i ELSE best
IsPass(h, len, e, t) ==
    h = [s \in SUBSET (1..len) |-> IF s = {} THEN 0 ELSE PickAsOf(h[s \ {Max(s)}], Max(s), e, t)]

LEMMA MaxOfPrefix ==
    ASSUME NEW len \in Nat, NEW s \in SUBSET (1..len), s # {}
    PROVE  Max(s) \in s /\ Max(s) \in 1..len /\ \A y \in s : y <= Max(s)
<1>1. s \in SUBSET Nat /\ \A x \in s : x <= len
  OBVIOUS
<1> QED
  BY <1>1, MaxBounded

LEMMA PassExists ==
    ASSUME NEW len \in Nat, NEW e, NEW t
    PROVE  \E h : IsPass(h, len, e, t)
<1> DEFINE Body(f, s) == IF s = {} THEN 0 ELSE PickAsOf(f[s \ {Max(s)}], Max(s), e, t)
           T == {x \in Nat : \E f : f = [s \in SUBSET (1..x) |-> Body(f, s)]}
<1>1. 0 \in T
  <2>1. \A s \in SUBSET (1..0) : s = {}
    OBVIOUS
  <2> DEFINE f == [s \in SUBSET (1..0) |-> 0]
  <2>2. f = [s \in SUBSET (1..0) |-> Body(f, s)]
    BY <2>1
  <2> QED
    BY <2>2
<1>2. ASSUME NEW x \in T
      PROVE  x + 1 \in T
  <2>1. PICK f : f = [s \in SUBSET (1..x) |-> Body(f, s)]
    OBVIOUS
  <2> DEFINE k == [s \in SUBSET (1..(x + 1)) |-> Body(f, s)]
  <2>2. ASSUME NEW s \in SUBSET (1..(x + 1))
        PROVE  Body(f, s) = Body(k, s)
    <3>1. CASE s = {}
      BY <3>1
    <3>2. CASE s # {}
      <4> DEFINE u == s \ {Max(s)}
      <4>1. Max(s) \in 1..(x + 1) /\ \A y \in s : y <= Max(s)
        BY <3>2, MaxOfPrefix
      <4>2. u \in SUBSET (1..x) /\ u \in SUBSET (1..(x + 1))
        <5>1. x \in Nat
          OBVIOUS
        <5>2. ASSUME NEW y \in u PROVE y \in 1..x /\ y \in 1..(x + 1)
          <6>1. y \in 1..(x + 1) /\ y <= Max(s) /\ y # Max(s)
            BY <4>1
          <6> QED
            BY <4>1, <5>1, <6>1
        <5> QED
          BY <5>2
      <4>3. f[u] = Body(f, u) /\ k[u] = Body(f, u)
        BY <2>1, <4>2
      <4> QED
        BY <3>2, <4>3
    <3> QED
      BY <3>1, <3>2
  <2>3. k = [s \in SUBSET (1..(x + 1)) |-> Body(k, s)]
    <3> HIDE DEF Body
    <3> QED
      BY <2>2
  <2>4. x + 1 \in Nat
    OBVIOUS
  <2> HIDE DEF k, Body
  <2> QED
    BY <2>3, <2>4
<1>3. len \in T
  <2>1. T \in SUBSET Nat
    OBVIOUS
  <2> HIDE DEF T
  <2> QED
    BY <1>1, <1>2, <2>1, SetInduction
<1>4. PICK f : f = [s \in SUBSET (1..len) |-> Body(f, s)]
  BY <1>3
<1> QED
  BY <1>4 DEF IsPass

\* FoldLeft is that function's value on the whole log.
LEMMA AsOfIsPass ==
    ASSUME Len(log) \in Nat, NEW e, NEW t
    PROVE  \E h : ProjectAsOf(e, t) = h[1..Len(log)] /\ IsPass(h, Len(log), e, t)
<1> DEFINE D == DOMAIN [i \in 1..Len(log) |-> i]
           Q(h) == h = [s \in SUBSET D |-> IF s = {} THEN 0
                                           ELSE PickAsOf(h[s \ {Max(s)}], [i \in 1..Len(log) |-> i][Max(s)], e, t)]
<1>1. D = 1..Len(log)
  OBVIOUS
<1>2. ASSUME NEW h PROVE Q(h) <=> IsPass(h, Len(log), e, t)
  <2>1. \A s \in SUBSET (1..Len(log)) : s # {} => [i \in 1..Len(log) |-> i][Max(s)] = Max(s)
    BY MaxOfPrefix
  <2>2. [s \in SUBSET D |-> IF s = {} THEN 0
                            ELSE PickAsOf(h[s \ {Max(s)}], [i \in 1..Len(log) |-> i][Max(s)], e, t)]
        = [s \in SUBSET (1..Len(log)) |-> IF s = {} THEN 0 ELSE PickAsOf(h[s \ {Max(s)}], Max(s), e, t)]
    BY <1>1, <2>1
  <2> QED
    BY <2>2 DEF IsPass
<1>3. ProjectAsOf(e, t) = (CHOOSE h : Q(h))[D]
  BY DEF ProjectAsOf, FoldLeft, MapThenFoldSet, PickAsOf
<1>4. \E h : Q(h)
  BY <1>2, PassExists
<1> DEFINE k == CHOOSE h : Q(h)
<1>5. Q(k)
  <2> HIDE DEF Q
  <2> QED
    BY <1>4
<1>6. ProjectAsOf(e, t) = k[1..Len(log)] /\ IsPass(k, Len(log), e, t)
  <2>1. IsPass(k, Len(log), e, t)
    BY <1>2, <1>5
  <2> QED
    BY <1>1, <1>3, <2>1
<1> QED
  BY <1>6

\* What is visible of a prefix, and its greatest event by time, then version.
VisibleIn(len, e, t) == {i \in ValuesIn(log, e, 1, len) : log[i].time <= t}
IsBest(x, V) ==
    IF V = {} THEN x = 0
    ELSE /\ x \in V
         /\ \A i \in V : log[i].time < log[x].time \/ (log[i].time = log[x].time /\ i <= x)

\* One more event keeps the best.
LEMMA PickKeepsBest ==
    ASSUME LogOK, NEW e \in Entities, NEW t \in Times, NEW x \in Nat, x + 1 \in 1..Len(log),
           NEW best, IsBest(best, VisibleIn(x, e, t))
    PROVE  IsBest(PickAsOf(best, x + 1, e, t), VisibleIn(x + 1, e, t))
<1> DEFINE V == VisibleIn(x, e, t)
           W == VisibleIn(x + 1, e, t)
<1>1. \A i \in 1..Len(log) : log[i].type = "value" => log[i].time \in Nat
  BY TimesAssumption DEF LogOK
<1>2. Len(log) \in Nat /\ t \in Nat
  BY LogFacts, TimesAssumption
<1>3. \A i \in V : i \in 1..x /\ i \in 1..Len(log) /\ log[i].time \in Nat
  BY <1>1, <1>2 DEF VisibleIn, ValuesIn
<1>4. CASE log[x + 1].type # "value" \/ log[x + 1].entity # e \/ log[x + 1].time > t
  <2>1. x + 1 \notin W
    BY <1>1, <1>2, <1>4 DEF VisibleIn, ValuesIn
  <2>2. \A i : i \in W <=> i \in V \/ (i = x + 1 /\ i \in W)
    BY DEF VisibleIn, ValuesIn
  <2>3. W = V
    BY <2>1, <2>2
  <2>4. PickAsOf(best, x + 1, e, t) = best
    BY <1>4 DEF PickAsOf
  <2> QED
    BY <2>3, <2>4
<1>5. CASE ~(log[x + 1].type # "value" \/ log[x + 1].entity # e \/ log[x + 1].time > t)
  <2>1. log[x + 1].time \in Nat /\ x + 1 \in W
    BY <1>1, <1>2, <1>5 DEF VisibleIn, ValuesIn
  <2>2. \A i : i \in W <=> i \in V \/ i = x + 1
    BY <2>1 DEF VisibleIn, ValuesIn
  <2>3. PickAsOf(best, x + 1, e, t) = IF best = 0 \/ MoreRecentAsOf(x + 1, best) THEN x + 1 ELSE best
    BY <1>5 DEF PickAsOf
  <2> HIDE DEF V, W
  <2>4. CASE V = {}
    <3>1. PickAsOf(best, x + 1, e, t) = x + 1 /\ \A i \in W : i = x + 1
      BY <2>2, <2>3, <2>4 DEF IsBest, V
    <3> QED
      BY <2>1, <3>1 DEF IsBest, W
  <2>5. CASE V # {}
    <3>1. best \in V /\ \A i \in V : log[i].time < log[best].time \/ (log[i].time = log[best].time /\ i <= best)
      BY <2>5 DEF IsBest, V
    <3>2. best # 0 /\ best <= x /\ best \in Nat /\ log[best].time \in Nat
      BY <1>3, <3>1
    <3>3. CASE log[x + 1].time >= log[best].time
      <4>1. MoreRecentAsOf(x + 1, best)
        BY <2>1, <3>2, <3>3 DEF MoreRecentAsOf
      <4>2. PickAsOf(best, x + 1, e, t) = x + 1
        BY <2>3, <4>1
      <4>3. ASSUME NEW i \in W
            PROVE  log[i].time < log[x + 1].time \/ (log[i].time = log[x + 1].time /\ i <= x + 1)
        <5>1. CASE i = x + 1
          BY <2>1, <5>1
        <5>2. CASE i \in V
          BY <1>3, <2>1, <3>1, <3>2, <3>3, <5>2
        <5> QED
          BY <2>2, <5>1, <5>2
      <4> QED
        BY <2>1, <4>2, <4>3 DEF IsBest, W
    <3>4. CASE ~(log[x + 1].time >= log[best].time)
      <4>1. ~MoreRecentAsOf(x + 1, best) /\ log[x + 1].time < log[best].time
        BY <2>1, <3>2, <3>4 DEF MoreRecentAsOf
      <4>2. PickAsOf(best, x + 1, e, t) = best
        BY <2>3, <3>2, <4>1
      <4>3. best \in W /\ \A i \in W : log[i].time < log[best].time \/ (log[i].time = log[best].time /\ i <= best)
        BY <2>2, <3>1, <4>1
      <4> QED
        BY <4>2, <4>3 DEF IsBest, W
    <3> QED
      BY <3>3, <3>4
  <2> QED
    BY <2>4, <2>5
<1> QED
  BY <1>4, <1>5

LEMMA AsOfIsBest ==
    ASSUME LogOK, NEW e \in Entities, NEW t \in Times
    PROVE  IsBest(ProjectAsOf(e, t), VisibleIn(Len(log), e, t))
<1>1. Len(log) \in Nat
  BY LogFacts
<1>2. PICK h : ProjectAsOf(e, t) = h[1..Len(log)] /\ IsPass(h, Len(log), e, t)
  BY <1>1, AsOfIsPass
<1>3. \A s \in SUBSET (1..Len(log)) : h[s] = IF s = {} THEN 0 ELSE PickAsOf(h[s \ {Max(s)}], Max(s), e, t)
  BY <1>2 DEF IsPass
<1> DEFINE S == {x \in Nat : x <= Len(log) => IsBest(h[1..x], VisibleIn(x, e, t))}
<1>4. 0 \in S
  <2>1. VisibleIn(0, e, t) = {}
    BY DEF VisibleIn, ValuesIn
  <2>2. 1..0 = {} /\ 1..0 \in SUBSET (1..Len(log))
    OBVIOUS
  <2>3. h[1..0] = 0
    BY <1>3, <2>2
  <2> QED
    BY <2>1, <2>3 DEF IsBest
<1>5. ASSUME NEW x \in S PROVE x + 1 \in S
  <2>1. x \in Nat /\ x + 1 \in Nat
    OBVIOUS
  <2>2. ASSUME x + 1 <= Len(log) PROVE IsBest(h[1..(x + 1)], VisibleIn(x + 1, e, t))
    <3> DEFINE s == 1..(x + 1)
    <3>1. IsBest(h[1..x], VisibleIn(x, e, t))
      <4>1. x <= Len(log)
        BY <1>1, <2>1, <2>2
      <4>2. x <= Len(log) => IsBest(h[1..x], VisibleIn(x, e, t))
        OBVIOUS
      <4> QED
        BY <4>1, <4>2
    <3>2. s \in SUBSET (1..Len(log)) /\ s # {} /\ s \in SUBSET (1..(x + 1)) /\ x + 1 \in s
      <4>1. \A y \in 1..(x + 1) : y \in 1..Len(log)
        BY <1>1, <2>1, <2>2
      <4>2. x + 1 \in 1..(x + 1)
        BY <2>1
      <4> QED
        BY <4>1, <4>2
    <3>3. Max(s) \in s /\ \A y \in s : y <= Max(s)
      BY <2>1, <3>2, MaxOfPrefix
    <3>4. Max(s) = x + 1
      BY <2>1, <3>2, <3>3
    <3>5. s \ {x + 1} = 1..x
      BY <2>1
    <3>6. h[s] = PickAsOf(h[1..x], x + 1, e, t)
      <4>1. h[s] = PickAsOf(h[s \ {Max(s)}], Max(s), e, t)
        <5> HIDE DEF s
        <5> QED
          BY <1>3, <3>2
      <4> QED
        BY <3>4, <3>5, <4>1
    <3>7. x + 1 \in 1..Len(log)
      BY <2>1, <2>2, <1>1
    <3>8. PICK best : best = h[1..x]
      OBVIOUS
    <3>9. IsBest(PickAsOf(best, x + 1, e, t), VisibleIn(x + 1, e, t))
      BY <2>1, <3>1, <3>7, <3>8, PickKeepsBest
    <3> QED
      BY <3>6, <3>8, <3>9
  <2> QED
    BY <2>1, <2>2
<1>6. Len(log) \in S
  <2>1. S \in SUBSET Nat
    OBVIOUS
  <2> HIDE DEF S
  <2> QED
    BY <1>1, <1>4, <1>5, <2>1, SetInduction
<1> QED
  BY <1>1, <1>2, <1>6

LEMMA OfflineInit == StoreInit => OfflineInv
<1> SUFFICES ASSUME StoreInit PROVE OfflineInv
  OBVIOUS
<1>1. \A e \in Entities : LatestIn(log, e, 1, 0) = 0
  BY DEF LatestIn, ValuesIn
<1>2. offline = [e \in Entities |-> LatestIn(log, e, 1, 0)]
  BY <1>1 DEF StoreInit
<1>3. Len(log) \in Nat
  BY TypeInit, LogFacts DEF StoreTypeOK
<1> QED
  BY <1>2, <1>3 DEF OfflineInv

LEMMA OfflineNext ==
    ASSUME StoreTypeOK, OfflineInv, [StoreNext]_storeVars
    PROVE  OfflineInv'
<1>1. UNCHANGED <<log, offline>> => OfflineInv'
  BY DEF OfflineInv
<1>2. ASSUME NEW c \in Callers, Insert(c)
      PROVE  OfflineInv'
  <2>1. PICK p \in 0..Len(log) : offline = [e \in Entities |-> LatestIn(log, e, 1, p)]
    BY DEF OfflineInv
  <2>2. Len(log) \in Nat /\ Len(log') \in Nat /\ Len(log) < Len(log')
    BY <1>2, AppendedLog
  <2>3. \A i \in 1..Len(log) : log'[i] = log[i]
    BY <1>2, InsertStep
  <2>4. \A e \in Entities : LatestIn(log', e, 1, p) = LatestIn(log, e, 1, p)
    BY <2>2, <2>3, LatestOfPrefix
  <2>5. UNCHANGED views
    BY <1>2, InsertStep
  <2>6. offline' = [e \in Entities |-> LatestIn(log', e, 1, p)]
    BY <2>1, <2>4, <2>5 DEF views
  <2>7. p \in 0..Len(log')
    BY <2>2
  <2> QED
    BY <2>6, <2>7 DEF OfflineInv
<1>3. ASSUME NEW c \in Callers, RebuildOffline(c)
      PROVE  OfflineInv'
  <2>1. UNCHANGED log /\ offline' = [e \in Entities |-> LatestIn(log, e, 1, call[c].last)]
    BY <1>3, OfflineStep, FoldNames
  <2>2. call[c].last \in Nat /\ PlaceOK(call[c], Len(log)) /\ Len(log) \in Nat
    BY <1>3, OfflineStep, CallFacts, LogFacts DEF StoreTypeOK
  <2>3. call[c].last \in 0..Len(log)
    BY <2>2 DEF PlaceOK
  <2> QED
    BY <2>1, <2>3 DEF OfflineInv
<1>4. ASSUME NEW c \in Callers, Load(c) \/ Lookup(c) \/ Put(c) \/ Publish(c) \/ Members(c) \/ Purge(c)
      PROVE  UNCHANGED <<log, offline>>
  BY <1>4 DEF Load, Lookup, Put, Publish, Members, Purge, views
<1>5. ASSUME NEW c \in Callers, Rebuild(c) PROVE UNCHANGED <<log, offline>>
  BY <1>5 DEF Rebuild
<1>6. ASSUME NEW c \in Callers, Fails(c) \/ \E r \in Requests : Begin(c, r) PROVE UNCHANGED <<log, offline>>
  BY <1>6 DEF Fails, Begin, views
<1>7. Restart => UNCHANGED <<log, offline>>
  BY DEF Restart, views
<1>8. UNCHANGED storeVars => UNCHANGED <<log, offline>>
  BY DEF storeVars, views
<1> QED
  BY <1>1, <1>2, <1>3, <1>4, <1>5, <1>6, <1>7, <1>8 DEF StoreNext, Command

LEMMA HistoryHolds == ASSUME StoreTypeOK, OfflineInv PROVE HistoryIsExact
<1>1. ASSUME NEW e \in Entities, NEW t \in Times
      PROVE  IsBest(ProjectAsOf(e, t), {i \in Values(e, 1, Len(log)) : log[i].time <= t})
  BY AsOfIsBest, FoldNames DEF StoreTypeOK, VisibleIn
<1>2. \E p \in 0..Len(log) : offline = [e \in Entities |-> ProjectLatest(e, 1, p)]
  BY FoldNames DEF OfflineInv
<1> QED
  BY <1>1, <1>2 DEF HistoryIsExact, IsBest

-----------------------------------------------------------------------------
(* FeatureStore: the theorems *)

StoreInv == StoreTypeOK /\ KeyInv /\ OnlineInv /\ OfflineInv

\* Every reachable state of the feature store is well typed, and the invariant the other
\* theorems rest on holds of it.
THEOREM StoreInvariant == StoreSpec => []StoreInv
<1>1. StoreInit => StoreInv
  BY TypeInit, KeyInit, OnlineInit, OfflineInit DEF StoreInv
<1>2. StoreInv /\ [StoreNext]_storeVars => StoreInv'
  BY TypeNext, KeyNext, OnlineNext, OfflineNext DEF StoreInv
<1> QED
  BY <1>1, <1>2, PTL DEF StoreSpec

\* OncePerKey (EventLog.Append and the publishing decorator): whatever fails and is retried,
\* a key's batch is appended once and announced once per process, unless two calls with
\* the key overlapped.
THEOREM BatchOncePerKey == StoreSpec => []OncePerKey
<1>1. StoreInv => OncePerKey
  BY OncePerKeyHolds DEF StoreInv
<1> QED
  BY <1>1, StoreInvariant, PTL

\* OnlineIsLatest (OnlineViewStore.Put, Purge and the rebuild): with nobody between the log
\* and Redis, and nothing disturbed since the last clean rebuild, the online view is the
\* latest-per-entity fold of the log, and empty for a deleted view.
THEOREM OnlineViewIsLatest == StoreSpec => []OnlineIsLatest
<1>1. StoreInv => OnlineIsLatest
  BY OnlineIsLatestHolds DEF StoreInv
<1> QED
  BY <1>1, StoreInvariant, PTL

\* HistoryIsExact (projectAsOf and the offline rebuild): the one-pass point-in-time fold
\* returns the greatest visible event by time, then version, for a log of any length; and
\* the offline table is the fold of a prefix of the log.
THEOREM PointInTimeIsExact == StoreSpec => []HistoryIsExact
<1>1. StoreInv => HistoryIsExact
  BY HistoryHolds DEF StoreInv
<1> QED
  BY <1>1, StoreInvariant, PTL
=============================================================================
