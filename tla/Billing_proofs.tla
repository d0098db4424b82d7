--------------------------- MODULE Billing_proofs ---------------------------
(***************************************************************************)
(* Proofs about billing.  OutboxRelay, for any number of rows, relays and   *)
(* faults: no event is lost or invented, and the outbox implements          *)
(* ReliableOutbox.  UsageMetering, for any number of RecordUsage calls,     *)
(* keys, faults and billing periods: idempotency, the atomic outbox, the     *)
(* free units and the quota alarm.  The last two are about sums over the     *)
(* ledger, which the section on sums makes available: what Total adds up     *)
(* does not depend on the order.                                            *)
(***************************************************************************)
EXTENDS OutboxRelay, UsageMetering, FiniteSetTheorems, WellFoundedInduction, TLAPS

-----------------------------------------------------------------------------
(* OutboxRelay *)


\* A relay only works on committed rows, and marks only what JetStream stored.
RelayInv ==
    /\ \A r \in Relays : batch[r] \subseteq outbox
    /\ \A r \in Relays : pc[r] = "mark" => \A w \in Rows : Current(r, w) => w \in InStream
    /\ marked \subseteq InStream

\* Messages carry their row's id, and the broker remembers only what it stored.
BrokerInv ==
    /\ ledger = outbox
    /\ \A i \in 1..Len(stream) : stream[i].env = stream[i].row /\ stream[i].row \in ledger
    /\ window \subseteq InStream

\* The consumer's store holds exactly the rows whose event took effect.
ConsumerInv ==
    /\ processed \subseteq ledger
    /\ \A w \in Rows : effects[w] = IF w \in processed THEN 1 ELSE 0

Inv == TypeOK /\ RelayInv /\ BrokerInv /\ ConsumerInv

-----------------------------------------------------------------------------
\* Finishing a row keeps the relay's variables typed and its batch within the old one.
LEMMA FinishRowType ==
    ASSUME TypeOK, NEW r \in Relays, NEW w \in Rows, NEW n \in Nat,
           w \in batch[r], FinishRow(r, w, n)
    PROVE  /\ pc' \in [Relays -> {"wait", "claim", "publish", "mark", "dead"}]
           /\ batch' \in [Relays -> SUBSET Rows] /\ count' \in [Relays -> Nat]
           /\ \A q \in Relays : pc'[q] \in {"publish", "mark"} => batch'[q] # {}
           /\ \A q \in Relays : batch'[q] \subseteq batch[q]
           /\ pc'[r] # "mark"
           /\ \A q \in Relays \ {r} : pc'[q] = pc[q] /\ batch'[q] = batch[q]
<1>1. /\ pc' \in [Relays -> {"wait", "claim", "publish", "mark", "dead"}]
      /\ batch' \in [Relays -> SUBSET Rows] /\ count' \in [Relays -> Nat]
  BY DEF TypeOK, FinishRow
<1>2. pc'[r] \in {"publish", "mark"} => batch'[r] # {}
  BY SMT DEF TypeOK, FinishRow
<1>3. pc'[r] # "mark" /\ batch'[r] \subseteq batch[r]
  BY SMT DEF TypeOK, FinishRow
<1>4. \A q \in Relays \ {r} : pc'[q] = pc[q] /\ batch'[q] = batch[q]
  BY DEF TypeOK, FinishRow
<1>. QED
  BY <1>1, <1>2, <1>3, <1>4 DEF TypeOK

\* Storing a message adds its row to the stream, and nothing else.
LEMMA StoreFacts ==
    ASSUME TypeOK, BrokerInv, NEW w \in Rows, Store(w)
    PROVE  /\ stream' \in Seq(Message) /\ window' \subseteq Nat
           /\ Len(stream) <= Len(stream')
           /\ InStream' = InStream \cup {w}
           /\ window' = window \cup {w}
           /\ \A i \in 1..Len(stream') :
                 \/ i \in 1..Len(stream) /\ stream'[i] = stream[i]
                 \/ stream'[i] = [env |-> w, row |-> w]
<1>. w \in Nat
  BY SizesAssumption DEF Rows
<1>1. CASE w \in window
  <2>1. stream' = stream /\ window' = window \cup {w}
    BY <1>1 DEF Store, EnvelopeID
  <2>2. InStream' = InStream
    BY <2>1 DEF InStream
  <2>3. w \in InStream
    BY <1>1 DEF BrokerInv
  <2>. QED
    BY <2>1, <2>2, <2>3 DEF TypeOK
<1>2. CASE w \notin window
  <2>. DEFINE m == [env |-> w, row |-> w]
  <2>1. stream' = Append(stream, m) /\ window' = window \cup {w} /\ m \in Message
    BY <1>2 DEF Store, EnvelopeID, Message
  <2>. HIDE DEF m
  <2>2. /\ stream \in Seq(Message) /\ stream' \in Seq(Message)
        /\ Len(stream') = Len(stream) + 1 /\ stream'[Len(stream) + 1] = m
        /\ \A i \in 1..Len(stream) : stream'[i] = stream[i]
    BY <2>1, SMT DEF TypeOK
  <2>3. m.row = w
    BY DEF m
  <2>4. InStream' = InStream \cup {w}
    <3>1. \A v : v \in InStream' <=> \E i \in 1..Len(stream') : v = stream'[i].row
      BY DEF InStream
    <3>2. \A v : v \in InStream <=> \E i \in 1..Len(stream) : v = stream[i].row
      BY DEF InStream
    <3>3. \A i \in 1..Len(stream') : i \in 1..Len(stream) \/ i = Len(stream) + 1
      BY <2>2
    <3>4. \A i \in 1..Len(stream) : i \in 1..Len(stream')
      BY <2>2
    <3>5. Len(stream) + 1 \in 1..Len(stream')
      BY <2>2
    <3>. QED
      BY <2>2, <2>3, <3>1, <3>2, <3>3, <3>4, <3>5
  <2>5. \A i \in 1..Len(stream') : i \in 1..Len(stream) \/ i = Len(stream) + 1
    BY <2>2
  <2>6. Len(stream) <= Len(stream')
    BY <2>2
  <2>7. window' \subseteq Nat
    BY <2>1 DEF TypeOK
  <2>. QED
    BY <2>1, <2>2, <2>4, <2>5, <2>6, <2>7 DEF m
<1>. QED
  BY <1>1, <1>2

-----------------------------------------------------------------------------
\* The invariant holds initially.
LEMMA InitInv == Init => Inv
<1>. SUFFICES ASSUME Init PROVE Inv
  OBVIOUS
<1>. USE DEF Init
<1>1. InStream = {}
  BY SMT DEF InStream
<1>2. TypeOK
  BY SizesAssumption DEF TypeOK, Rows
<1>3. RelayInv
  BY <1>1 DEF RelayInv
<1>4. BrokerInv
  BY <1>1, SMT DEF BrokerInv
<1>5. ConsumerInv
  BY DEF ConsumerInv
<1>. QED
  BY <1>2, <1>3, <1>4, <1>5 DEF Inv

\* What a step that leaves broker and consumer alone keeps of the stream.
LEMMA SameStream == ASSUME UNCHANGED broker PROVE InStream' = InStream
  BY DEF InStream, broker

\* The writers' transactions preserve the invariant.
LEMMA WriterInv ==
    ASSUME Inv, NEW w \in Rows, CommitTx(w) \/ RollbackTx(w)
    PROVE  Inv'
<1>. USE DEF Inv
<1>1. /\ UNCHANGED <<marked, relay, broker, consumer>>
      /\ ledger' = outbox' /\ ledger \subseteq ledger' /\ ledger' \subseteq Rows
      /\ wpc' \in [Rows -> {"new", "committed", "aborted"}] /\ faults' \in 0..MaxFaults
  <2>1. CASE CommitTx(w)
    BY <2>1 DEF CommitTx, TypeOK, BrokerInv
  <2>2. CASE RollbackTx(w)
    <3>1. faults' \in 0..MaxFaults
      BY <2>2, SizesAssumption DEF RollbackTx, Fault, TypeOK
    <3>. QED
      BY <2>2, <3>1 DEF RollbackTx, TypeOK, BrokerInv
  <2>. QED
    BY <2>1, <2>2
<1>2. InStream' = InStream
  BY <1>1, SameStream
<1>3. TypeOK'
  BY <1>1 DEF TypeOK, relay, broker, consumer
<1>4. RelayInv'
  BY <1>1, <1>2 DEF RelayInv, BrokerInv, Current, relay
<1>5. BrokerInv'
  BY <1>1, <1>2 DEF BrokerInv, broker
<1>6. ConsumerInv'
  BY <1>1 DEF ConsumerInv, consumer
<1>. QED
  BY <1>3, <1>4, <1>5, <1>6

\* Steps of a relay that touch only its own control state: claims, waits, crashes.
LEMMA ControlInv ==
    ASSUME Inv, NEW r \in Relays,
           \/ Claim(r) \/ ClaimFails(r) \/ ClaimTimesOut(r)
           \/ Tick(r) \/ CrashRestart(r)
    PROVE  Inv'
<1>. USE DEF Inv
<1>1. UNCHANGED <<writers, marked, broker, consumer>> /\ faults' \in 0..MaxFaults
  BY SizesAssumption DEF Claim, ClaimFails, ClaimTimesOut, Tick, CrashRestart, Fault, TypeOK
<1>2. /\ pc' \in [Relays -> {"wait", "claim", "publish", "mark", "dead"}]
      /\ batch' \in [Relays -> SUBSET Rows] /\ count' \in [Relays -> Nat]
      /\ batch'[r] \subseteq outbox /\ pc'[r] # "mark"
      /\ pc'[r] = "publish" => batch'[r] # {}
      /\ \A q \in Relays \ {r} : pc'[q] = pc[q] /\ batch'[q] = batch[q]
  <2>1. CASE Claim(r)
    <3>1. Oldest(Unpublished) \subseteq outbox
      BY DEF Oldest, Unpublished
    <3>. HIDE DEF Inv
    <3>. QED
      BY <2>1, <3>1 DEF Inv, Claim, TypeOK
  <2>2. CASE ClaimFails(r) \/ ClaimTimesOut(r) \/ Tick(r)
    BY <2>2 DEF ClaimFails, ClaimTimesOut, Tick, TypeOK, RelayInv
  <2>3. CASE CrashRestart(r)
    BY <2>3 DEF CrashRestart, TypeOK
  <2>. QED
    BY <2>1, <2>2, <2>3
<1>3. InStream' = InStream
  BY <1>1, SameStream
<1>4. TypeOK'
  BY <1>1, <1>2 DEF TypeOK, writers, broker, consumer
<1>5. RelayInv'
  BY <1>1, <1>2, <1>3 DEF RelayInv, Current, writers
<1>6. BrokerInv' /\ ConsumerInv'
  BY <1>1, <1>3 DEF BrokerInv, ConsumerInv, writers, broker, consumer
<1>. QED
  BY <1>4, <1>5, <1>6

\* Steps that finish a row without storing a message: the decode error and both
\* outcomes of the mark.
LEMMA FinishInv ==
    ASSUME Inv, NEW r \in Relays, NEW w \in Rows,
           SkipPoison(r, w) \/ MarkPublished(r, w) \/ MarkFails(r, w)
    PROVE  Inv'
<1>. USE DEF Inv
<1>1. UNCHANGED <<writers, broker, consumer>> /\ faults' \in 0..MaxFaults
  BY SizesAssumption DEF SkipPoison, MarkPublished, MarkFails, Fault, TypeOK
<1>2. /\ w \in batch[r] /\ \E n \in Nat : FinishRow(r, w, n)
      /\ marked' \subseteq marked \cup {w}
      /\ (w \notin InStream => marked' = marked)
  <2>1. count[r] \in Nat
    BY DEF TypeOK
  <2>2. CASE SkipPoison(r, w)
    BY <2>1, <2>2 DEF SkipPoison, Current
  <2>3. CASE MarkPublished(r, w) \/ MarkFails(r, w)
    <3>1. w \in InStream
      BY <2>3 DEF MarkPublished, MarkFails, RelayInv
    <3>2. count[r] + 1 \in Nat
      BY <2>1
    <3>. QED
      BY <2>1, <2>3, <3>1, <3>2 DEF MarkPublished, MarkFails, Current
  <2>. QED
    BY <2>2, <2>3
<1>3. InStream' = InStream
  BY <1>1, SameStream
<1>4. PICK n \in Nat : FinishRow(r, w, n)
  BY <1>2
<1>5. /\ pc' \in [Relays -> {"wait", "claim", "publish", "mark", "dead"}]
      /\ batch' \in [Relays -> SUBSET Rows] /\ count' \in [Relays -> Nat]
      /\ \A q \in Relays : pc'[q] \in {"publish", "mark"} => batch'[q] # {}
      /\ \A q \in Relays : batch'[q] \subseteq batch[q]
      /\ pc'[r] # "mark"
      /\ \A q \in Relays \ {r} : pc'[q] = pc[q] /\ batch'[q] = batch[q]
  BY <1>2, <1>4, FinishRowType
<1>6. TypeOK'
  BY <1>1, <1>2, <1>5 DEF TypeOK, writers, broker, consumer
<1>7. RelayInv'
  BY <1>1, <1>2, <1>3, <1>5 DEF RelayInv, Current, writers
<1>8. BrokerInv' /\ ConsumerInv'
  BY <1>1, <1>3 DEF BrokerInv, ConsumerInv, writers, broker, consumer
<1>. QED
  BY <1>6, <1>7, <1>8

\* Storing the message of a committed row keeps the broker's invariant.
LEMMA StoreInv ==
    ASSUME Inv, NEW w \in outbox, Store(w), UNCHANGED <<writers, consumer>>
    PROVE  /\ BrokerInv' /\ ConsumerInv' /\ InStream \subseteq InStream'
           /\ w \in InStream'
           /\ stream' \in Seq(Message) /\ window' \subseteq Nat /\ read' \in 0..Len(stream')
<1>. USE DEF Inv
<1>1. w \in Rows
  BY DEF TypeOK
<1>2. /\ stream' \in Seq(Message) /\ window' \subseteq Nat
      /\ Len(stream) <= Len(stream')
      /\ InStream' = InStream \cup {w} /\ window' = window \cup {w}
      /\ \A i \in 1..Len(stream') :
            \/ i \in 1..Len(stream) /\ stream'[i] = stream[i]
            \/ stream'[i] = [env |-> w, row |-> w]
  BY <1>1, StoreFacts
<1>3. \A i \in 1..Len(stream') : stream'[i].env = stream'[i].row /\ stream'[i].row \in ledger
  BY <1>2 DEF BrokerInv
<1>4. BrokerInv'
  BY <1>2, <1>3 DEF BrokerInv, writers
<1>5. Len(stream) \in Nat /\ Len(stream') \in Nat
  BY <1>2 DEF TypeOK
<1>6. read' \in 0..Len(stream')
  BY <1>2, <1>5 DEF TypeOK, consumer
<1>. QED
  BY <1>2, <1>4, <1>6 DEF ConsumerInv, writers, consumer

\* Publishing preserves the invariant, whatever it reports.
LEMMA PublishInv ==
    ASSUME Inv, NEW r \in Relays, NEW w \in Rows, PublishRow(r, w) \/ PublishFails(r, w)
    PROVE  Inv'
<1>. USE DEF Inv
<1>1. w \in batch[r] /\ w \in outbox
  BY DEF PublishRow, PublishFails, Current, RelayInv
<1>2. UNCHANGED <<writers, marked, consumer>> /\ faults' \in 0..MaxFaults
  BY SizesAssumption DEF PublishRow, PublishFails, Fault, TypeOK
<1>3. /\ BrokerInv' /\ ConsumerInv' /\ InStream \subseteq InStream'
      /\ stream' \in Seq(Message) /\ window' \subseteq Nat /\ read' \in 0..Len(stream')
  <2>1. CASE Store(w)
    BY <1>1, <1>2, <2>1, StoreInv
  <2>2. CASE UNCHANGED broker
    <3>1. InStream' = InStream
      BY <2>2, SameStream
    <3>2. BrokerInv' /\ ConsumerInv'
      BY <1>2, <2>2, <3>1 DEF BrokerInv, ConsumerInv, writers, broker, consumer
    <3>. QED
      BY <1>2, <2>2, <3>1, <3>2 DEF TypeOK, broker, consumer
  <2>. QED
    BY <2>1, <2>2 DEF PublishRow, PublishFails
<1>4. CASE PublishRow(r, w)
  <2>1. w \in InStream'
    BY <1>1, <1>2, <1>4, StoreInv DEF PublishRow
  <2>2. /\ pc' = [pc EXCEPT ![r] = "mark"] /\ batch' = batch /\ count' = count
        /\ \A v \in batch[r] : w <= v
    BY <1>4 DEF PublishRow, Current
  <2>3. TypeOK'
    BY <1>1, <1>2, <1>3, <2>2 DEF TypeOK, writers, consumer
  <2>4. \A v \in Rows : Current(r, v)' => v = w
    BY <1>1, <2>2, SizesAssumption DEF Current, TypeOK, Rows
  <2>5. RelayInv'
    BY <1>2, <1>3, <2>1, <2>2, <2>4 DEF RelayInv, Current, TypeOK, writers
  <2>. QED
    BY <1>3, <2>3, <2>5
<1>5. CASE PublishFails(r, w)
  <2>1. FinishRow(r, w, count[r]) /\ count[r] \in Nat
    BY <1>5 DEF PublishFails, TypeOK
  <2>2. /\ pc' \in [Relays -> {"wait", "claim", "publish", "mark", "dead"}]
        /\ batch' \in [Relays -> SUBSET Rows] /\ count' \in [Relays -> Nat]
        /\ \A q \in Relays : pc'[q] \in {"publish", "mark"} => batch'[q] # {}
        /\ \A q \in Relays : batch'[q] \subseteq batch[q]
        /\ pc'[r] # "mark"
        /\ \A q \in Relays \ {r} : pc'[q] = pc[q] /\ batch'[q] = batch[q]
    BY <1>1, <2>1, FinishRowType
  <2>3. TypeOK'
    BY <1>2, <1>3, <2>2 DEF TypeOK, writers, consumer
  <2>4. RelayInv'
    BY <1>2, <1>3, <2>2 DEF RelayInv, Current, writers
  <2>. QED
    BY <1>3, <2>3, <2>4
<1>. QED
  BY <1>4, <1>5

\* Forgetting a Msg-Id preserves the invariant.
LEMMA ForgetInv ==
    ASSUME Inv, NEW i \in window, ForgetMsgID(i)
    PROVE  Inv'
<1>. USE DEF Inv
<1>1. /\ UNCHANGED <<writers, marked, relay, stream, consumer>>
      /\ window' \subseteq window /\ faults' \in 0..MaxFaults
  BY SizesAssumption DEF ForgetMsgID, Fault, TypeOK
<1>2. InStream' = InStream
  BY <1>1 DEF InStream
<1>3. TypeOK'
  BY <1>1 DEF TypeOK, writers, relay, consumer
<1>4. RelayInv' /\ BrokerInv' /\ ConsumerInv'
  BY <1>1, <1>2 DEF RelayInv, BrokerInv, ConsumerInv, Current, writers, relay, consumer
<1>. QED
  BY <1>3, <1>4

\* What the consumer reads is a committed row under its own id; consuming it is
\* an Observe step of the promise the first time, and a stutter afterwards.
LEMMA ConsumeFacts ==
    ASSUME Inv, Consume
    PROVE  \E w \in ledger :
              /\ processed' = processed \cup {w} /\ read' \in 0..Len(stream)
              /\ effects' = IF w \in processed THEN effects
                            ELSE [effects EXCEPT ![w] = @ + 1]
<1>. USE DEF Inv
<1>1. Len(stream) \in Nat /\ read + 1 \in 1..Len(stream) /\ read' = read + 1
  BY DEF Consume, TypeOK
<1>2. stream[read + 1].env = stream[read + 1].row /\ stream[read + 1].row \in ledger
  BY <1>1 DEF BrokerInv
<1>. QED
  BY <1>1, <1>2 DEF Consume

\* Consuming preserves the invariant.
LEMMA ConsumeInv == ASSUME Inv, Consume PROVE Inv'
<1>. USE DEF Inv
<1>1. PICK w \in ledger :
              /\ processed' = processed \cup {w} /\ read' \in 0..Len(stream)
              /\ effects' = IF w \in processed THEN effects
                            ELSE [effects EXCEPT ![w] = @ + 1]
  BY ConsumeFacts
<1>2. UNCHANGED <<writers, marked, relay, broker, faults>>
  BY DEF Consume
<1>3. w \in Rows /\ w \in Nat
  BY SizesAssumption DEF TypeOK, Rows
<1>4. ConsumerInv'
  <2>1. processed' \subseteq ledger'
    BY <1>1, <1>2 DEF ConsumerInv, writers
  <2>2. effects \in [Rows -> Nat] /\ \A v \in Rows : effects[v] = IF v \in processed THEN 1 ELSE 0
    BY DEF TypeOK, ConsumerInv
  <2>3. CASE w \in processed
    <3>1. processed' = processed /\ effects' = effects
      BY <1>1, <2>3
    <3>. QED
      BY <1>2, <2>1, <2>2, <3>1 DEF ConsumerInv
  <2>4. CASE w \notin processed
    <3>0. effects[w] = 0 /\ effects' = [effects EXCEPT ![w] = effects[w] + 1]
      BY <1>1, <1>3, <2>2, <2>4
    <3>1. effects' = [effects EXCEPT ![w] = 1]
      BY <3>0
    <3>. HIDE DEF Inv
    <3>. QED
      BY <1>1, <1>3, <2>1, <2>2, <2>4, <3>1 DEF ConsumerInv
  <2>. QED
    BY <2>3, <2>4
<1>5. effects' \in [Rows -> Nat]
  BY <1>1, <1>3 DEF TypeOK
<1>6. TypeOK'
  BY <1>1, <1>2, <1>3, <1>5 DEF TypeOK, writers, relay, broker
<1>7. InStream' = InStream
  BY <1>2, SameStream
<1>8. RelayInv' /\ BrokerInv'
  BY <1>2, <1>7 DEF RelayInv, BrokerInv, Current, writers, relay, broker
<1>. QED
  BY <1>4, <1>6, <1>8

\* Every step preserves the invariant.
LEMMA NextInv == Inv /\ [Next]_vars => Inv'
<1>. SUFFICES ASSUME Inv, [Next]_vars PROVE Inv'
  OBVIOUS
<1>1. CASE \E w \in Rows : CommitTx(w) \/ RollbackTx(w)
  BY <1>1, WriterInv
<1>2. CASE \E r \in Relays : Run(r) \/ CrashRestart(r)
  BY <1>2, ControlInv, FinishInv, PublishInv DEF Run
<1>3. CASE \E i \in window : ForgetMsgID(i)
  BY <1>3, ForgetInv
<1>4. CASE Consume
  BY <1>4, ConsumeInv
<1>5. CASE UNCHANGED vars
  <2>1. InStream' = InStream
    BY <1>5 DEF InStream, vars, broker
  <2>. QED
    BY <1>5, <2>1 DEF Inv, TypeOK, RelayInv, BrokerInv, ConsumerInv, Current, vars,
                      writers, relay, broker, consumer
<1>. QED
  BY <1>1, <1>2, <1>3, <1>4, <1>5 DEF Next

\* The inductive invariant holds in every reachable state.
LEMMA Invariance == Spec => []Inv
  BY InitInv, NextInv, PTL DEF Spec

-----------------------------------------------------------------------------
\* Type correctness of the relay, the broker and the consumer.
THEOREM TypeCorrect == Spec => []TypeOK
<1>1. Inv => TypeOK
  BY DEF Inv
<1>. QED
  BY <1>1, Invariance, PTL

\* Publish-then-mark loses nothing, and the transaction invents nothing: a marked
\* row is on the bus, and what is on the bus was committed with its ledger row.
THEOREM RelayConservesRows == Spec => []NothingLostOrInvented
<1>1. Inv => NothingLostOrInvented
  <2>. SUFFICES ASSUME Inv PROVE MarkedIsStored /\ NoPhantom
    BY DEF NothingLostOrInvented
  <2>1. InStream \subseteq ledger
    BY DEF Inv, BrokerInv, InStream
  <2>. QED
    BY <2>1 DEF Inv, RelayInv, BrokerInv, MarkedIsStored, NoPhantom
<1>. QED
  BY <1>1, Invariance, PTL

\* Republishing never doubles an effect: the envelope id is the row id.
THEOREM OneEffectPerRow == Spec => []EffectOnce
<1>1. Inv => EffectOnce
  BY DEF Inv, ConsumerInv, EffectOnce
<1>. QED
  BY <1>1, Invariance, PTL

\* The relay, JetStream and the deduplicating consumer together implement the
\* exactly-once-in-effect outbox.
THEOREM OutboxKeepsItsPromise == Spec => ExactlyOnceInEffect
<1>1. Init => Promise!Init
  BY DEF Init, Promise!Init
<1>2. Inv /\ [Next]_vars => [Promise!Next]_(Promise!vars)
  <2>. SUFFICES ASSUME Inv, [Next]_vars PROVE [Promise!Next]_(Promise!vars)
    OBVIOUS
  <2>. USE DEF Promise!Next, Promise!vars
  <2>1. ASSUME NEW w \in Rows, CommitTx(w) PROVE [Promise!Next]_(Promise!vars)
    <3>1. UNCHANGED effects /\ ledger' = ledger \cup {w}
      BY <2>1 DEF CommitTx, consumer
    <3>2. CASE w \in ledger
      BY <3>1, <3>2
    <3>3. CASE w \notin ledger
      BY <3>1, <3>3 DEF Promise!Record
    <3>. QED
      BY <3>2, <3>3
  <2>2. CASE UNCHANGED <<ledger, effects>>
    BY <2>2
  <2>3. CASE Consume
    <3>1. PICK w \in ledger :
              effects' = IF w \in processed THEN effects ELSE [effects EXCEPT ![w] = @ + 1]
      BY <2>3, ConsumeFacts
    <3>2. UNCHANGED ledger
      BY <2>3 DEF Consume, writers
    <3>3. w \in Rows
      BY DEF Inv, TypeOK
    <3>4. CASE w \in processed
      BY <3>1, <3>2, <3>4
    <3>5. CASE w \notin processed
      <4>1. effects[w] = 0
        BY <3>3, <3>5 DEF Inv, ConsumerInv
      <4>2. effects' = [effects EXCEPT ![w] = 1]
        BY <3>1, <3>5, <4>1
      <4>3. Promise!Observe(w)
        BY <3>2, <4>1, <4>2 DEF Promise!Observe
      <4>. QED
        BY <3>3, <4>3
    <3>. QED
      BY <3>4, <3>5
  <2>4. ASSUME NEW w \in Rows, RollbackTx(w) PROVE UNCHANGED <<ledger, effects>>
    BY <2>4 DEF RollbackTx, consumer
  <2>5. ASSUME NEW r \in Relays, Run(r) \/ CrashRestart(r) PROVE UNCHANGED <<ledger, effects>>
    BY <2>5 DEF Run, Claim, ClaimFails, ClaimTimesOut, SkipPoison, PublishRow, PublishFails,
                MarkPublished, MarkFails, Tick, CrashRestart, writers, consumer
  <2>6. ASSUME NEW i \in window, ForgetMsgID(i) PROVE UNCHANGED <<ledger, effects>>
    BY <2>6 DEF ForgetMsgID, writers, consumer
  <2>7. CASE UNCHANGED vars
    BY <2>7 DEF vars, writers, consumer
  <2>. QED
    BY <2>1, <2>2, <2>3, <2>4, <2>5, <2>6, <2>7 DEF Next
<1>. QED
  BY <1>1, <1>2, Invariance, PTL DEF Spec, ExactlyOnceInEffect, Promise!Spec

-----------------------------------------------------------------------------
(* UsageMetering: idempotency *)

\* The functions over calls keep their domain.
Shape ==
    /\ place \in [Calls -> Ports \cup {"build"} \cup Idle]
    /\ DOMAIN rec = Calls /\ DOMAIN answer = Calls
    /\ rec = [c \in Calls |-> rec[c]] /\ answer = [c \in Calls |-> answer[c]]

\* The record a call is about to commit carries the call's own key.
OwnKey == \A c \in Calls : place[c] \in {"tx", "reread"} => rec[c].row.key = Key[c]

IdempotencyInv == Shape /\ OwnKey /\ OneRecordPerKey /\ SameAnswer

\* The initial states satisfy the invariant.
LEMMA IdempotencyInit == MeterInit => IdempotencyInv
  BY DEF MeterInit, IdempotencyInv, Shape, OwnKey, OneRecordPerKey, SameAnswer, Ports, Idle

\* A record a call may answer with stays in the ledger.
LEMMA LedgerGrows == [MeterNext]_meterVars => usage \subseteq usage'
  BY DEF MeterNext, RecordUsage, AssignPlan, NextPeriod, Begin, Lookup, ResolvePlan, ReadPrior, Build,
     RecordUsageTx, Insert, Reread, CallFails, CommitUnconfirmed, Retry, Aggregate, SaveInvoice,
     SaveInvoiceFails, meterVars, tables, call

\* Every action preserves the invariant: the unique index, not the lookup, is what
\* decides a race, and its loser answers with the winner's record.
LEMMA IdempotencyStep == IdempotencyInv /\ [MeterNext]_meterVars => IdempotencyInv'
<1> SUFFICES ASSUME IdempotencyInv, [MeterNext]_meterVars PROVE IdempotencyInv'
  OBVIOUS
<1> USE LedgerGrows
    DEF IdempotencyInv, Shape, OwnKey, OneRecordPerKey, SameAnswer, Ports, Idle, Goto, tables, call, job
<1>1. CASE AssignPlan
  BY <1>1 DEF AssignPlan
<1>2. CASE NextPeriod
  BY <1>2 DEF NextPeriod
<1>3. ASSUME NEW c \in Calls, Begin(c) PROVE IdempotencyInv'
  BY <1>3 DEF Begin
<1>4. ASSUME NEW c \in Calls, Lookup(c) PROVE IdempotencyInv'
  BY <1>4 DEF Lookup, Return
<1>5. ASSUME NEW c \in Calls, ResolvePlan(c) PROVE IdempotencyInv'
  BY <1>5 DEF ResolvePlan
<1>6. ASSUME NEW c \in Calls, ReadPrior(c) PROVE IdempotencyInv'
  BY <1>6 DEF ReadPrior
<1>7. ASSUME NEW c \in Calls, Build(c) PROVE IdempotencyInv'
  BY <1>7 DEF Build
<1>8. ASSUME NEW c \in Calls, RecordUsageTx(c) PROVE IdempotencyInv'
  <2>1. CASE Duplicate(rec[c].row)
    <3>1. /\ place[c] = "tx" /\ place' = [place EXCEPT ![c] = "reread"]
          /\ UNCHANGED <<usage, rec, answer>>
      BY <1>8, <2>1 DEF RecordUsageTx
    <3> QED
      BY <3>1
  <2>2. CASE ~Duplicate(rec[c].row)
    <3> DEFINE row == rec[c].row
    <3>1. /\ place[c] = "tx" /\ usage' = usage \cup {row} /\ rec' = rec
          /\ place' = [place EXCEPT ![c] = "done"] /\ answer' = [answer EXCEPT ![c] = row.id]
      BY <1>8, <2>2 DEF RecordUsageTx, Insert
    <3>2. row.key = Key[c] /\ (row.key # NoKey => \A s \in usage : s.key # row.key)
      BY <3>1, <2>2 DEF Duplicate
    <3> HIDE DEF row
    <3>3. Shape' /\ OwnKey'
      BY <3>1
    <3>4. OneRecordPerKey'
      BY <3>1, <3>2
    <3>5. SameAnswer'
      <4> SUFFICES ASSUME NEW d \in Calls, place'[d] = "done", Key[d] # NoKey
                   PROVE  \E r \in usage' : r.key = Key[d] /\ answer'[d] = r.id
        OBVIOUS
      <4>1. CASE d = c
        BY <4>1, <3>1, <3>2
      <4>2. CASE d # c
        BY <4>2, <3>1
      <4> QED
        BY <4>1, <4>2
    <3> QED
      BY <3>3, <3>4, <3>5
  <2> QED
    BY <2>1, <2>2
<1>9. ASSUME NEW c \in Calls, Reread(c) PROVE IdempotencyInv'
  BY <1>9 DEF Reread, Return
<1>10. ASSUME NEW c \in Calls, CallFails(c) PROVE IdempotencyInv'
  BY <1>10 DEF CallFails
<1>11. ASSUME NEW c \in Calls, CommitUnconfirmed(c) PROVE IdempotencyInv'
  BY <1>11 DEF CommitUnconfirmed, Duplicate, Insert
<1>12. ASSUME NEW c \in Calls, Retry(c) PROVE IdempotencyInv'
  BY <1>12 DEF Retry
<1>13. ASSUME NEW p \in 1..Periods, Aggregate(p) PROVE IdempotencyInv'
  BY <1>13 DEF Aggregate
<1>14. CASE SaveInvoice
  BY <1>14 DEF SaveInvoice
<1>15. CASE SaveInvoiceFails
  BY <1>15 DEF SaveInvoiceFails
<1>16. CASE UNCHANGED meterVars
  BY <1>16 DEF meterVars
<1> QED
  BY <1>1, <1>2, <1>3, <1>4, <1>5, <1>6, <1>7, <1>8, <1>9, <1>10, <1>11, <1>12, <1>13, <1>14,
     <1>15, <1>16 DEF MeterNext, RecordUsage

\* However RecordUsage calls with one key race, fail and are retried, the ledger
\* holds one record for the key and every caller is answered with it.
THEOREM RecordUsageIsIdempotent == MeterSpec => []Idempotent
<1>1. IdempotencyInv => Idempotent
  BY DEF IdempotencyInv, Idempotent
<1> QED
  BY IdempotencyInit, IdempotencyStep, <1>1, PTL DEF MeterSpec

-----------------------------------------------------------------------------
(* UsageMetering: the ledger and the outbox *)

\* What one committed unit of work adds to the outbox.
LEMMA EventsOfARecord ==
    ASSUME NEW b
    PROVE  /\ \A e \in EventsOf(b) : e.of = b.row.id /\ e.kind \in {"UsageRecorded", "QuotaExceeded"}
           /\ \E e \in EventsOf(b) : e.kind = "UsageRecorded"
<1>1. [kind |-> "UsageRecorded", of |-> b.row.id, period |-> b.row.occurred] \in EventsOf(b)
  BY DEF EventsOf
<1>2. \A e \in EventsOf(b) : e.of = b.row.id /\ e.kind \in {"UsageRecorded", "QuotaExceeded"}
  BY DEF EventsOf
<1> QED
  BY <1>1, <1>2

\* The two inserts keep the ledger and the outbox in step.
LEMMA InsertKeepsMatch ==
    ASSUME NEW c \in Calls, LedgerMatchesOutbox, Insert(c), invoices' = invoices
    PROVE  LedgerMatchesOutbox'
<1> DEFINE b == rec[c]
<1>0. usage' = usage \cup {b.row} /\ outboxRows' = outboxRows \cup EventsOf(b)
  BY DEF Insert
<1>1. {r.id : r \in usage}' = {r.id : r \in usage} \cup {b.row.id}
  BY <1>0
<1>2. {e.of : e \in {f \in outboxRows : f.kind = "UsageRecorded"}}'
        = {e.of : e \in {f \in outboxRows : f.kind = "UsageRecorded"}} \cup {b.row.id}
  <2> DEFINE new == {f \in EventsOf(b) : f.kind = "UsageRecorded"}
             old == {f \in outboxRows : f.kind = "UsageRecorded"}
  <2>1. old' = old \cup new
    BY <1>0
  <2>2. PICK e \in new : TRUE
    BY EventsOfARecord
  <2>3. \A f \in new : f.of = b.row.id
    BY EventsOfARecord
  <2> HIDE DEF b, new, old
  <2>4. {f.of : f \in old'} = {f.of : f \in old} \cup {b.row.id}
    BY <2>1, <2>2, <2>3
  <2> QED
    BY <2>4 DEF old
<1>3. {f \in outboxRows : f.kind = "InvoiceGenerated"}' = {f \in outboxRows : f.kind = "InvoiceGenerated"}
  BY <1>0, EventsOfARecord
<1>4. \A e \in outboxRows' : e.kind = "QuotaExceeded" => \E r \in usage' : r.id = e.of
  BY <1>0, EventsOfARecord DEF LedgerMatchesOutbox
<1> HIDE DEF b
<1> QED
  BY <1>1, <1>2, <1>3, <1>4 DEF LedgerMatchesOutbox

\* Ledger and outbox agree initially.
LEMMA MatchInit == MeterInit => LedgerMatchesOutbox
  BY DEF MeterInit, LedgerMatchesOutbox

\* Every action keeps them in agreement.
LEMMA MatchStep == LedgerMatchesOutbox /\ [MeterNext]_meterVars => LedgerMatchesOutbox'
<1> SUFFICES ASSUME LedgerMatchesOutbox, [MeterNext]_meterVars PROVE LedgerMatchesOutbox'
  OBVIOUS
<1>1. ASSUME UNCHANGED tables PROVE LedgerMatchesOutbox'
  BY <1>1 DEF tables, LedgerMatchesOutbox
<1>2. ASSUME NEW c \in Calls, RecordUsageTx(c) PROVE LedgerMatchesOutbox'
  <2>1. CASE Duplicate(rec[c].row)
    BY <1>1, <1>2, <2>1 DEF RecordUsageTx, tables
  <2>2. CASE ~Duplicate(rec[c].row)
    BY <1>2, <2>2, InsertKeepsMatch DEF RecordUsageTx
  <2> QED
    BY <2>1, <2>2
<1>3. ASSUME NEW c \in Calls, CommitUnconfirmed(c) PROVE LedgerMatchesOutbox'
  BY <1>3, InsertKeepsMatch DEF CommitUnconfirmed
<1>4. CASE SaveInvoice
  <2> DEFINE i == [id |-> ids + 1, period |-> closer.period, total |-> closer.total]
             e == [kind |-> "InvoiceGenerated", of |-> ids + 1, period |-> closer.period]
  <2>0. invoices' = invoices \cup {i} /\ outboxRows' = outboxRows \cup {e} /\ usage' = usage
    BY <1>4 DEF SaveInvoice
  <2>1. i.id = ids + 1 /\ e.of = ids + 1 /\ e.kind = "InvoiceGenerated"
    OBVIOUS
  <2> HIDE DEF i, e
  <2>2. {j.id : j \in invoices}' = {j.id : j \in invoices} \cup {ids + 1}
    BY <2>0, <2>1
  <2>3. {g.of : g \in {f \in outboxRows : f.kind = "InvoiceGenerated"}}'
          = {g.of : g \in {f \in outboxRows : f.kind = "InvoiceGenerated"}} \cup {ids + 1}
    BY <2>0, <2>1
  <2>4. {f \in outboxRows : f.kind = "UsageRecorded"}' = {f \in outboxRows : f.kind = "UsageRecorded"}
    BY <2>0, <2>1
  <2>5. \A g \in outboxRows' : g.kind = "QuotaExceeded" => \E r \in usage' : r.id = g.of
    BY <2>0, <2>1 DEF LedgerMatchesOutbox
  <2> QED
    BY <2>0, <2>2, <2>3, <2>4, <2>5 DEF LedgerMatchesOutbox
<1>5. ASSUME NEW c \in Calls,
             \/ Begin(c) \/ Lookup(c) \/ ResolvePlan(c) \/ ReadPrior(c) \/ Build(c)
             \/ Reread(c) \/ CallFails(c) \/ Retry(c)
      PROVE  UNCHANGED tables
  BY <1>5 DEF Begin, Lookup, ResolvePlan, ReadPrior, Build, Reread, CallFails, Retry
<1>6. ASSUME NEW p \in 1..Periods, Aggregate(p) PROVE UNCHANGED tables
  BY <1>6 DEF Aggregate
<1>7. AssignPlan \/ NextPeriod \/ SaveInvoiceFails \/ UNCHANGED meterVars => UNCHANGED tables
  BY DEF AssignPlan, NextPeriod, SaveInvoiceFails, meterVars
<1> QED
  BY <1>1, <1>2, <1>3, <1>4, <1>5, <1>6, <1>7 DEF MeterNext, RecordUsage

\* Every usage row and every invoice has its event and every event its row,
\* whichever calls fail, race or commit without being acknowledged.
THEOREM OutboxIsAtomic == MeterSpec => []LedgerMatchesOutbox
  BY MatchInit, MatchStep, PTL DEF MeterSpec
-----------------------------------------------------------------------------
(* Sums over finite sets *)

\* Every nonempty set of naturals has a least element.
LEMMA LeastElement ==
    ASSUME NEW T \in SUBSET Nat, T # {}
    PROVE  \E x \in T : \A y \in T : x <= y
<1> DEFINE R == OpToRel(<, Nat)
<1>1. IsWellFoundedOn(R, Nat)
  BY NatLessThanWellFounded, Zenon
<1>2. \A x, y \in Nat : x < y => <<x, y>> \in R
  BY DEF OpToRel
<1> HIDE DEF R
<1>3. PICK x \in T : \A y \in T : ~(<<y, x>> \in R)
  BY <1>1, WFMin
<1>4. ASSUME NEW y \in T
      PROVE  x <= y
  <2>1. x \in Nat /\ y \in Nat
    OBVIOUS
  <2>2. ~(y < x)
    BY <1>2, <1>3, <2>1
  <2> QED
    BY <2>1, <2>2
<1> QED
  BY <1>4

LEMMA SetInduction ==
    ASSUME NEW S \in SUBSET Nat, 0 \in S, \A n \in S : n + 1 \in S
    PROVE  \A n \in Nat : n \in S
<1> DEFINE T == Nat \ S
<1> SUFFICES ASSUME T # {} PROVE FALSE
  OBVIOUS
<1>1. PICK x \in T : \A y \in T : x <= y
  BY LeastElement
<1>2. x \in Nat /\ x # 0 /\ x - 1 \in Nat
  OBVIOUS
<1>3. x - 1 \in S
  BY <1>1, <1>2
<1> QED
  BY <1>2, <1>3


Pick(s) == CHOOSE x \in s : TRUE

\* h adds up g over every subset of S, in the order in which CHOOSE takes the elements.
IsFold(h, g, S) == h = [s \in SUBSET S |-> IF s = {} THEN 0 ELSE g[Pick(s)] + h[s \ {Pick(s)}]]

LEMMA PickIn == ASSUME NEW s, s # {} PROVE Pick(s) \in s
  BY DEF Pick

\* Taking an element out of a finite set.
LEMMA TakeOut ==
    ASSUME NEW s, IsFiniteSet(s), NEW x \in s
    PROVE  /\ IsFiniteSet(s \ {x}) /\ Cardinality(s) \in Nat /\ Cardinality(s) > 0
           /\ Cardinality(s \ {x}) = Cardinality(s) - 1
  BY FS_RemoveElement, FS_CardinalityType, FS_EmptySet

LEMMA FoldExists ==
    ASSUME NEW S, IsFiniteSet(S), NEW g
    PROVE  \E h : IsFold(h, g, S)
<1> DEFINE Body(f, s) == IF s = {} THEN 0 ELSE g[Pick(s)] + f[s \ {Pick(s)}]
           D(n) == {s \in SUBSET S : Cardinality(s) <= n}
           T == {n \in Nat : \E f : f = [s \in D(n) |-> Body(f, s)]}
<1>0. \A s \in SUBSET S : IsFiniteSet(s) /\ Cardinality(s) \in Nat /\ Cardinality(s) <= Cardinality(S)
  BY FS_Subset, FS_CardinalityType
<1>1. 0 \in T
  <2>1. \A s \in D(0) : s = {}
    BY <1>0, FS_EmptySet
  <2> DEFINE f == [s \in D(0) |-> 0]
  <2>2. f = [s \in D(0) |-> Body(f, s)]
    BY <2>1
  <2> QED
    BY <2>2
<1>2. ASSUME NEW n \in T
      PROVE  n + 1 \in T
  <2>1. PICK f : f = [s \in D(n) |-> Body(f, s)]
    OBVIOUS
  <2> DEFINE k == [s \in D(n + 1) |-> Body(f, s)]
  <2>2. ASSUME NEW s \in D(n + 1)
        PROVE  Body(f, s) = Body(k, s)
    <3>1. CASE s = {}
      BY <3>1
    <3>2. CASE s # {}
      <4> DEFINE u == s \ {Pick(s)}
      <4>1. u \in D(n) /\ u \in D(n + 1)
        BY <1>0, <3>2, PickIn, TakeOut
      <4>2. f[u] = Body(f, u) /\ k[u] = Body(f, u)
        BY <2>1, <4>1
      <4> QED
        BY <3>2, <4>2
    <3> QED
      BY <3>1, <3>2
  <2>3. k = [s \in D(n + 1) |-> Body(k, s)]
    <3> HIDE DEF Body, D
    <3> QED
      BY <2>2
  <2>4. n + 1 \in Nat
    OBVIOUS
  <2> HIDE DEF k, Body, D
  <2> QED
    BY <2>3, <2>4
<1>3. Cardinality(S) \in T
  <2>1. T \in SUBSET Nat /\ Cardinality(S) \in Nat
    BY <1>0
  <2> HIDE DEF T
  <2> QED
    BY <1>1, <1>2, <2>1, SetInduction
<1>4. PICK f : f = [s \in D(Cardinality(S)) |-> Body(f, s)]
  BY <1>3
<1>5. D(Cardinality(S)) = SUBSET S
  BY <1>0
<1> QED
  BY <1>4, <1>5 DEF IsFold

LEMMA FoldStep ==
    ASSUME NEW S, NEW g, NEW h, IsFold(h, g, S), NEW s \in SUBSET S
    PROVE  h[s] = IF s = {} THEN 0 ELSE g[Pick(s)] + h[s \ {Pick(s)}]
  BY DEF IsFold

\* The order does not matter: any element may be taken out first.
LEMMA FoldAny ==
    ASSUME NEW S, IsFiniteSet(S), NEW g, \A x \in S : g[x] \in Nat, NEW h, IsFold(h, g, S)
    PROVE  \A s \in SUBSET S : h[s] \in Nat /\ \A x \in s : h[s] = h[s \ {x}] + g[x]
<1> DEFINE P(s) == h[s] \in Nat /\ \A x \in s : h[s] = h[s \ {x}] + g[x]
           T == {n \in Nat : \A s \in SUBSET S : Cardinality(s) <= n => P(s)}
<1>0. \A s \in SUBSET S : IsFiniteSet(s) /\ Cardinality(s) \in Nat
  BY FS_Subset, FS_CardinalityType
<1>1. 0 \in T
  <2>1. \A s \in SUBSET S : Cardinality(s) <= 0 => s = {}
    BY <1>0, FS_EmptySet
  <2>2. h[{}] = 0
    BY FoldStep
  <2>3. P({})
    BY <2>2
  <2> HIDE DEF P
  <2> QED
    BY <2>1, <2>3
<1>2. ASSUME NEW n \in T
      PROVE  n + 1 \in T
  <2>i. n \in Nat /\ \A s \in SUBSET S : Cardinality(s) <= n => P(s)
    OBVIOUS
  <2> SUFFICES ASSUME NEW s \in SUBSET S, Cardinality(s) = n + 1
               PROVE  P(s)
    BY <1>0
  <2> HIDE DEF T
  <2> DEFINE p == Pick(s)
  <2>0. n \in Nat /\ s # {}
    <3>1. Cardinality({}) = 0
      BY FS_EmptySet
    <3> HIDE DEF P
    <3>2. n \in Nat
      BY <2>i
    <3> QED
      BY <3>1, <3>2
  <2>1. s # {} /\ p \in s /\ p \in S /\ g[p] \in Nat
    BY <2>0, PickIn
  <2>2. h[s] = g[p] + h[s \ {p}]
    BY <2>1, FoldStep
  <2>3. \A x \in s : P(s \ {x})
    <3> SUFFICES ASSUME NEW x \in s PROVE P(s \ {x})
      OBVIOUS
    <3>1. s \ {x} \in SUBSET S /\ Cardinality(s \ {x}) <= n
      BY <1>0, <2>0, TakeOut
    <3> HIDE DEF P
    <3> QED
      BY <2>i, <3>1
  <2> HIDE DEF p
  <2>4. h[s \ {p}] \in Nat /\ h[s] \in Nat
    BY <2>1, <2>2, <2>3
  <2>5. ASSUME NEW x \in s
        PROVE  h[s] = h[s \ {x}] + g[x]
    <3>1. CASE x = p
      BY <2>2, <2>4, <3>1
    <3>2. CASE x # p
      <4> DEFINE u == (s \ {p}) \ {x}
      <4>1. u = (s \ {x}) \ {p} /\ x \in s \ {p} /\ p \in s \ {x} /\ g[x] \in Nat
        BY <2>1, <3>2
      <4>2. h[s \ {p}] = h[u] + g[x]
        BY <2>1, <2>3, <4>1
      <4>3. h[s \ {x}] = h[u] + g[p]
        BY <2>3, <4>1
      <4>4. h[u] \in Nat
        <5>1. IsFiniteSet(s \ {p}) /\ Cardinality(s \ {p}) = n
          BY <1>0, <2>0, <2>1, TakeOut
        <5>2. Cardinality(u) = n - 1 /\ u \in SUBSET S
          BY <4>1, <5>1, TakeOut
        <5> QED
          BY <2>0, <2>i, <5>2
      <4> HIDE DEF u
      <4> QED
        BY <2>1, <2>2, <4>1, <4>2, <4>3, <4>4
    <3> QED
      BY <3>1, <3>2
  <2> QED
    BY <2>4, <2>5
<1>3. \A n \in Nat : n \in T
  <2>1. T \in SUBSET Nat
    OBVIOUS
  <2> HIDE DEF T
  <2> QED
    BY <1>1, <1>2, <2>1, SetInduction
<1>4. ASSUME NEW s \in SUBSET S PROVE P(s)
  <2>1. Cardinality(s) \in T /\ Cardinality(s) <= Cardinality(s)
    <3> HIDE DEF P, T
    <3> QED
      BY <1>0, <1>3
  <2>2. \A u \in SUBSET S : Cardinality(u) <= Cardinality(s) => P(u)
    <3> HIDE DEF P
    <3> QED
      BY <2>1
  <2> HIDE DEF P, T
  <2> QED
    BY <2>1, <2>2
<1> QED
  BY <1>4

\* Two folds agree where both are defined.
LEMMA FoldAgree ==
    ASSUME NEW S, NEW R, IsFiniteSet(S), S \subseteq R, NEW g, NEW f, \A x \in S : g[x] = f[x],
           NEW h, IsFold(h, g, S), NEW k, IsFold(k, f, R)
    PROVE  h[S] = k[S]
<1> DEFINE T == {n \in Nat : \A s \in SUBSET S : Cardinality(s) <= n => h[s] = k[s]}
<1>0. \A s \in SUBSET S : IsFiniteSet(s) /\ Cardinality(s) \in Nat
  BY FS_Subset, FS_CardinalityType
<1>1. 0 \in T
  <2>1. \A s \in SUBSET S : Cardinality(s) <= 0 => s = {}
    BY <1>0, FS_EmptySet
  <2>2. h[{}] = 0 /\ k[{}] = 0
    BY FoldStep
  <2> QED
    BY <2>1, <2>2
<1>2. ASSUME NEW n \in T
      PROVE  n + 1 \in T
  <2>i. n \in Nat /\ \A s \in SUBSET S : Cardinality(s) <= n => h[s] = k[s]
    OBVIOUS
  <2> SUFFICES ASSUME NEW s \in SUBSET S, Cardinality(s) = n + 1
               PROVE  h[s] = k[s]
    BY <1>0
  <2> HIDE DEF T
  <2> DEFINE p == Pick(s)
  <2>1. s # {} /\ p \in s /\ p \in S /\ s \in SUBSET R
    BY <2>i, PickIn, FS_EmptySet
  <2>2. h[s] = g[p] + h[s \ {p}]
    BY <2>1, FoldStep
  <2>4. k[s] = f[p] + k[s \ {p}]
    BY <2>1, FoldStep
  <2>3. h[s \ {p}] = k[s \ {p}]
    BY <1>0, <2>1, <2>i, TakeOut
  <2> QED
    BY <2>1, <2>2, <2>3, <2>4
<1>3. \A n \in Nat : n \in T
  <2>1. T \in SUBSET Nat
    OBVIOUS
  <2> HIDE DEF T
  <2> QED
    BY <1>1, <1>2, <2>1, SetInduction
<1> QED
  BY <1>0, <1>3

LEMMA TotalBilled ==
    ASSUME NEW S, IsFiniteSet(S)
    PROVE  \E h : Total(Billed, S) = h[S] /\ IsFold(h, [x \in S |-> x.qty], S)
<1> DEFINE g == [x \in S |-> x.qty]
           Q(h) == h = [s \in SUBSET S |-> IF s = {} THEN 0 ELSE Pick(s).qty + h[s \ {Pick(s)}]]
<1>1. ASSUME NEW h PROVE Q(h) <=> IsFold(h, g, S)
  <2>1. \A s \in SUBSET S : s # {} => g[Pick(s)] = Pick(s).qty
    BY PickIn
  <2>2. [s \in SUBSET S |-> IF s = {} THEN 0 ELSE Pick(s).qty + h[s \ {Pick(s)}]]
          = [s \in SUBSET S |-> IF s = {} THEN 0 ELSE g[Pick(s)] + h[s \ {Pick(s)}]]
    <3> HIDE DEF g
    <3> QED
      BY <2>1
  <2> QED
    BY <2>2 DEF IsFold
<1>2. Total(Billed, S) = (CHOOSE h : Q(h))[S]
  BY DEF Total, MapThenSumSet, MapThenFoldSet, Billed, Pick
<1>3. \E h : Q(h)
  BY <1>1, FoldExists
<1> DEFINE k == CHOOSE h : Q(h)
<1>4. Q(k)
  <2> HIDE DEF Q
  <2> QED
    BY <1>3
<1> QED
  BY <1>1, <1>2, <1>4

LEMMA TotalGross ==
    ASSUME NEW S, IsFiniteSet(S)
    PROVE  \E h : Total(Gross, S) = h[S] /\ IsFold(h, [x \in S |-> x.gross], S)
<1> DEFINE g == [x \in S |-> x.gross]
           Q(h) == h = [s \in SUBSET S |-> IF s = {} THEN 0 ELSE Pick(s).gross + h[s \ {Pick(s)}]]
<1>1. ASSUME NEW h PROVE Q(h) <=> IsFold(h, g, S)
  <2>1. \A s \in SUBSET S : s # {} => g[Pick(s)] = Pick(s).gross
    BY PickIn
  <2>2. [s \in SUBSET S |-> IF s = {} THEN 0 ELSE Pick(s).gross + h[s \ {Pick(s)}]]
          = [s \in SUBSET S |-> IF s = {} THEN 0 ELSE g[Pick(s)] + h[s \ {Pick(s)}]]
    <3> HIDE DEF g
    <3> QED
      BY <2>1
  <2> QED
    BY <2>2 DEF IsFold
<1>2. Total(Gross, S) = (CHOOSE h : Q(h))[S]
  BY DEF Total, MapThenSumSet, MapThenFoldSet, Gross, Pick
<1>3. \E h : Q(h)
  BY <1>1, FoldExists
<1> DEFINE k == CHOOSE h : Q(h)
<1>4. Q(k)
  <2> HIDE DEF Q
  <2> QED
    BY <1>3
<1> QED
  BY <1>1, <1>2, <1>4

LEMMA TotalCost ==
    ASSUME NEW S, IsFiniteSet(S)
    PROVE  \E h : Total(Cost, S) = h[S] /\ IsFold(h, [x \in S |-> x.cost], S)
<1> DEFINE g == [x \in S |-> x.cost]
           Q(h) == h = [s \in SUBSET S |-> IF s = {} THEN 0 ELSE Pick(s).cost + h[s \ {Pick(s)}]]
<1>1. ASSUME NEW h PROVE Q(h) <=> IsFold(h, g, S)
  <2>1. \A s \in SUBSET S : s # {} => g[Pick(s)] = Pick(s).cost
    BY PickIn
  <2>2. [s \in SUBSET S |-> IF s = {} THEN 0 ELSE Pick(s).cost + h[s \ {Pick(s)}]]
          = [s \in SUBSET S |-> IF s = {} THEN 0 ELSE g[Pick(s)] + h[s \ {Pick(s)}]]
    <3> HIDE DEF g
    <3> QED
      BY <2>1
  <2> QED
    BY <2>2 DEF IsFold
<1>2. Total(Cost, S) = (CHOOSE h : Q(h))[S]
  BY DEF Total, MapThenSumSet, MapThenFoldSet, Cost, Pick
<1>3. \E h : Q(h)
  BY <1>1, FoldExists
<1> DEFINE k == CHOOSE h : Q(h)
<1>4. Q(k)
  <2> HIDE DEF Q
  <2> QED
    BY <1>3
<1> QED
  BY <1>1, <1>2, <1>4

\* The amounts of a period add up to a natural.
LEMMA TotalCostType ==
    ASSUME NEW S, IsFiniteSet(S), \A r \in S : r.cost \in Nat
    PROVE  Total(Cost, S) \in Nat
<1> DEFINE g == [r \in S |-> r.cost]
<1>1. PICK h : Total(Cost, S) = h[S] /\ IsFold(h, g, S)
  BY TotalCost
<1>2. \A r \in S : g[r] \in Nat
  OBVIOUS
<1>3. S \in SUBSET S
  OBVIOUS
<1> HIDE DEF g
<1> QED
  BY <1>1, <1>2, <1>3, FoldAny

\* The sums the properties are about.
TB(S) == Total(Billed, S)
TG(S) == Total(Gross, S)

\* A sum is a natural, nothing for nothing, and grows by what is added.
LEMMA FoldAdds ==
    ASSUME NEW S, IsFiniteSet(S), NEW x, x \notin S, NEW R, R = S \cup {x}, NEW g, NEW f,
           \A y \in S : g[y] = f[y], \A y \in R : f[y] \in Nat,
           NEW h, IsFold(h, g, S), NEW k, IsFold(k, f, R)
    PROVE  k[R] = h[S] + f[x]
<1>1. IsFiniteSet(R) /\ S \subseteq R /\ R \in SUBSET R /\ x \in R /\ R \ {x} = S
  BY FS_AddElement
<1>2. k[R] = k[R \ {x}] + f[x]
  BY <1>1, FoldAny
<1>3. h[S] = k[S]
  BY <1>1, FoldAgree
<1> QED
  BY <1>1, <1>2, <1>3

LEMMA BilledSums ==
    ASSUME NEW S, IsFiniteSet(S), \A r \in S : r.qty \in Nat
    PROVE  /\ TB(S) \in Nat /\ (S = {} => TB(S) = 0)
           /\ \A x : x \notin S /\ x.qty \in Nat => TB(S \cup {x}) = TB(S) + x.qty
<1>1. PICK h : TB(S) = h[S] /\ IsFold(h, [r \in S |-> r.qty], S)
  BY TotalBilled DEF TB
<1>2. TB(S) \in Nat
  <2> DEFINE g == [r \in S |-> r.qty]
  <2>1. \A r \in S : g[r] \in Nat
    OBVIOUS
  <2>2. S \in SUBSET S
    OBVIOUS
  <2> HIDE DEF g
  <2> QED
    BY <1>1, <2>1, <2>2, FoldAny DEF g
<1>3. S = {} => TB(S) = 0
  BY <1>1, FoldStep
<1>4. ASSUME NEW x, x \notin S, x.qty \in Nat
      PROVE  TB(S \cup {x}) = TB(S) + x.qty
  <2> DEFINE R == S \cup {x}
             g == [r \in S |-> r.qty]
             f == [r \in R |-> r.qty]
  <2>1. IsFiniteSet(R) /\ R = S \cup {x}
    BY FS_AddElement
  <2>3. (\A y \in S : g[y] = f[y]) /\ (\A y \in R : f[y] \in Nat) /\ f[x] = x.qty
    BY <1>4
  <2> HIDE DEF R
  <2>2. PICK k : TB(R) = k[R] /\ IsFold(k, f, R)
    BY <2>1, TotalBilled DEF TB
  <2>4. TB(S) = h[S] /\ IsFold(h, g, S)
    BY <1>1
  <2> HIDE DEF g, f
  <2>5. k[R] = h[S] + f[x]
    BY <1>4, <2>1, <2>2, <2>3, <2>4, FoldAdds
  <2> QED
    BY <2>1, <2>2, <2>3, <2>4, <2>5
<1> QED
  BY <1>2, <1>3, <1>4

LEMMA GrossSums ==
    ASSUME NEW S, IsFiniteSet(S), \A r \in S : r.gross \in Nat
    PROVE  /\ TG(S) \in Nat /\ (S = {} => TG(S) = 0)
           /\ \A x : x \notin S /\ x.gross \in Nat => TG(S \cup {x}) = TG(S) + x.gross
<1>1. PICK h : TG(S) = h[S] /\ IsFold(h, [r \in S |-> r.gross], S)
  BY TotalGross DEF TG
<1>2. TG(S) \in Nat
  <2> DEFINE g == [r \in S |-> r.gross]
  <2>1. \A r \in S : g[r] \in Nat
    OBVIOUS
  <2>2. S \in SUBSET S
    OBVIOUS
  <2> HIDE DEF g
  <2> QED
    BY <1>1, <2>1, <2>2, FoldAny DEF g
<1>3. S = {} => TG(S) = 0
  BY <1>1, FoldStep
<1>4. ASSUME NEW x, x \notin S, x.gross \in Nat
      PROVE  TG(S \cup {x}) = TG(S) + x.gross
  <2> DEFINE R == S \cup {x}
             g == [r \in S |-> r.gross]
             f == [r \in R |-> r.gross]
  <2>1. IsFiniteSet(R) /\ R = S \cup {x}
    BY FS_AddElement
  <2>3. (\A y \in S : g[y] = f[y]) /\ (\A y \in R : f[y] \in Nat) /\ f[x] = x.gross
    BY <1>4
  <2> HIDE DEF R
  <2>2. PICK k : TG(R) = k[R] /\ IsFold(k, f, R)
    BY <2>1, TotalGross DEF TG
  <2>4. TG(S) = h[S] /\ IsFold(h, g, S)
    BY <1>1
  <2> HIDE DEF g, f
  <2>5. k[R] = h[S] + f[x]
    BY <1>4, <2>1, <2>2, <2>3, <2>4, FoldAdds
  <2> QED
    BY <2>1, <2>2, <2>3, <2>4, <2>5
<1> QED
  BY <1>2, <1>3, <1>4

-----------------------------------------------------------------------------
(* UsageMetering: what is billed, and the quota alarm *)

\* The records of U in period p, and from period p on.
InOf(U, p) == {r \in U : r.occurred = p}
FromOf(U, p) == {r \in U : r.occurred >= p}

\* A record bills at most what was asked for.
RowOK(r) ==
    /\ r.id \in Nat /\ r.id <= ids
    /\ r.qty \in Nat /\ r.gross \in Nat /\ r.qty <= r.gross
    /\ r.occurred \in Nat /\ r.occurred <= now

LedgerOK == IsFiniteSet(usage) /\ now \in Nat /\ ids \in Nat /\ \A r \in usage : RowOK(r)

\* What a call has read is a lower bound of what is recorded by now.
CallsOK ==
    /\ since \in [Calls -> Nat] /\ prior \in [Calls -> Nat]
    /\ \A c \in Calls : place[c] \in {"lookup", "plan", "prior", "build"} => Valid(c)
    /\ \A c \in Calls : place[c] = "build" => prior[c] <= TB(FromOf(usage, since[c]))

\* A built record that is paid for without leaving the allowance out itself was built
\* when units of its period had been billed already; one that crosses the cap reaches
\* it together with what is recorded.
Justified(b) ==
    b.row.since = b.row.occurred =>
        /\ \/ b.row.qty = 0 \/ b.row.qty + Included <= b.row.gross \/ Included = 0
           \/ TB(InOf(usage, b.row.occurred)) > 0
        /\ b.crosses => Limit > 0 /\ TG(InOf(usage, b.row.occurred)) + b.row.gross >= Limit

PendingOK ==
    /\ \A c \in Calls : place[c] = "tx" =>
          RowOK(rec[c].row) /\ Justified(rec[c]) /\ \A r \in usage : r.id # rec[c].row.id
    /\ \A c, d \in Calls :
          place[c] = "tx" /\ place[d] = "tx" /\ c # d => rec[c].row.id # rec[d].row.id

\* Nothing is billed in a period, or the allowance is left out of it.
PeriodsOK ==
    \A p \in Nat :
        /\ TB(InOf(usage, p)) <= TG(InOf(usage, p))
        /\ (\A r \in InOf(usage, p) : r.since = p) =>
              TB(InOf(usage, p)) = 0 \/ TB(InOf(usage, p)) + Included <= TG(InOf(usage, p))

MeterInv ==
    IdempotencyInv /\ LedgerOK /\ CallsOK /\ PendingOK /\ PeriodsOK /\ LedgerMatchesOutbox /\ NoFalseAlarm

\* The larger of zero and x.
LEMMA MaxZero == ASSUME NEW x \in Int PROVE Max({0, x}) = IF x > 0 THEN x ELSE 0
<1> DEFINE m == IF x > 0 THEN x ELSE 0
<1>1. m \in {0, x} /\ \A y \in {0, x} : m >= y
  OBVIOUS
<1>2. \A z \in {0, x} : (\A y \in {0, x} : z >= y) => z = m
  OBVIOUS
<1> HIDE DEF m
<1>3. Max({0, x}) \in {0, x} /\ \A y \in {0, x} : Max({0, x}) >= y
  BY <1>1 DEF Max
<1>4. Max({0, x}) = m
  BY <1>2, <1>3
<1> QED
  BY <1>4 DEF m

\* What BillableQuantity leaves out.
LEMMA BillableFacts ==
    ASSUME NEW used \in Nat, NEW q \in Nat
    PROVE  LET b == BillableQuantity(used, q) IN
           b \in Nat /\ b <= q /\ (b = 0 \/ b + Included <= q \/ Included = 0 \/ used > 0)
  BY NumbersAssumption DEF BillableQuantity

\* A record is dated in the period that is open when it is built.
LEMMA DatedNow == ASSUME now \in Nat, NEW p \in Nat PROVE ClampOccurredAt(p) = now
<1>1. CASE p = 0 \/ p > now
  BY <1>1 DEF ClampOccurredAt
<1>2. CASE p # 0 /\ p <= now
  <2>1. now \in {p, now} /\ \A y \in {p, now} : now >= y
    BY <1>2
  <2>2. \A z \in {p, now} : (\A y \in {p, now} : z >= y) => z = now
    BY <1>2
  <2>3. Max({p, now}) \in {p, now} /\ \A y \in {p, now} : Max({p, now}) >= y
    BY <2>1 DEF Max
  <2>4. Max({p, now}) = now
    BY <2>2, <2>3
  <2> QED
    BY <1>2, <2>4 DEF ClampOccurredAt
<1> QED
  BY <1>1, <1>2

\* The sums of the ledger are naturals.
LEMMA LedgerSums ==
    ASSUME LedgerOK, NEW p
    PROVE  /\ IsFiniteSet(InOf(usage, p)) /\ IsFiniteSet(FromOf(usage, p))
           /\ TB(InOf(usage, p)) \in Nat /\ TG(InOf(usage, p)) \in Nat
           /\ TB(FromOf(usage, p)) \in Nat
<1>1. InOf(usage, p) \subseteq usage /\ FromOf(usage, p) \subseteq usage
  BY DEF InOf, FromOf
<1>2. IsFiniteSet(InOf(usage, p)) /\ IsFiniteSet(FromOf(usage, p))
  BY <1>1, FS_Subset DEF LedgerOK
<1>3. \A r \in usage : r.qty \in Nat /\ r.gross \in Nat
  BY DEF LedgerOK, RowOK
<1> QED
  BY <1>1, <1>2, <1>3, BilledSums, GrossSums

\* An inserted record adds its quantities to its own period and to no other.
LEMMA InsertSums ==
    ASSUME LedgerOK, NEW x, RowOK(x), x \notin usage, NEW p
    PROVE  LET V == usage \cup {x} IN
           /\ IsFiniteSet(V)
           /\ x.occurred = p => /\ TB(InOf(V, p)) = TB(InOf(usage, p)) + x.qty
                                /\ TG(InOf(V, p)) = TG(InOf(usage, p)) + x.gross
           /\ x.occurred # p => InOf(V, p) = InOf(usage, p)
           /\ TB(FromOf(V, p)) >= TB(FromOf(usage, p))
<1> DEFINE V == usage \cup {x}
<1>1. IsFiniteSet(V)
  BY FS_AddElement DEF LedgerOK
<1>2. x.qty \in Nat /\ x.gross \in Nat
  BY DEF RowOK
<1>3. \A r \in usage : r.qty \in Nat /\ r.gross \in Nat
  BY DEF LedgerOK, RowOK
<1>4. ASSUME x.occurred = p
      PROVE  /\ TB(InOf(V, p)) = TB(InOf(usage, p)) + x.qty
             /\ TG(InOf(V, p)) = TG(InOf(usage, p)) + x.gross
  <2> DEFINE S == InOf(usage, p)
  <2>1. InOf(V, p) = S \cup {x} /\ x \notin S /\ S \subseteq usage
    BY <1>4 DEF InOf
  <2>2. IsFiniteSet(S) /\ \A r \in S : r.qty \in Nat /\ r.gross \in Nat
    BY <1>3, <2>1, LedgerSums
  <2> HIDE DEF S
  <2>3. TB(S \cup {x}) = TB(S) + x.qty
    BY <1>2, <2>1, <2>2, BilledSums
  <2>4. TG(S \cup {x}) = TG(S) + x.gross
    BY <1>2, <2>1, <2>2, GrossSums
  <2> QED
    BY <2>1, <2>3, <2>4 DEF S
<1>5. x.occurred # p => InOf(V, p) = InOf(usage, p)
  BY DEF InOf
<1>6. TB(FromOf(V, p)) >= TB(FromOf(usage, p))
  <2> DEFINE S == FromOf(usage, p)
  <2>1. TB(S) \in Nat /\ IsFiniteSet(S) /\ S \subseteq usage
    BY LedgerSums DEF FromOf
  <2>2. CASE x.occurred >= p
    <3>1. FromOf(V, p) = S \cup {x} /\ x \notin S
      BY <2>2 DEF FromOf
    <3>2. \A r \in S : r.qty \in Nat
      BY <1>3, <2>1
    <3> HIDE DEF S, V
    <3>3. TB(S \cup {x}) = TB(S) + x.qty
      BY <1>2, <2>1, <3>1, <3>2, BilledSums
    <3>4. TB(FromOf(V, p)) >= TB(S)
      BY <1>2, <2>1, <3>1, <3>3
    <3> QED
      BY <3>4 DEF S
  <2>3. CASE ~(x.occurred >= p)
    <3>1. FromOf(V, p) = S
      BY <2>3 DEF FromOf
    <3> QED
      BY <2>1, <3>1
  <2> QED
    BY <2>2, <2>3
<1> QED
  BY <1>1, <1>4, <1>5, <1>6

\* The initial states satisfy the invariant.
LEMMA MeterInitInv == MeterInit => MeterInv
<1> SUFFICES ASSUME MeterInit PROVE MeterInv
  OBVIOUS
<1>1. usage = {} /\ now = 1 /\ ids = 0
  BY DEF MeterInit
<1>2. LedgerOK
  BY <1>1, FS_EmptySet DEF LedgerOK
<1>3. CallsOK /\ PendingOK /\ NoFalseAlarm
  BY <1>1 DEF MeterInit, CallsOK, PendingOK, NoFalseAlarm
<1>4. PeriodsOK
  <2> SUFFICES ASSUME NEW p \in Nat PROVE TB(InOf(usage, p)) = 0 /\ TG(InOf(usage, p)) = 0
    BY NumbersAssumption DEF PeriodsOK
  <2>1. InOf(usage, p) = {} /\ IsFiniteSet({})
    BY <1>1, FS_EmptySet DEF InOf
  <2> QED
    BY <2>1, BilledSums, GrossSums
<1> QED
  BY <1>2, <1>3, <1>4, IdempotencyInit, MatchInit DEF MeterInv

\* A step that leaves the ledger and the built records alone.
LEMMA QuietStep ==
    ASSUME MeterInv, IdempotencyInv', LedgerMatchesOutbox', usage' = usage, rec' = rec,
           now' \in {now, now + 1}, ids' \in {ids, ids + 1},
           since' \in [Calls -> Nat], prior' \in [Calls -> Nat],
           \A e \in outboxRows' : e.kind = "QuotaExceeded" => e \in outboxRows,
           \A d \in Calls :
              /\ place'[d] = "tx" => place[d] = "tx"
              /\ place'[d] \in {"lookup", "plan", "prior", "build"} => Valid(d)
              /\ place'[d] = "build" => prior'[d] <= TB(FromOf(usage, since'[d]))
    PROVE  MeterInv'
<1>0. now \in Nat /\ ids \in Nat /\ now' \in Nat /\ ids' \in Nat /\ now' >= now /\ ids' >= ids
  BY DEF MeterInv, LedgerOK
<1>1. \A r : RowOK(r) => RowOK(r)'
  BY <1>0 DEF RowOK
<1>2. LedgerOK'
  BY <1>0, <1>1 DEF MeterInv, LedgerOK
<1>3. CallsOK'
  BY DEF MeterInv, CallsOK, Valid
<1>4. PendingOK'
  <2>1. \A b : Justified(b) => Justified(b)'
    BY DEF Justified
  <2>2. ASSUME NEW c \in Calls, place'[c] = "tx"
        PROVE  RowOK(rec[c].row)' /\ Justified(rec[c])' /\ \A r \in usage' : r.id # rec'[c].row.id
    <3>1. RowOK(rec[c].row) /\ Justified(rec[c]) /\ \A r \in usage : r.id # rec[c].row.id
      BY <2>2 DEF MeterInv, PendingOK
    <3>2. RowOK(rec[c].row)'
      BY <3>1, <1>0 DEF RowOK
    <3>3. Justified(rec[c])'
      BY <3>1 DEF Justified
    <3> QED
      BY <3>1, <3>2, <3>3
  <2>3. \A c, d \in Calls :
          place'[c] = "tx" /\ place'[d] = "tx" /\ c # d => rec'[c].row.id # rec'[d].row.id
    BY DEF MeterInv, PendingOK
  <2> QED
    BY <2>2, <2>3 DEF PendingOK
<1>5. PeriodsOK'
  BY DEF MeterInv, PeriodsOK
<1>6. NoFalseAlarm'
  BY DEF MeterInv, NoFalseAlarm, QuotaEvents, In
<1> QED
  BY <1>2, <1>3, <1>4, <1>5, <1>6 DEF MeterInv

\* Building a record: the total that was read is at most what is recorded by now, and
\* a record that is not dated after its total was read counts in the same period.
LEMMA BuildStep ==
    ASSUME MeterInv, IdempotencyInv', LedgerMatchesOutbox', NEW c \in Calls, Build(c)
    PROVE  MeterInv'
<1> DEFINE q == BillableQuantity(prior[c], Qty[c])
           row == [id |-> ids + 1, key |-> Key[c], qty |-> q, cost |-> q * Price,
                   occurred |-> ClampOccurredAt(Occurred[c]), gross |-> Qty[c],
                   since |-> since[c]]
           built == [row |-> row, crosses |-> Crosses(prior[c], Qty[c])]
<1>0. /\ place[c] = "build" /\ usage' = usage /\ now' = now /\ since' = since /\ prior' = prior
      /\ outboxRows' = outboxRows
      /\ place \in [Calls -> Ports \cup {"build"} \cup Idle] /\ rec = [d \in Calls |-> rec[d]]
  BY DEF Build, tables, MeterInv, IdempotencyInv, Shape
<1>1. /\ now \in Nat /\ ids \in Nat /\ since \in [Calls -> Nat] /\ prior \in [Calls -> Nat]
      /\ prior[c] \in Nat /\ Qty[c] \in Nat /\ Occurred[c] \in Nat
  <2>1. Valid(c) /\ Qty[c] \in Int /\ Occurred[c] \in Nat
    BY <1>0, CallsAssumption DEF MeterInv, CallsOK
  <2> QED
    BY <2>1 DEF Valid, MeterInv, CallsOK, LedgerOK
<1>2. CASE q * Price > MaxAmount
  <2>1. place' = [place EXCEPT ![c] = "rejected"] /\ rec' = rec /\ ids' = ids
    BY <1>2 DEF Build, Goto
  <2>2. \A d \in Calls :
              /\ place'[d] = "tx" => place[d] = "tx"
              /\ place'[d] \in {"lookup", "plan", "prior", "build"} => Valid(d)
              /\ place'[d] = "build" => prior'[d] <= TB(FromOf(usage, since'[d]))
    BY <1>0, <2>1 DEF MeterInv, CallsOK
  <2> QED
    BY <1>0, <1>1, <2>1, <2>2, QuietStep
<1>3. CASE ~(q * Price > MaxAmount)
  <2>0. PICK b : b = built
    OBVIOUS
  <2>1. /\ place' = [place EXCEPT ![c] = "tx"] /\ ids' = ids + 1
        /\ rec' = [rec EXCEPT ![c] = b]
    BY <1>3, <2>0 DEF Build, Goto
  <2>2. q \in Nat /\ q <= Qty[c] /\ (q = 0 \/ q + Included <= Qty[c] \/ Included = 0 \/ prior[c] > 0)
    BY <1>1, BillableFacts
  <2>3. /\ b.row.id = ids + 1 /\ b.row.qty = q /\ b.row.gross = Qty[c] /\ b.row.occurred = now
        /\ b.row.since = since[c] /\ b.crosses = Crosses(prior[c], Qty[c])
    BY <1>1, <2>0, DatedNow
  <2> HIDE DEF q, built, row
  <2>4. RowOK(b.row)'
    BY <1>0, <1>1, <2>1, <2>2, <2>3 DEF RowOK
  <2>5. Justified(b)'
    <3> DEFINE T == TB(InOf(usage, now))
               G == TG(InOf(usage, now))
    <3> SUFFICES ASSUME since[c] = now
                 PROVE  /\ q = 0 \/ q + Included <= Qty[c] \/ Included = 0 \/ T > 0
                        /\ b.crosses => Limit > 0 /\ G + Qty[c] >= Limit
      BY <1>0, <2>3 DEF Justified
    <3>1. FromOf(usage, now) = InOf(usage, now)
      BY <1>1 DEF FromOf, InOf, MeterInv, LedgerOK, RowOK
    <3>2. prior[c] <= T
      BY <1>0, <3>1 DEF MeterInv, CallsOK
    <3>3. T <= G
      BY <1>1 DEF MeterInv, PeriodsOK
    <3>4. T \in Nat /\ G \in Nat
      BY LedgerSums DEF MeterInv
    <3> HIDE DEF T, G
    <3>5. b.crosses => Limit > 0 /\ prior[c] + Qty[c] >= Limit
      BY <2>3 DEF Crosses
    <3> QED
      BY <1>1, <2>2, <3>2, <3>3, <3>4, <3>5, NumbersAssumption
  <2>6. \A r \in usage : r.id # b.row.id
    BY <1>1, <2>3 DEF MeterInv, LedgerOK, RowOK
  <2>7. \A d \in Calls : d # c => rec'[d] = rec[d] /\ place'[d] = place[d]
    BY <1>0, <2>1
  <2>8. rec'[c] = b
    BY <1>0, <2>1
  <2>9. \A r : RowOK(r) => RowOK(r)'
    BY <1>0, <1>1, <2>1 DEF RowOK
  <2>10. LedgerOK'
    BY <1>0, <1>1, <2>1, <2>9 DEF MeterInv, LedgerOK
  <2>11. CallsOK'
    BY <1>0, <2>1, <2>7 DEF MeterInv, CallsOK, Valid
  <2>12. ASSUME NEW d \in Calls, place'[d] = "tx"
         PROVE  RowOK(rec[d].row)' /\ Justified(rec[d])' /\ \A r \in usage' : r.id # rec'[d].row.id
    <3>1. CASE d = c
      BY <1>0, <2>4, <2>5, <2>6, <2>8, <3>1 DEF RowOK, Justified
    <3>2. CASE d # c
      <4>1. RowOK(rec[d].row) /\ Justified(rec[d]) /\ \A r \in usage : r.id # rec[d].row.id
        BY <2>7, <2>12, <3>2 DEF MeterInv, PendingOK
      <4>2. rec'[d] = rec[d]
        BY <2>7, <3>2
      <4>3. RowOK(rec[d].row)'
        BY <1>0, <1>1, <2>1, <4>1, <4>2 DEF RowOK
      <4>4. Justified(rec[d])'
        BY <1>0, <4>1, <4>2 DEF Justified
      <4> QED
        BY <1>0, <4>1, <4>2, <4>3, <4>4
    <3> QED
      BY <3>1, <3>2
  <2>13. ASSUME NEW d \in Calls, NEW e \in Calls, place'[d] = "tx", place'[e] = "tx", d # e
         PROVE  rec'[d].row.id # rec'[e].row.id
    <3>1. \A f \in Calls : f # c /\ place'[f] = "tx" => rec'[f].row.id # ids + 1
      BY <1>1, <2>7 DEF MeterInv, PendingOK, RowOK
    <3>2. d # c /\ e # c => rec'[d].row.id # rec'[e].row.id
      BY <2>7, <2>13 DEF MeterInv, PendingOK
    <3> QED
      BY <2>3, <2>8, <2>13, <3>1, <3>2
  <2>14. PendingOK'
    BY <2>12, <2>13 DEF PendingOK
  <2>15. PeriodsOK' /\ NoFalseAlarm'
    BY <1>0 DEF MeterInv, PeriodsOK, NoFalseAlarm, QuotaEvents, In
  <2> QED
    BY <2>10, <2>11, <2>14, <2>15 DEF MeterInv
<1> QED
  BY <1>2, <1>3

\* Committing a record: it adds its own quantities, so a period's sums only grow, and
\* the event it may carry is about itself alone.
LEMMA InsertStep ==
    ASSUME MeterInv, IdempotencyInv', LedgerMatchesOutbox', NEW c \in Calls, place[c] = "tx",
           Insert(c), NEW l \in {"done", "failed"}, place' = [place EXCEPT ![c] = l],
           UNCHANGED <<now, ids, since, prior, rec>>
    PROVE  MeterInv'
<1>0. PICK b : b = rec[c]
  OBVIOUS
<1> DEFINE x == b.row
           V == usage \cup {x}
<1>1. usage' = V /\ outboxRows' = outboxRows \cup EventsOf(b)
  BY <1>0 DEF Insert
<1>2. RowOK(x) /\ Justified(b) /\ (\A r \in usage : r.id # x.id) /\ x \notin usage
  BY <1>0 DEF MeterInv, PendingOK
<1>3. LedgerOK /\ now \in Nat /\ ids \in Nat /\ \A r \in usage : RowOK(r)
  BY DEF MeterInv, LedgerOK
<1>4. x.qty \in Nat /\ x.gross \in Nat /\ x.qty <= x.gross /\ x.occurred \in Nat /\ Included \in Nat
  BY <1>2, NumbersAssumption DEF RowOK
<1>5. place'[c] # "tx" /\ place'[c] \notin {"lookup", "plan", "prior", "build"}
      /\ \A d \in Calls : d # c => place'[d] = place[d]
  BY DEF MeterInv, IdempotencyInv, Shape
<1> HIDE DEF x
<1>6. ASSUME NEW p
      PROVE  /\ IsFiniteSet(V)
             /\ TB(InOf(usage, p)) \in Nat /\ TG(InOf(usage, p)) \in Nat
             /\ x.occurred = p => /\ TB(InOf(V, p)) = TB(InOf(usage, p)) + x.qty
                                  /\ TG(InOf(V, p)) = TG(InOf(usage, p)) + x.gross
             /\ x.occurred # p => InOf(V, p) = InOf(usage, p)
             /\ TB(FromOf(V, p)) >= TB(FromOf(usage, p)) /\ TB(FromOf(usage, p)) \in Nat
             /\ TB(FromOf(V, p)) \in Int
  <2>1. LedgerOK'
    <3>1. \A r \in usage' : RowOK(r)'
      BY <1>1, <1>2, <1>3 DEF RowOK
    <3>2. IsFiniteSet(usage')
      BY <1>1, <1>2, <1>3, FS_AddElement DEF LedgerOK
    <3> QED
      BY <1>3, <3>1, <3>2 DEF LedgerOK
  <2>2. TB(FromOf(V, p)) \in Nat
    <3>1. \A r \in V : r.qty \in Nat
      BY <1>2, <1>3 DEF RowOK
    <3>2. FromOf(V, p) \subseteq V
      BY DEF FromOf
    <3>3. IsFiniteSet(FromOf(V, p))
      BY <1>1, <2>1, <3>2, FS_Subset DEF LedgerOK
    <3> HIDE DEF V
    <3> QED
      BY <3>1, <3>2, <3>3, BilledSums
  <2>3. /\ IsFiniteSet(V)
        /\ x.occurred = p => /\ TB(InOf(V, p)) = TB(InOf(usage, p)) + x.qty
                             /\ TG(InOf(V, p)) = TG(InOf(usage, p)) + x.gross
        /\ x.occurred # p => InOf(V, p) = InOf(usage, p)
        /\ TB(FromOf(V, p)) >= TB(FromOf(usage, p))
    BY <1>2, <1>3, InsertSums
  <2> QED
    BY <1>3, <2>2, <2>3, LedgerSums
<1> HIDE DEF V
<1>7. \A p : /\ TB(InOf(V, p)) \in Nat /\ TB(InOf(V, p)) >= TB(InOf(usage, p))
             /\ TG(InOf(V, p)) \in Nat /\ TG(InOf(V, p)) >= TG(InOf(usage, p))
  <2> SUFFICES ASSUME NEW p
               PROVE  /\ TB(InOf(V, p)) \in Nat /\ TB(InOf(V, p)) >= TB(InOf(usage, p))
                      /\ TG(InOf(V, p)) \in Nat /\ TG(InOf(V, p)) >= TG(InOf(usage, p))
    OBVIOUS
  <2>1. CASE x.occurred = p
    BY <1>4, <1>6, <2>1
  <2>2. CASE x.occurred # p
    BY <1>6, <2>2
  <2> QED
    BY <2>1, <2>2
<1>8. LedgerOK'
  <2>1. \A r \in usage' : RowOK(r)'
    BY <1>1, <1>2, <1>3 DEF RowOK, V
  <2> QED
    BY <1>1, <1>3, <1>6, <2>1 DEF LedgerOK
<1>9. CallsOK'
  <2>1. ASSUME NEW d \in Calls, place'[d] = "build"
        PROVE  prior[d] <= TB(FromOf(V, since[d]))
    <3>1. prior[d] <= TB(FromOf(usage, since[d])) /\ prior[d] \in Nat
      BY <1>5, <2>1 DEF MeterInv, CallsOK
    <3> QED
      BY <1>6, <3>1
  <2> QED
    BY <1>1, <1>5, <2>1 DEF MeterInv, CallsOK, Valid
<1>10. PendingOK'
  <2>1. ASSUME NEW d \in Calls, place'[d] = "tx"
        PROVE  RowOK(rec[d].row)' /\ Justified(rec[d])' /\ \A r \in usage' : r.id # rec'[d].row.id
    <3>1. d # c /\ place[d] = "tx" /\ rec'[d] = rec[d]
      BY <1>5, <2>1
    <3>2. PICK a : a = rec[d]
      OBVIOUS
    <3>3. RowOK(a.row) /\ Justified(a) /\ (\A r \in usage : r.id # a.row.id) /\ a.row.id # x.id
      BY <1>0, <3>1, <3>2 DEF MeterInv, PendingOK, x
    <3>4. RowOK(rec[d].row)'
      BY <3>1, <3>2, <3>3 DEF RowOK
    <3>5. Justified(rec[d])'
      <4> DEFINE p == a.row.occurred
      <4>1. a.row.gross \in Nat /\ Limit \in Nat
        BY <3>3, NumbersAssumption DEF RowOK
      <4>2. /\ TB(InOf(V, p)) \in Nat /\ TB(InOf(V, p)) >= TB(InOf(usage, p))
            /\ TG(InOf(V, p)) \in Nat /\ TG(InOf(V, p)) >= TG(InOf(usage, p))
            /\ TB(InOf(usage, p)) \in Nat /\ TG(InOf(usage, p)) \in Nat
        BY <1>6, <1>7
      <4> SUFFICES ASSUME a.row.since = p
                   PROVE  /\ \/ a.row.qty = 0 \/ a.row.qty + Included <= a.row.gross \/ Included = 0
                             \/ TB(InOf(V, p)) > 0
                          /\ a.crosses => Limit > 0 /\ TG(InOf(V, p)) + a.row.gross >= Limit
        BY <1>1, <3>1, <3>2 DEF Justified
      <4>3. /\ \/ a.row.qty = 0 \/ a.row.qty + Included <= a.row.gross \/ Included = 0
               \/ TB(InOf(usage, p)) > 0
            /\ a.crosses => Limit > 0 /\ TG(InOf(usage, p)) + a.row.gross >= Limit
        BY <3>3 DEF Justified
      <4> QED
        BY <4>1, <4>2, <4>3
    <3> QED
      BY <1>1, <3>1, <3>2, <3>3, <3>4, <3>5 DEF V
  <2>2. \A d, e \in Calls :
          place'[d] = "tx" /\ place'[e] = "tx" /\ d # e => rec'[d].row.id # rec'[e].row.id
    BY <1>5 DEF MeterInv, PendingOK
  <2> QED
    BY <2>1, <2>2 DEF PendingOK
<1>11. PeriodsOK'
  <2> SUFFICES ASSUME NEW p \in Nat
               PROVE  /\ TB(InOf(V, p)) <= TG(InOf(V, p))
                      /\ (\A r \in InOf(V, p) : r.since = p) =>
                            TB(InOf(V, p)) = 0 \/ TB(InOf(V, p)) + Included <= TG(InOf(V, p))
    BY <1>1 DEF PeriodsOK
  <2>1. /\ TB(InOf(usage, p)) <= TG(InOf(usage, p))
        /\ (\A r \in InOf(usage, p) : r.since = p) =>
              TB(InOf(usage, p)) = 0 \/ TB(InOf(usage, p)) + Included <= TG(InOf(usage, p))
    BY DEF MeterInv, PeriodsOK
  <2>2. CASE x.occurred # p
    BY <1>6, <2>1, <2>2
  <2>3. CASE x.occurred = p
    <3> DEFINE B == TB(InOf(usage, p))
               G == TG(InOf(usage, p))
    <3>1. /\ B \in Nat /\ G \in Nat /\ B <= G
          /\ TB(InOf(V, p)) = B + x.qty /\ TG(InOf(V, p)) = G + x.gross
      BY <1>6, <2>1, <2>3
    <3>2. ASSUME \A r \in InOf(V, p) : r.since = p
          PROVE  B + x.qty = 0 \/ B + x.qty + Included <= G + x.gross
      <4>1. x.since = p /\ \A r \in InOf(usage, p) : r.since = p
        BY <2>3, <3>2 DEF InOf, V
      <4>2. B = 0 \/ B + Included <= G
        BY <2>1, <4>1
      <4>3. x.qty = 0 \/ x.qty + Included <= x.gross \/ Included = 0 \/ B > 0
        BY <1>2, <2>3, <4>1 DEF Justified, x
      <4> HIDE DEF B, G
      <4> QED
        BY <1>4, <3>1, <4>2, <4>3
    <3> HIDE DEF B, G
    <3> QED
      BY <1>4, <3>1, <3>2
  <2> QED
    BY <2>2, <2>3
<1>12. NoFalseAlarm'
  <2> SUFFICES ASSUME NEW r \in V, r.since = r.occurred,
                      NEW e \in outboxRows', e.kind = "QuotaExceeded", e.period = r.occurred,
                      e.of = r.id
               PROVE  Limit > 0 /\ TG(InOf(V, r.occurred)) >= Limit
    BY <1>1 DEF NoFalseAlarm, QuotaEvents, In, InOf, TG
  <2>0. /\ TG(InOf(V, r.occurred)) >= TG(InOf(usage, r.occurred)) /\ Limit \in Nat
        /\ TG(InOf(V, r.occurred)) \in Nat /\ TG(InOf(usage, r.occurred)) \in Nat
    BY <1>6, <1>7, NumbersAssumption
  <2>1. CASE r = x
    <3>1. e \notin outboxRows
      BY <1>2, <2>1 DEF MeterInv, LedgerMatchesOutbox
    <3>2. e \in EventsOf(b)
      BY <1>1, <3>1
    <3>3. b.crosses
      BY <3>2 DEF EventsOf
    <3>4. Limit > 0 /\ TG(InOf(usage, x.occurred)) + x.gross >= Limit
      BY <1>2, <2>1, <3>3 DEF Justified, x
    <3>5. TG(InOf(V, x.occurred)) = TG(InOf(usage, x.occurred)) + x.gross
      BY <1>6
    <3> QED
      BY <2>1, <3>4, <3>5
  <2>2. CASE r # x
    <3>1. r \in usage /\ r.id # x.id
      BY <1>2, <2>2 DEF V
    <3>2. e \in outboxRows
      BY <1>1, <3>1, EventsOfARecord DEF x
    <3>3. Limit > 0 /\ TG(InOf(usage, r.occurred)) >= Limit
      BY <3>1, <3>2 DEF MeterInv, NoFalseAlarm, QuotaEvents, In, InOf, TG
    <3> QED
      BY <2>0, <3>3
  <2> QED
    BY <2>1, <2>2
<1> QED
  BY <1>8, <1>9, <1>10, <1>11, <1>12 DEF MeterInv

\* Every step preserves the invariant.
LEMMA MeterNextInv == MeterInv /\ [MeterNext]_meterVars => MeterInv'
<1> SUFFICES ASSUME MeterInv, [MeterNext]_meterVars PROVE MeterInv'
  OBVIOUS
<1>1. IdempotencyInv' /\ LedgerMatchesOutbox'
  BY IdempotencyStep, MatchStep DEF MeterInv
<1>2. /\ place \in [Calls -> Ports \cup {"build"} \cup Idle]
      /\ since \in [Calls -> Nat] /\ prior \in [Calls -> Nat] /\ now \in Nat
      /\ \A d \in Calls :
            /\ place[d] \in {"lookup", "plan", "prior", "build"} => Valid(d)
            /\ place[d] = "build" => prior[d] <= TB(FromOf(usage, since[d]))
  BY DEF MeterInv, IdempotencyInv, Shape, CallsOK, LedgerOK
<1> USE DEF tables, call, job, Goto
<1>3. ASSUME NEW c \in Calls, NEW l \in {"lookup", "plan", "reread"} \cup Idle,
             place' = [place EXCEPT ![c] = l], l \in {"lookup", "plan"} => Valid(c),
             UNCHANGED <<now, ids, tables, prior, since, rec>>
      PROVE  MeterInv'
  <2>1. \A d \in Calls :
              /\ place'[d] = "tx" => place[d] = "tx"
              /\ place'[d] \in {"lookup", "plan", "prior", "build"} => Valid(d)
              /\ place'[d] = "build" => prior'[d] <= TB(FromOf(usage, since'[d]))
    BY <1>2, <1>3 DEF Idle
  <2> QED
    BY <1>1, <1>2, <1>3, <2>1, QuietStep
<1>4. ASSUME NEW c \in Calls, Begin(c) PROVE MeterInv'
  BY <1>3, <1>4 DEF Begin, Idle
<1>5. ASSUME NEW c \in Calls, Lookup(c) PROVE MeterInv'
  BY <1>2, <1>3, <1>5 DEF Lookup, Return, Idle
<1>6. ASSUME NEW c \in Calls, ResolvePlan(c) PROVE MeterInv'
  <2>1. /\ place[c] = "plan" /\ since' = [since EXCEPT ![c] = now]
        /\ UNCHANGED <<now, ids, tables, prior, rec>>
        /\ \/ place' = [place EXCEPT ![c] = "prior"]
           \/ place' = [place EXCEPT ![c] = "rejected"]
    BY <1>6 DEF ResolvePlan
  <2>2. since' \in [Calls -> Nat]
    BY <1>2, <2>1
  <2>3. ASSUME NEW d \in Calls
        PROVE /\ place'[d] = "tx" => place[d] = "tx"
              /\ place'[d] \in {"lookup", "plan", "prior", "build"} => Valid(d)
              /\ place'[d] = "build" => prior'[d] <= TB(FromOf(usage, since'[d]))
    BY <1>2, <2>1
  <2> QED
    BY <1>1, <1>2, <2>1, <2>2, <2>3, QuietStep
<1>7. ASSUME NEW c \in Calls, ReadPrior(c) PROVE MeterInv'
  <2>1. TB(FromOf(usage, since[c])) \in Nat
    BY LedgerSums DEF MeterInv
  <2>2. CurrentPeriodUsage(since[c]) = TB(FromOf(usage, since[c]))
    BY DEF CurrentPeriodUsage, TB, FromOf
  <2>3. /\ place[c] = "prior" /\ place' = [place EXCEPT ![c] = "build"]
        /\ prior' = [prior EXCEPT ![c] = TB(FromOf(usage, since[c]))]
        /\ UNCHANGED <<now, ids, tables, since, rec>>
    BY <1>7, <2>2 DEF ReadPrior
  <2>4. prior' \in [Calls -> Nat]
    BY <1>2, <2>1, <2>3
  <2>5. ASSUME NEW d \in Calls
        PROVE /\ place'[d] = "tx" => place[d] = "tx"
              /\ place'[d] \in {"lookup", "plan", "prior", "build"} => Valid(d)
              /\ place'[d] = "build" => prior'[d] <= TB(FromOf(usage, since'[d]))
    <3>1. CASE d = c
      BY <1>2, <2>1, <2>3, <3>1
    <3>2. CASE d # c
      BY <1>2, <2>3, <3>2
    <3> QED
      BY <3>1, <3>2
  <2> QED
    BY <1>1, <1>2, <2>3, <2>4, <2>5, QuietStep
<1>8. ASSUME NEW c \in Calls, Build(c) PROVE MeterInv'
  BY <1>1, <1>8, BuildStep
<1>9. ASSUME NEW c \in Calls, RecordUsageTx(c) PROVE MeterInv'
  <2>1. CASE Duplicate(rec[c].row)
    BY <1>3, <1>9, <2>1 DEF RecordUsageTx, Idle
  <2>2. CASE ~Duplicate(rec[c].row)
    BY <1>1, <1>9, <2>2, InsertStep DEF RecordUsageTx
  <2> QED
    BY <2>1, <2>2
<1>10. ASSUME NEW c \in Calls, Reread(c) \/ CallFails(c) \/ Retry(c) PROVE MeterInv'
  BY <1>3, <1>10 DEF Reread, Return, CallFails, Retry, Idle
<1>11. ASSUME NEW c \in Calls, CommitUnconfirmed(c) PROVE MeterInv'
  BY <1>1, <1>11, InsertStep DEF CommitUnconfirmed
<1>12. ASSUME UNCHANGED <<usage, call>>, now' \in {now, now + 1}, ids' \in {ids, ids + 1},
              \A e \in outboxRows' : e.kind = "QuotaExceeded" => e \in outboxRows
       PROVE  MeterInv'
  <2>1. UNCHANGED <<usage, place, since, prior, rec>>
    BY <1>12
  <2>2. ASSUME NEW d \in Calls
        PROVE /\ place'[d] = "tx" => place[d] = "tx"
              /\ place'[d] \in {"lookup", "plan", "prior", "build"} => Valid(d)
              /\ place'[d] = "build" => prior'[d] <= TB(FromOf(usage, since'[d]))
    BY <1>2, <2>1
  <2> QED
    BY <1>1, <1>2, <1>12, <2>1, <2>2, QuietStep
<1>13. CASE AssignPlan \/ NextPeriod \/ SaveInvoiceFails \/ UNCHANGED meterVars
  BY <1>12, <1>13 DEF AssignPlan, NextPeriod, SaveInvoiceFails, meterVars
<1>14. ASSUME NEW p \in 1..Periods, Aggregate(p) PROVE MeterInv'
  BY <1>12, <1>14 DEF Aggregate
<1>15. CASE SaveInvoice
  BY <1>12, <1>15 DEF SaveInvoice
<1> QED
  BY <1>4, <1>5, <1>6, <1>7, <1>8, <1>9, <1>10, <1>11, <1>13, <1>14, <1>15
     DEF MeterNext, RecordUsage

\* The inductive invariant holds in every reachable state.
LEMMA MeterInvariance == MeterSpec => []MeterInv
  BY MeterInitInv, MeterNextInv, PTL DEF MeterSpec

\* Whatever the interleaving of the calls, and however stale the total each was priced
\* on, the units billed in a period leave the plan's free units out.
THEOREM FreeUnitsAreFree == MeterSpec => []AllowanceHonoured
<1>1. MeterInv => AllowanceHonoured
  <2> SUFFICES ASSUME MeterInv, NEW p \in 1..Periods, \A r \in In(p) : r.since = p
               PROVE  Total(Billed, In(p)) <= Max({0, Total(Gross, In(p)) - Included})
    BY DEF AllowanceHonoured
  <2> DEFINE B == TB(InOf(usage, p))
             G == TG(InOf(usage, p))
  <2>1. p \in Nat /\ In(p) = InOf(usage, p)
    BY DEF In, InOf
  <2>2. B \in Nat /\ G \in Nat /\ Included \in Nat
    BY LedgerSums, NumbersAssumption DEF MeterInv
  <2>3. B = 0 \/ B + Included <= G
    BY <2>1 DEF MeterInv, PeriodsOK
  <2>4. Total(Billed, In(p)) = B /\ Total(Gross, In(p)) = G
    BY <2>1 DEF TB, TG
  <2> HIDE DEF B, G
  <2>5. Max({0, G - Included}) = IF G - Included > 0 THEN G - Included ELSE 0
    BY <2>2, MaxZero
  <2> QED
    BY <2>2, <2>3, <2>4, <2>5
<1> QED
  BY <1>1, MeterInvariance, PTL

\* A QuotaExceeded event is true of the ledger it is committed with, and stays true:
\* the gateway never cuts off a team that is below its cap.
THEOREM AlarmsAreTrue == MeterSpec => []NoFalseAlarm
<1>1. MeterInv => NoFalseAlarm
  BY DEF MeterInv
<1> QED
  BY <1>1, MeterInvariance, PTL

-----------------------------------------------------------------------------
(* UsageMetering: types *)

\* A call that has resolved its plan has a period, and one at its transaction a record.
CallTypes ==
    \A c \in Calls :
        /\ place[c] \in {"prior", "build"} => since[c] \in 1..Periods
        /\ place[c] = "tx" => rec[c] \in Built

MeterTypes == MeterInv /\ MeterTypeOK /\ CallTypes

\* The initial states are well typed.
LEMMA MeterTypesInit == MeterInit => MeterTypes
<1> SUFFICES ASSUME MeterInit PROVE MeterTypes
  OBVIOUS
<1>1. planned \in BOOLEAN
  BY Zenon DEF MeterInit
<1>2. MeterTypeOK
  BY <1>1, NumbersAssumption DEF MeterInit, MeterTypeOK, Ports, Idle
<1>3. CallTypes
  BY DEF MeterInit, CallTypes
<1> QED
  BY <1>2, <1>3, MeterInitInv DEF MeterTypes

\* An invoice total is an integer number of cents.
LEMMA InvoiceTotalType ==
    ASSUME MeterTypeOK, IsFiniteSet(usage), NEW p
    PROVE  RoundToCents(Total(Cost, In(p))) \in Int
<1>1. In(p) \subseteq usage /\ IsFiniteSet(In(p))
  BY FS_Subset DEF In
<1>2. \A r \in In(p) : r.cost \in Nat
  BY <1>1, NumbersAssumption DEF MeterTypeOK, Record
<1>3. PICK m : m = Total(Cost, In(p))
  OBVIOUS
<1>4. m \in Nat
  BY <1>1, <1>2, <1>3, TotalCostType
<1>5. \A k \in Int : (k \div MicrosPerCent) * MicrosPerCent \in Int
  BY NumbersAssumption
<1>6. MicrosPerCent \div 2 \in Int
  BY NumbersAssumption
<1> QED
  BY <1>3, <1>4, <1>5, <1>6 DEF RoundToCents

\* A record is built within the bounds the code checks.
LEMMA BuiltType ==
    ASSUME MeterTypes, NEW c \in Calls, place[c] = "build",
           ~(BillableQuantity(prior[c], Qty[c]) * Price > MaxAmount)
    PROVE  LET q == BillableQuantity(prior[c], Qty[c]) IN
           [row |-> [id |-> ids + 1, key |-> Key[c], qty |-> q, cost |-> q * Price,
                     occurred |-> ClampOccurredAt(Occurred[c]), gross |-> Qty[c],
                     since |-> since[c]],
            crosses |-> Crosses(prior[c], Qty[c])] \in Built
<1> DEFINE q == BillableQuantity(prior[c], Qty[c])
<1>1. /\ ids \in Nat /\ now \in 1..Periods /\ now \in Nat /\ prior[c] \in Nat
      /\ since[c] \in 1..Periods /\ Valid(c) /\ Qty[c] \in Int /\ Occurred[c] \in Nat
  BY CallsAssumption, NumbersAssumption DEF MeterTypes, MeterInv, CallsOK, MeterTypeOK, CallTypes
<1>2. Qty[c] \in Nat /\ Qty[c] \in 0..MaxQuantity
  BY <1>1, NumbersAssumption DEF Valid
<1>3. q \in Nat /\ q <= Qty[c]
  BY <1>1, <1>2, BillableFacts
<1>4. ClampOccurredAt(Occurred[c]) \in 1..Periods
  BY <1>1, DatedNow
<1>5. Crosses(prior[c], Qty[c]) \in BOOLEAN
  BY Zenon DEF Crosses
<1>6. Key[c] \in Keys
  BY DEF Keys
<1>0. ~(q * Price > MaxAmount)
  OBVIOUS
<1> HIDE DEF q
<1>7. q * Price \in Nat
  BY <1>3, NumbersAssumption
<1>8. q \in 0..MaxQuantity /\ q * Price \in 0..MaxAmount
  BY <1>0, <1>2, <1>3, <1>7, NumbersAssumption
<1>9. [id |-> ids + 1, key |-> Key[c], qty |-> q, cost |-> q * Price,
       occurred |-> ClampOccurredAt(Occurred[c]), gross |-> Qty[c], since |-> since[c]] \in Record
  BY <1>1, <1>2, <1>4, <1>6, <1>8 DEF Record
<1> QED
  BY <1>5, <1>9 DEF Built, q

\* What a commit writes is well typed.
LEMMA InsertTypes ==
    ASSUME MeterTypes, NEW c \in Calls, place[c] = "tx", Insert(c)
    PROVE  usage' \subseteq Record /\ outboxRows' \subseteq Event /\ rec[c].row.id \in Nat
<1>1. rec[c] \in Built /\ rec[c].row \in Record
  BY DEF MeterTypes, CallTypes, Built
<1>2. EventsOf(rec[c]) \subseteq Event
  BY <1>1 DEF EventsOf, Event, Record
<1> QED
  BY <1>1, <1>2 DEF Insert, MeterTypes, MeterTypeOK, Record

\* Every step keeps the types.
LEMMA MeterTypesNext == MeterTypes /\ [MeterNext]_meterVars => MeterTypes'
<1> SUFFICES ASSUME MeterTypes, [MeterNext]_meterVars PROVE MeterTypes'
  OBVIOUS
<1>0. MeterInv'
  BY MeterNextInv DEF MeterTypes
<1> USE NumbersAssumption DEF MeterTypeOK, CallTypes, Ports, Idle, tables, call, job, Goto
<1>1. CASE AssignPlan \/ NextPeriod \/ UNCHANGED meterVars
  <2>1. CASE AssignPlan
    <3>1. planned' \in BOOLEAN
      BY <2>1, Zenon DEF AssignPlan
    <3> QED
      BY <1>0, <2>1, <3>1 DEF MeterTypes, AssignPlan
  <2>2. CASE NextPeriod \/ UNCHANGED meterVars
    BY <1>0, <2>2 DEF MeterTypes, NextPeriod, meterVars
  <2> QED
    BY <1>1, <2>1, <2>2
<1>2. ASSUME NEW c \in Calls, Begin(c) PROVE MeterTypes'
  BY <1>0, <1>2 DEF MeterTypes, Begin
<1>3. ASSUME NEW c \in Calls, Lookup(c) \/ Reread(c) PROVE MeterTypes'
  <2>1. \A r \in usage : r.id \in Nat
    BY DEF MeterTypes, Record
  <2> QED
    BY <1>0, <1>3, <2>1 DEF MeterTypes, Lookup, Reread, Return
<1>4. ASSUME NEW c \in Calls, ResolvePlan(c) PROVE MeterTypes'
  BY <1>0, <1>4 DEF MeterTypes, ResolvePlan
<1>5. ASSUME NEW c \in Calls, ReadPrior(c) PROVE MeterTypes'
  <2>1. prior' \in [Calls -> Nat]
    BY <1>0 DEF MeterInv, CallsOK
  <2> QED
    BY <1>0, <1>5, <2>1 DEF MeterTypes, ReadPrior
<1>6. ASSUME NEW c \in Calls, Build(c) PROVE MeterTypes'
  <2>1. CASE BillableQuantity(prior[c], Qty[c]) * Price > MaxAmount
    BY <1>0, <1>6, <2>1 DEF MeterTypes, Build
  <2>2. CASE ~(BillableQuantity(prior[c], Qty[c]) * Price > MaxAmount)
    <3>1. PICK b \in Built : rec' = [rec EXCEPT ![c] = b]
      BY <1>6, <2>2, BuiltType DEF Build
    <3>2. /\ place[c] = "build" /\ place' = [place EXCEPT ![c] = "tx"] /\ ids' = ids + 1
          /\ UNCHANGED <<now, planned, tables, since, prior, answer, job, portFaults>>
      BY <1>6, <2>2 DEF Build
    <3> QED
      BY <1>0, <3>1, <3>2 DEF MeterTypes
  <2> QED
    BY <2>1, <2>2
<1>7. ASSUME NEW c \in Calls, RecordUsageTx(c) PROVE MeterTypes'
  <2>1. CASE Duplicate(rec[c].row)
    BY <1>0, <1>7, <2>1 DEF MeterTypes, RecordUsageTx
  <2>2. CASE ~Duplicate(rec[c].row)
    <3>1. usage' \subseteq Record /\ outboxRows' \subseteq Event /\ rec[c].row.id \in Nat
      BY <1>7, <2>2, InsertTypes DEF RecordUsageTx
    <3> QED
      BY <1>0, <1>7, <2>2, <3>1 DEF MeterTypes, RecordUsageTx
  <2> QED
    BY <2>1, <2>2
<1>8. ASSUME NEW c \in Calls, CallFails(c) PROVE MeterTypes'
  BY <1>0, <1>8 DEF MeterTypes, CallFails, PortFault
<1>9. ASSUME NEW c \in Calls, CommitUnconfirmed(c) PROVE MeterTypes'
  <2>1. usage' \subseteq Record /\ outboxRows' \subseteq Event
    BY <1>9, InsertTypes DEF CommitUnconfirmed
  <2> QED
    BY <1>0, <1>9, <2>1 DEF MeterTypes, CommitUnconfirmed, PortFault
<1>10. ASSUME NEW c \in Calls, Retry(c) PROVE MeterTypes'
  BY <1>0, <1>10 DEF MeterTypes, Retry
<1>11. ASSUME NEW p \in 1..Periods, Aggregate(p) PROVE MeterTypes'
  <2>1. RoundToCents(Total(Cost, In(p))) \in Int
    BY InvoiceTotalType DEF MeterTypes, MeterInv, LedgerOK
  <2>2. PICK t \in Int : closer' = [pc |-> "save", period |-> p, total |-> t]
    BY <1>11, <2>1 DEF Aggregate
  <2>3. closes' \in 0..MaxCloses
        /\ UNCHANGED <<now, planned, tables, call, ids, portFaults>>
    BY <1>11 DEF MeterTypes, Aggregate
  <2> QED
    BY <1>0, <2>2, <2>3 DEF MeterTypes
<1>12. CASE SaveInvoice
  <2>1. closer \in [pc : {"save"}, period : 1..Periods, total : Int]
    BY <1>12 DEF MeterTypes, SaveInvoice
  <2>2. invoices' \subseteq Invoice /\ outboxRows' \subseteq Event
    BY <1>12, <2>1 DEF MeterTypes, SaveInvoice, Invoice, Event
  <2> QED
    BY <1>0, <1>12, <2>2 DEF MeterTypes, SaveInvoice
<1>13. CASE SaveInvoiceFails
  BY <1>0, <1>13 DEF MeterTypes, SaveInvoiceFails, PortFault
<1> QED
  BY <1>1, <1>2, <1>3, <1>4, <1>5, <1>6, <1>7, <1>8, <1>9, <1>10, <1>11, <1>12, <1>13
     DEF MeterNext, RecordUsage

\* Type correctness of the metering path: quantities, amounts and periods stay within
\* the bounds that RecordUsage and the period close check.
THEOREM MeterTypeCorrect == MeterSpec => []MeterTypeOK
<1>1. MeterTypes => MeterTypeOK
  BY DEF MeterTypes
<1> QED
  BY <1>1, MeterTypesInit, MeterTypesNext, PTL DEF MeterSpec
=============================================================================
