----------------------------- MODULE OutboxRelay -----------------------------
(***************************************************************************)
(* The DB-to-NATS half of billing's transactional outbox: writers commit a  *)
(* business row and its outbox row in one transaction, relay replicas drain *)
(* the unpublished rows (claim, publish, mark) into JetStream, and a        *)
(* downstream consumer deduplicates on the envelope id.                     *)
(*                                                                          *)
(* A row is its rank in created_at order.  created_at is stamped before the *)
(* transaction commits, so rows may commit in any order.  Postgres and      *)
(* JetStream (deduplication of Msg-Ids within a window) are external.       *)
(***************************************************************************)
EXTENDS Integers, Sequences, FiniteSets

CONSTANTS
    NRows,          \* outbox rows the writers will try to commit
    Poison,         \* rows decodeOutboxPayload rejects
    Relays,         \* processes running OutboxRelay.Run
    BatchSize,      \* RelayConfig.BatchSize
    FaultKinds,     \* what may go wrong
    MaxFaults       \* bound: how often

Rows == 1..NRows
AllFaults == {"tx", "db", "deadline", "nats", "crash", "window"}

ASSUME SizesAssumption ==
    NRows \in Nat /\ BatchSize \in Nat \ {0} /\ MaxFaults \in Nat
ASSUME KindsAssumption == Poison \subseteq Rows /\ FaultKinds \subseteq AllFaults

VARIABLES
    wpc,        \* each writer's transaction
    ledger,     \* usage_records / invoices rows
    outbox,     \* outbox rows
    marked,     \* outbox rows with published_at set
    pc,         \* where each relay is
    batch,      \* the claimed rows it has not finished
    count,      \* processBatch's published
    stream,     \* JetStream: the stored messages
    window,     \* JetStream: the Msg-Ids still remembered
    read,       \* the downstream consumer's position in the stream
    processed,  \* its ProcessedStore
    effects,    \* how often each row's event took effect
    faults      \* what went wrong so far

writers  == <<wpc, ledger, outbox>>
relay    == <<pc, batch, count>>
broker   == <<stream, window>>
consumer == <<read, processed, effects>>
vars == <<writers, marked, relay, broker, consumer, faults>>

Message == [env : Nat, row : Rows]

TypeOK ==
    /\ wpc \in [Rows -> {"new", "committed", "aborted"}]
    /\ ledger \subseteq Rows /\ outbox \subseteq Rows /\ marked \subseteq Rows
    /\ pc \in [Relays -> {"wait", "claim", "publish", "mark", "dead"}]
    /\ batch \in [Relays -> SUBSET Rows]
    /\ \A r \in Relays : pc[r] \in {"publish", "mark"} => batch[r] # {}
    /\ count \in [Relays -> Nat]
    /\ stream \in Seq(Message) /\ window \subseteq Nat
    /\ read \in 0..Len(stream) /\ processed \subseteq Nat
    /\ effects \in [Rows -> Nat]
    /\ faults \in 0..MaxFaults

Init ==
    /\ wpc = [w \in Rows |-> "new"] /\ ledger = {} /\ outbox = {} /\ marked = {}
    /\ pc = [r \in Relays |-> "claim"] /\ batch = [r \in Relays |-> {}]
    /\ count = [r \in Relays |-> 0]
    /\ stream = <<>> /\ window = {} /\ read = 0 /\ processed = {}
    /\ effects = [w \in Rows |-> 0] /\ faults = 0

-----------------------------------------------------------------------------
Fault(kind) == kind \in FaultKinds /\ faults < MaxFaults /\ faults' = faults + 1

\* RecordUsageTx / SaveInvoiceTx: the business row and the outbox row commit together.
CommitTx(w) ==
    /\ wpc[w] = "new"
    /\ wpc' = [wpc EXCEPT ![w] = "committed"]
    /\ ledger' = ledger \cup {w} /\ outbox' = outbox \cup {w}
    /\ UNCHANGED <<marked, relay, broker, consumer, faults>>

\* Any error inside BeginFunc rolls both inserts back.
RollbackTx(w) ==
    /\ wpc[w] = "new" /\ Fault("tx")
    /\ wpc' = [wpc EXCEPT ![w] = "aborted"]
    /\ UNCHANGED <<ledger, outbox, marked, relay, broker, consumer>>

-----------------------------------------------------------------------------
Unpublished == outbox \ marked

\* ORDER BY created_at LIMIT BatchSize
Oldest(S) == {w \in S : Cardinality({v \in S : v < w}) < BatchSize}

\* w is the row processBatch is at: it works through the batch in order.
Current(r, w) == w \in batch[r] /\ \A v \in batch[r] : w <= v

\* ClaimUnpublished: a plain SELECT, so two relays may claim the same rows.
Claim(r) ==
    /\ pc[r] = "claim"
    /\ batch' = [batch EXCEPT ![r] = Oldest(Unpublished)]
    /\ count' = [count EXCEPT ![r] = 0]
    /\ pc' = [pc EXCEPT ![r] = IF Oldest(Unpublished) = {} THEN "wait" ELSE "publish"]
    /\ UNCHANGED <<writers, marked, broker, consumer, faults>>

\* The claim query fails: Run logs it and waits for the next tick.
ClaimFails(r) ==
    /\ pc[r] = "claim" /\ Fault("db")
    /\ pc' = [pc EXCEPT ![r] = "wait"]
    /\ UNCHANGED <<writers, marked, batch, count, broker, consumer>>

\* The claim query fails with an error that is a DeadlineExceeded although
\* Run's own context is alive (a connect timeout of the pool): Run returns.
ClaimTimesOut(r) ==
    /\ pc[r] = "claim" /\ Fault("deadline")
    /\ pc' = [pc EXCEPT ![r] = "dead"]
    /\ UNCHANGED <<writers, marked, batch, count, broker, consumer>>

\* processBatch is done with row w, having published and marked n rows so far.
\* A batch of BatchSize such rows is followed by another claim, any other by a wait.
FinishRow(r, w, n) ==
    /\ batch' = [batch EXCEPT ![r] = @ \ {w}]
    /\ count' = [count EXCEPT ![r] = n]
    /\ pc' = [pc EXCEPT ![r] = IF batch[r] # {w} THEN "publish"
                               ELSE IF n < BatchSize THEN "wait" ELSE "claim"]

\* Mutant: a fresh envelope id for every publish (natsutil.NewEnvelope's own).
EnvelopeID_Fresh(w) == NRows + Len(stream) + 1

\* PublishWithID: env.ID = Msg-Id = the outbox row id.
EnvelopeID(w) == w

\* js.Publish stores the message unless its Msg-Id is still remembered.
Store(w) ==
    /\ stream' = IF EnvelopeID(w) \in window THEN stream
                 ELSE Append(stream, [env |-> EnvelopeID(w), row |-> w])
    /\ window' = window \cup {EnvelopeID(w)}

\* Mutant: the first row that does not decode ends the batch.
SkipPoison_StopBatch(r, w) ==
    /\ pc[r] = "publish" /\ Current(r, w) /\ w \in Poison
    /\ batch' = [batch EXCEPT ![r] = {}]
    /\ pc' = [pc EXCEPT ![r] = "wait"]
    /\ UNCHANGED <<writers, marked, count, broker, consumer, faults>>

\* decodeOutboxPayload fails: the row is logged and left unpublished.
SkipPoison(r, w) ==
    /\ pc[r] = "publish" /\ Current(r, w) /\ w \in Poison
    /\ FinishRow(r, w, count[r])
    /\ UNCHANGED <<writers, marked, broker, consumer, faults>>

PublishRow(r, w) ==
    /\ pc[r] = "publish" /\ Current(r, w) /\ w \notin Poison
    /\ Store(w)
    /\ pc' = [pc EXCEPT ![r] = "mark"]
    /\ UNCHANGED <<writers, marked, batch, count, consumer, faults>>

\* Mutant: the row is marked although the publish reported an error.
PublishFails_MarkAnyway(r, w) ==
    /\ pc[r] = "publish" /\ Current(r, w) /\ w \notin Poison /\ Fault("nats")
    /\ pc' = [pc EXCEPT ![r] = "mark"]
    /\ UNCHANGED <<writers, marked, batch, count, broker, consumer>>

\* The publish reports an error, with the message stored (a lost PubAck) or
\* not: the row is left unmarked for the next tick.
PublishFails(r, w) ==
    /\ pc[r] = "publish" /\ Current(r, w) /\ w \notin Poison /\ Fault("nats")
    /\ Store(w) \/ UNCHANGED broker
    /\ FinishRow(r, w, count[r])
    /\ UNCHANGED <<writers, marked, consumer>>

MarkPublished(r, w) ==
    /\ pc[r] = "mark" /\ Current(r, w)
    /\ marked' = marked \cup {w}
    /\ FinishRow(r, w, count[r] + 1)
    /\ UNCHANGED <<writers, broker, consumer, faults>>

\* The UPDATE reports an error, whether or not it took effect.
MarkFails(r, w) ==
    /\ pc[r] = "mark" /\ Current(r, w) /\ Fault("db")
    /\ marked' = marked \cup {w} \/ UNCHANGED marked
    /\ FinishRow(r, w, count[r])
    /\ UNCHANGED <<writers, broker, consumer>>

\* PollInterval passes.
Tick(r) ==
    /\ pc[r] = "wait"
    /\ pc' = [pc EXCEPT ![r] = "claim"]
    /\ UNCHANGED <<writers, marked, batch, count, broker, consumer, faults>>

\* The process crashes and is restarted; Run starts with a claim.
CrashRestart(r) ==
    /\ Fault("crash")
    /\ pc' = [pc EXCEPT ![r] = "claim"]
    /\ batch' = [batch EXCEPT ![r] = {}] /\ count' = [count EXCEPT ![r] = 0]
    /\ UNCHANGED <<writers, marked, broker, consumer>>

-----------------------------------------------------------------------------
\* JetStream's duplicate window for a Msg-Id passes.
ForgetMsgID(i) ==
    /\ i \in window /\ Fault("window")
    /\ window' = window \ {i}
    /\ UNCHANGED <<writers, marked, relay, stream, consumer>>

\* The consumer handles the next message, once per envelope id.  (EventConsumer
\* models its redeliveries and the gap between side effect and mark.)
Consume ==
    /\ read < Len(stream)
    /\ read' = read + 1
    /\ LET m == stream[read + 1] IN
       /\ processed' = processed \cup {m.env}
       /\ effects' = IF m.env \in processed THEN effects
                     ELSE [effects EXCEPT ![m.row] = @ + 1]
    /\ UNCHANGED <<writers, marked, relay, broker, faults>>

Run(r) ==
    \/ Claim(r) \/ ClaimFails(r) \/ ClaimTimesOut(r)
    \/ \E w \in Rows :
          \/ SkipPoison(r, w) \/ PublishRow(r, w) \/ PublishFails(r, w)
          \/ MarkPublished(r, w) \/ MarkFails(r, w)
    \/ Tick(r)

Next ==
    \/ \E w \in Rows : CommitTx(w) \/ RollbackTx(w)
    \/ \E r \in Relays : Run(r) \/ CrashRestart(r)
    \/ \E i \in window : ForgetMsgID(i)
    \/ Consume

Spec == Init /\ [][Next]_vars

\* Each relay is a goroutine that keeps running; the consumer keeps consuming.
FairSpec == Spec /\ (\A r \in Relays : WF_vars(Run(r))) /\ WF_vars(Consume)

-----------------------------------------------------------------------------
InStream == {stream[i].row : i \in 1..Len(stream)}

\* No event is lost: published_at is only ever set on a row whose message
\* JetStream has stored (publish-then-mark).
MarkedIsStored == marked \subseteq InStream

\* No phantom event: whatever is on the bus describes a committed business write,
\* and the ledger and the outbox agree.
NoPhantom == InStream \subseteq ledger /\ ledger = outbox

\* The relay neither drops nor makes up events: MarkedIsStored and NoPhantom.
NothingLostOrInvented == MarkedIsStored /\ NoPhantom

\* However often a row is republished - a crash or an error between publish and
\* mark, two relays, a forgotten Msg-Id - its event takes effect once.
EffectOnce == \A w \in Rows : effects[w] <= 1

\* The outbox keeps its promise to the rest of the platform.
Promise == INSTANCE ReliableOutbox WITH Rows <- Rows, ledger <- ledger, effects <- effects
ExactlyOnceInEffect == Promise!Spec

\* A committed row whose payload decodes eventually takes effect, as long as some
\* relay is alive: what failed is retried on a later tick, a lost or forgotten
\* publish is repeated, and fewer than BatchSize undecodable rows hold nobody up.
DrainsWhileAlive ==
    \A w \in Rows \ Poison :
        (w \in outbox) ~> (effects[w] > 0 \/ \A r \in Relays : pc[r] = "dead")

=============================================================================
