---------------------------- MODULE EventConsumer ----------------------------
(***************************************************************************)
(* The consumer half of pkg/natsutil: the replicas of one durable consumer  *)
(* group running handleMessage over an external JetStream consumer, with a  *)
(* shared ProcessedStore and a dead-letter subject.                         *)
(*                                                                          *)
(* JetStream is modelled by what the code relies on: explicit acks, a       *)
(* redelivery when a delivery is NAKed or its AckWait passes, at most       *)
(* MaxDeliver deliveries, NumDelivered in the metadata.                     *)
(***************************************************************************)
EXTENDS Integers, FiniteSets

CONSTANTS
    Replicas,       \* members of the consumer group
    Msgs,           \* events in the stream
    Poison,         \* events whose handler always fails
    Corrupt,        \* events whose envelope does not unmarshal
    MaxRetries,     \* WithMaxRetries, not 0: a cap and a DLQ are configured
    MsgTimeout,     \* WithMessageTimeout, in seconds
    AckWait,        \* WithAckWait, in seconds
    FaultKinds,     \* what may go wrong
    MaxFaults       \* bound: how often

AllFaults == {"store", "crash", "ackLost", "dlq", "timeout", "handler"}

ASSUME SetsAssumption ==
    Poison \subseteq Msgs /\ Corrupt \subseteq Msgs /\ FaultKinds \subseteq AllFaults
ASSUME NumbersAssumption ==
    /\ MaxRetries \in Nat \ {0} /\ MaxFaults \in Nat
    /\ MsgTimeout \in Nat /\ AckWait \in Nat

VARIABLES
    st,         \* JetStream's view of each event
    n,          \* how often each event was delivered (NumDelivered)
    pc,         \* where each replica's handleMessage is
    msg,        \* the event a replica works on
    dn,         \* meta.NumDelivered of the delivery it works on
    expired,    \* whether its per-message context has timed out
    processed,  \* ProcessedStore: the event ids marked
    effects,    \* how often the handler's side effect was applied
    dlq,        \* copies on the dead-letter subject (deduplicated by Msg-Id)
    gaps,       \* deliveries that ended between side effect and mark
    faults      \* what went wrong so far, with which delivery of which event

vars == <<st, n, pc, msg, dn, expired, processed, effects, dlq, gaps, faults>>
server == <<st, n>>
local  == <<msg, dn>>

Steps   == {"check", "handle", "mark", "ack", "nak", "dlq", "term"}
Settled == {"acked", "termed", "abandoned"}

TypeOK ==
    /\ st \in [Msgs -> {"ready", "inflight"} \cup Settled]
    /\ n \in [Msgs -> 0..(MaxRetries + 1)]
    /\ pc \in [Replicas -> Steps \cup {"idle"}]
    /\ msg \in [Replicas -> Msgs] /\ dn \in [Replicas -> 0..(MaxRetries + 1)]
    /\ expired \in [Replicas -> BOOLEAN]
    /\ processed \subseteq Msgs /\ dlq \subseteq Msgs
    /\ effects \in [Msgs -> Nat] /\ gaps \in [Msgs -> Nat]
    /\ faults \subseteq [kind : AllFaults, msg : Msgs, dn : 0..(MaxRetries + 1)]

Init ==
    /\ st = [m \in Msgs |-> "ready"] /\ n = [m \in Msgs |-> 0]
    /\ pc = [r \in Replicas |-> "idle"] /\ msg \in [Replicas -> Msgs]
    /\ \A r, q \in Replicas : msg[r] = msg[q]
    /\ dn = [r \in Replicas |-> 0] /\ expired = [r \in Replicas |-> FALSE]
    /\ processed = {} /\ dlq = {}
    /\ effects = [m \in Msgs |-> 0] /\ gaps = [m \in Msgs |-> 0]
    /\ faults = {}

-----------------------------------------------------------------------------
\* Something goes wrong with the delivery replica r works on.
Fault(kind, r) ==
    /\ kind \in FaultKinds /\ Cardinality(faults) < MaxFaults
    /\ faults' = faults \cup {[kind |-> kind, msg |-> msg[r], dn |-> dn[r]]}
Goto(r, l) == pc' = [pc EXCEPT ![r] = l]
Working(r, m) == pc[r] # "idle" /\ msg[r] = m

\* maxDeliverFromCfg
MaxDeliver == MaxRetries + 1

\* JetStream after a NAK or an AckWait expiry of the current delivery.
Redeliver(m) == st' = [st EXCEPT ![m] = IF n[m] < MaxDeliver THEN "ready" ELSE "abandoned"]

\* A delivery reaches handleMessage; an envelope that does not parse is Term'd.
Deliver(r, m) ==
    /\ pc[r] = "idle" /\ st[m] = "ready"
    /\ st' = [st EXCEPT ![m] = "inflight"]
    /\ n' = [n EXCEPT ![m] = @ + 1]
    /\ msg' = [msg EXCEPT ![r] = m]
    /\ dn' = [dn EXCEPT ![r] = n[m] + 1]
    /\ expired' = [expired EXCEPT ![r] = FALSE]
    /\ Goto(r, IF m \in Corrupt THEN "term" ELSE "check")
    /\ UNCHANGED <<processed, effects, dlq, gaps, faults>>

\* Mutant: the store is not consulted.
CheckProcessed_Skip(r) ==
    /\ pc[r] = "check"
    /\ Goto(r, "handle") /\ faults' = faults
    /\ UNCHANGED <<server, local, expired, processed, effects, dlq, gaps>>

\* store.IsProcessed: error -> NAK, duplicate -> ACK, else the handler.
CheckProcessed(r) ==
    /\ pc[r] = "check"
    /\ \/ Goto(r, IF msg[r] \in processed THEN "ack" ELSE "handle") /\ faults' = faults
       \/ Goto(r, "nak") /\ Fault("store", r)
    /\ UNCHANGED <<server, local, expired, processed, effects, dlq, gaps>>

\* handler(ctx, envelope) = nil: the side effect is committed.
HandlerSucceeds(r) ==
    /\ pc[r] = "handle" /\ msg[r] \notin Poison
    /\ effects' = [effects EXCEPT ![msg[r]] = @ + 1]
    /\ Goto(r, "mark")
    /\ UNCHANGED <<server, local, expired, processed, dlq, gaps, faults>>

\* Mutant: the final delivery is not recognised.
HandleFailure_OffByOne(r) ==
    Goto(r, IF dn[r] > MaxRetries + 1 THEN "dlq" ELSE "nak")

\* handleFailure: DLQ on the final allowed delivery, NAK before it.
HandleFailure(r) ==
    Goto(r, IF dn[r] >= MaxRetries + 1 THEN "dlq" ELSE "nak")

\* handler(ctx, envelope) # nil: a poison event, a transient error, or the
\* per-message timeout, after which ctx is dead for the rest of the delivery.
HandlerFails(r) ==
    /\ pc[r] = "handle"
    /\ \/ msg[r] \in Poison /\ UNCHANGED <<faults, expired>>
       \/ Fault("handler", r) /\ UNCHANGED expired
       \/ Fault("timeout", r) /\ expired' = [expired EXCEPT ![r] = TRUE]
    /\ HandleFailure(r)
    /\ UNCHANGED <<server, local, processed, effects, dlq, gaps>>

\* store.MarkProcessed before the ack; an error NAKs.
MarkProcessed(r) ==
    /\ pc[r] = "mark"
    /\ \/ /\ processed' = processed \cup {msg[r]}
          /\ Goto(r, "ack") /\ UNCHANGED <<gaps, faults>>
       \/ /\ Fault("store", r) /\ Goto(r, "nak")
          /\ gaps' = [gaps EXCEPT ![msg[r]] = @ + 1] /\ UNCHANGED processed
    /\ UNCHANGED <<server, local, expired, effects, dlq>>

\* Mutant: the publish is retried on the same context until it succeeds.
RouteToDLQ_RetryForever(r) ==
    /\ pc[r] = "dlq" /\ ~expired[r]
    /\ dlq' = dlq \cup {msg[r]}
    /\ Goto(r, "term")
    /\ UNCHANGED <<server, local, expired, processed, effects, gaps, faults>>

\* routeToDLQ: publish on the message context, then Term whatever came of it.
RouteToDLQ(r) ==
    /\ pc[r] = "dlq"
    /\ \/ ~expired[r] /\ dlq' = dlq \cup {msg[r]} /\ UNCHANGED faults
       \/ expired[r] /\ UNCHANGED <<dlq, faults>>
       \/ Fault("dlq", r) /\ UNCHANGED dlq
    /\ Goto(r, "term")
    /\ UNCHANGED <<server, local, expired, processed, effects, gaps>>

\* msg.Ack settles the event unless it is lost on the way.
Ack(r) ==
    /\ pc[r] = "ack" /\ Goto(r, "idle")
    /\ \/ /\ st' = [st EXCEPT ![msg[r]] = IF @ \in Settled THEN @ ELSE "acked"]
          /\ UNCHANGED faults
       \/ Fault("ackLost", r) /\ UNCHANGED st
    /\ UNCHANGED <<n, local, expired, processed, effects, dlq, gaps>>

\* msg.Nak counts only for the delivery JetStream is waiting on.
Nak(r) ==
    /\ pc[r] = "nak" /\ Goto(r, "idle")
    /\ \/ /\ IF st[msg[r]] = "inflight" /\ dn[r] = n[msg[r]] THEN Redeliver(msg[r]) ELSE st' = st
          /\ UNCHANGED faults
       \/ Fault("ackLost", r) /\ UNCHANGED st
    /\ UNCHANGED <<n, local, expired, processed, effects, dlq, gaps>>

Term(r) ==
    /\ pc[r] = "term" /\ Goto(r, "idle")
    /\ \/ /\ st' = [st EXCEPT ![msg[r]] = IF @ \in Settled THEN @ ELSE "termed"]
          /\ UNCHANGED faults
       \/ Fault("ackLost", r) /\ UNCHANGED st
    /\ UNCHANGED <<n, local, expired, processed, effects, dlq, gaps>>

\* The process dies; the replica that takes its place starts idle.
Crash(r) ==
    /\ pc[r] # "idle" /\ Fault("crash", r) /\ Goto(r, "idle")
    /\ gaps' = IF pc[r] = "mark" THEN [gaps EXCEPT ![msg[r]] = @ + 1] ELSE gaps
    /\ UNCHANGED <<server, local, expired, processed, effects, dlq>>

\* Mutant: the handler runs without a deadline of its own.
AnsweredInTime_NoDeadline == FALSE

\* handleMessage works under a context of MsgTimeout, so that a delivery is answered
\* before AckWait passes.
AnsweredInTime == MsgTimeout < AckWait

\* JetStream gives up on a delivery; if AnsweredInTime, only on one whose process
\* has died or whose answer was lost.
AckWaitExpires(m) ==
    /\ st[m] = "inflight"
    /\ AnsweredInTime => \A r \in Replicas : ~Working(r, m)
    /\ Redeliver(m)
    /\ UNCHANGED <<n, pc, local, expired, processed, effects, dlq, gaps, faults>>

HandleMessage(r) ==
    CheckProcessed(r) \/ HandlerSucceeds(r) \/ HandlerFails(r) \/ MarkProcessed(r)
      \/ RouteToDLQ(r) \/ Ack(r) \/ Nak(r) \/ Term(r)

Next ==
    \/ \E r \in Replicas : HandleMessage(r) \/ Crash(r)
    \/ \E r \in Replicas, m \in Msgs : Deliver(r, m)
    \/ \E m \in Msgs : AckWaitExpires(m)

Spec == Init /\ [][Next]_vars

\* Every call handleMessage makes returns; JetStream keeps delivering what is
\* ready and gives up on deliveries nobody answers.
Fairness ==
    /\ \A r \in Replicas : WF_vars(HandleMessage(r))
    /\ \A m \in Msgs : WF_vars(AckWaitExpires(m))
    /\ \A m \in Msgs : SF_vars(\E r \in Replicas : Deliver(r, m))

FairSpec == Spec /\ Fairness

-----------------------------------------------------------------------------
(* Properties *)

\* An event JetStream considers acknowledged was handled: no path acks on a
\* store that merely claims so (handleMessage, mark before ack).
AckedMeansHandled == \A m \in Msgs : st[m] = "acked" => effects[m] >= 1

\* The side effect is repeated only for deliveries that ended in the gap
\* between the handler's commit and MarkProcessed, the gap idempotency.go
\* names: lost acks and redeliveries alone never repeat it.
OncePerGap == \A m \in Msgs : effects[m] <= 1 + gaps[m]

\* With the message timeout below AckWait no two replicas ever work on the
\* same event (WithMessageTimeout).
SingleHandler ==
    \A r, q \in Replicas, m \in Msgs : Working(r, m) /\ Working(q, m) => r = q

\* An event is dead-lettered only on its last allowed delivery, and never after
\* its side effect was applied and recorded (handleFailure).
DLQIsLastResort ==
    \A m \in dlq : n[m] = MaxDeliver /\ (gaps[m] = 0 => effects[m] = 0)

\* Every event is settled after finitely many deliveries: nothing is redelivered
\* for ever (MaxDeliver, Term on poison).
EventuallySettled == \A m \in Msgs : <>[](st[m] \in Settled)

\* An event is lost without a trace - neither handled nor dead-lettered - only if
\* its last allowed delivery met a store error, a crash, an expired message
\* context or a failing DLQ publish: earlier faults, and lost acks, NAKs and Terms
\* at any time, are made good (handleFailure, routeToDLQ, MaxDeliver).
LossIsExplained ==
    \A m \in Msgs \ Corrupt :
        st[m] \in Settled /\ effects[m] = 0 /\ m \notin dlq =>
            \E f \in faults : /\ f.msg = m /\ f.dn = MaxDeliver
                             /\ f.kind \in {"store", "crash", "timeout", "dlq"}

\* What settling an event means for its publisher: it was handled, or it is on the
\* DLQ unhandled after every allowed delivery, or a fault on the last delivery
\* explains the loss.
SettledHonestly == AckedMeansHandled /\ DLQIsLastResort /\ LossIsExplained

=============================================================================
