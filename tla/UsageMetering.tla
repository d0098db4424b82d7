---------------------------- MODULE UsageMetering ----------------------------
(***************************************************************************)
(* Billing's write path for one team and one meter: concurrent RecordUsage  *)
(* calls (gRPC clients and redelivered events) against Postgres, and the    *)
(* period close that rolls the ledger into invoices.                        *)
(*                                                                          *)
(* Each call is a sequence of port round-trips with nothing locked between  *)
(* them.  Time is the number of the monthly billing period.  The variables  *)
(* have names of their own, for Billing_proofs extends OutboxRelay too.     *)
(***************************************************************************)
EXTENDS Integers, FiniteSets, FiniteSetsExt

CONSTANTS
    Calls,          \* RecordUsage calls
    Key,            \* input.IdempotencyKey of each
    NoKey,          \* the empty key
    Qty,            \* input.Quantity of each
    Occurred,       \* period of input.OccurredAt of each, 0 when absent
    Included,       \* plan.IncludedQuantities: free units per period
    Limit,          \* plan.QuotaLimits: the cap, 0 for none
    Price,          \* plan.UnitPrices
    MaxQuantity,    \* MaxQuantityPerRecord
    MaxAmount,      \* the largest int64
    MicrosPerCent,
    Periods,        \* bound: periods the clock runs through
    MaxInFlight,    \* bound: calls at work at the same time
    MaxCloses,      \* bound: runs of the period-close job
    MaxPortFaults   \* bound: port failures

ASSUME CallsAssumption ==
    Qty \in [Calls -> Int] /\ Occurred \in [Calls -> Nat] /\ Calls = DOMAIN Key
ASSUME NumbersAssumption ==
    /\ Included \in Nat /\ Limit \in Nat /\ Price \in Nat /\ MaxAmount \in Nat
    /\ MaxQuantity \in Nat /\ MicrosPerCent \in Nat \ {0} /\ Periods \in Nat \ {0}
    /\ MaxInFlight \in Nat /\ MaxCloses \in Nat /\ MaxPortFaults \in Nat

VARIABLES
    now,        \* the current billing period
    planned,    \* whether the team has a rate plan
    usage,      \* usage_records (gross and since are for the properties)
    outboxRows, \* outbox rows
    invoices,   \* invoices
    place,      \* where each call is
    since,      \* periodStart of each call
    prior,      \* priorUsage of each call
    rec,        \* the record each call has built, and whether it crosses the cap
    answer,     \* the record id each call returned
    ids,        \* the id provider
    closer,     \* the period-close job
    closes,     \* how often it ran
    portFaults  \* port failures so far

call == <<place, since, prior, rec, answer>>
tables == <<usage, outboxRows, invoices>>
job == <<closer, closes>>
meterVars == <<now, planned, tables, call, ids, job, portFaults>>

Keys == {Key[c] : c \in Calls}
Record == [id : Nat, key : Keys, qty : 0..MaxQuantity, cost : 0..MaxAmount,
           occurred : 1..Periods, gross : 0..MaxQuantity, since : 1..Periods]
Built == [row : Record, crosses : BOOLEAN]
NoRec == [row |-> [id |-> 0]]
Event == [kind : {"UsageRecorded", "QuotaExceeded", "InvoiceGenerated"}, of : Nat,
          period : 1..Periods]
Invoice == [id : Nat, period : 1..Periods, total : Int]
NoClose == [pc |-> "idle"]

Ports == {"lookup", "plan", "prior", "tx", "reread"}
Idle  == {"idle", "failed", "rejected", "done"}

MeterTypeOK ==
    /\ now \in 1..Periods /\ planned \in BOOLEAN
    /\ usage \subseteq Record /\ outboxRows \subseteq Event /\ invoices \subseteq Invoice
    /\ place \in [Calls -> Ports \cup {"build"} \cup Idle]
    /\ since \in [Calls -> 0..Periods] /\ prior \in [Calls -> Nat]
    /\ rec \in [Calls -> Built \cup {NoRec}]
    /\ answer \in [Calls -> Nat] /\ ids \in Nat
    /\ closer \in {NoClose} \cup [pc : {"save"}, period : 1..Periods, total : Int]
    /\ closes \in 0..MaxCloses /\ portFaults \in 0..MaxPortFaults

MeterInit ==
    /\ now = 1 /\ planned = FALSE
    /\ usage = {} /\ outboxRows = {} /\ invoices = {}
    /\ place = [c \in Calls |-> "idle"] /\ since = [c \in Calls |-> 0]
    /\ prior = [c \in Calls |-> 0] /\ rec = [c \in Calls |-> NoRec]
    /\ answer = [c \in Calls |-> 0] /\ ids = 0
    /\ closer = NoClose /\ closes = 0 /\ portFaults = 0

-----------------------------------------------------------------------------
Goto(c, l) == place' = [place EXCEPT ![c] = l]
PortFault == portFaults < MaxPortFaults /\ portFaults' = portFaults + 1
Total(f(_), S) == MapThenSumSet(f, S)
Billed(r) == r.qty
Gross(r) == r.gross
Cost(r) == r.cost
In(p) == {r \in usage : r.occurred = p}

\* AssignPlanToTeam
AssignPlan ==
    /\ ~planned /\ planned' = TRUE
    /\ UNCHANGED <<now, tables, call, ids, job, portFaults>>

\* The month ends.
NextPeriod ==
    /\ now < Periods /\ now' = now + 1
    /\ UNCHANGED <<planned, tables, call, ids, job, portFaults>>

\* Step 1: the raw facts are within bounds.
Valid(c) == Qty[c] >= 0 /\ Qty[c] <= MaxQuantity

\* A call arrives; a call without a key skips the lookup.
Begin(c) ==
    /\ place[c] = "idle"
    /\ Cardinality({d \in Calls : place[d] \notin Idle}) < MaxInFlight
    /\ Goto(c, IF ~Valid(c) THEN "rejected"
               ELSE IF Key[c] = NoKey THEN "plan" ELSE "lookup")
    /\ UNCHANGED <<now, planned, tables, since, prior, rec, answer, ids, job, portFaults>>

\* FindByIdempotencyKey: a known key returns the original record.
Return(c) ==
    /\ \E r \in usage : r.key = Key[c] /\ answer' = [answer EXCEPT ![c] = r.id]
    /\ Goto(c, "done")

\* Step 2
Lookup(c) ==
    /\ place[c] = "lookup"
    /\ \/ Return(c)
       \/ /\ \A r \in usage : r.key # Key[c]
          /\ Goto(c, "plan") /\ UNCHANGED answer
    /\ UNCHANGED <<now, planned, tables, since, prior, rec, ids, job, portFaults>>

\* Step 3; then periodStart is read off the clock.
ResolvePlan(c) ==
    /\ place[c] = "plan"
    /\ Goto(c, IF planned THEN "prior" ELSE "rejected")
    /\ since' = [since EXCEPT ![c] = now]
    /\ UNCHANGED <<now, planned, tables, prior, rec, answer, ids, job, portFaults>>

\* CurrentPeriodUsage: the sum of the recorded quantities since periodStart.
CurrentPeriodUsage(p) == Total(Billed, {r \in usage : r.occurred >= p})

\* Step 4, the read.
ReadPrior(c) ==
    /\ place[c] = "prior"
    /\ prior' = [prior EXCEPT ![c] = CurrentPeriodUsage(since[c])]
    /\ Goto(c, "build")
    /\ UNCHANGED <<now, planned, tables, since, rec, answer, ids, job, portFaults>>

\* Mutant: a record that exceeds the allowance is billed in full.
BillableQuantity_AllOrNothing(used, q) == IF used + q <= Included THEN 0 ELSE q

\* The units of [used, used + q) at or above the allowance.
BillableQuantity(used, q) ==
    LET free == IF Included - used < 0 THEN 0 ELSE Included - used IN
    IF Included = 0 THEN q ELSE IF free >= q THEN 0 ELSE q - free

\* Neither in the future nor before the open period; absent means now.  Counted in
\* periods, every branch lands in the one that is open when the record is built.
ClampOccurredAt(p) == IF p = 0 \/ p > now THEN now ELSE Max({p, now})

\* Mutant: the cap is taken to be reached one unit early.
Crosses_OffByOne(used, q) == Limit > 0 /\ used + q >= Limit - 1 /\ used < Limit

\* This write takes the team to the cap or over it.
Crosses(used, q) == Limit > 0 /\ used + q >= Limit /\ used < Limit

\* Steps 4 (pricing) and 5: the record and its events, from the local state alone.
Build(c) ==
    LET q == BillableQuantity(prior[c], Qty[c])
        row == [id |-> ids + 1, key |-> Key[c], qty |-> q, cost |-> q * Price,
                occurred |-> ClampOccurredAt(Occurred[c]), gross |-> Qty[c],
                since |-> since[c]]
    IN
    /\ place[c] = "build"
    /\ IF q * Price > MaxAmount                       \* mulInt64Checked
       THEN Goto(c, "rejected") /\ UNCHANGED <<rec, ids>>
       ELSE /\ Goto(c, "tx") /\ ids' = ids + 1
            /\ rec' = [rec EXCEPT ![c] = [row |-> row, crosses |-> Crosses(prior[c], Qty[c])]]
    /\ UNCHANGED <<now, planned, tables, since, prior, answer, job, portFaults>>

\* The record's events: UsageRecorded, and QuotaExceeded on a crossing.
EventsOf(b) ==
    {[kind |-> k, of |-> b.row.id, period |-> b.row.occurred] :
        k \in {"UsageRecorded"} \cup (IF b.crosses THEN {"QuotaExceeded"} ELSE {})}

\* Mutant: the unique index is missing, the lookup is relied on.
Duplicate_NoIndex(r) == FALSE

\* The partial unique index on (team, idempotency_key).
Duplicate(r) == r.key # NoKey /\ \E s \in usage : s.key = r.key

\* Mutant: only the usage row is in the transaction.
Insert_NoOutbox(c) == usage' = usage \cup {rec[c].row} /\ outboxRows' = outboxRows

\* The two inserts of RecordUsageTx.
Insert(c) ==
    /\ usage' = usage \cup {rec[c].row}
    /\ outboxRows' = outboxRows \cup EventsOf(rec[c])

\* Step 6: row and events commit together, or the index rejects them.
RecordUsageTx(c) ==
    /\ place[c] = "tx"
    /\ IF Duplicate(rec[c].row)
       THEN Goto(c, "reread") /\ UNCHANGED <<usage, outboxRows, answer>>
       ELSE /\ Insert(c) /\ Goto(c, "done")
            /\ answer' = [answer EXCEPT ![c] = rec[c].row.id]
    /\ UNCHANGED <<now, planned, invoices, since, prior, rec, ids, job, portFaults>>

\* The loser of the insert race returns the winner's record.
Reread(c) ==
    /\ place[c] = "reread" /\ Return(c)
    /\ UNCHANGED <<now, planned, tables, since, prior, rec, ids, job, portFaults>>

\* A port call fails, or the process dies; an open transaction rolls back.
CallFails(c) ==
    /\ place[c] \in Ports /\ PortFault /\ Goto(c, "failed")
    /\ UNCHANGED <<now, planned, tables, since, prior, rec, answer, ids, job>>

\* The commit takes effect but the caller sees an error.
CommitUnconfirmed(c) ==
    /\ place[c] = "tx" /\ ~Duplicate(rec[c].row) /\ PortFault
    /\ Insert(c) /\ Goto(c, "failed")
    /\ UNCHANGED <<now, planned, invoices, since, prior, rec, answer, ids, job>>

\* The client retries, or the event is redelivered, with the same key.
Retry(c) ==
    /\ place[c] = "failed" /\ Goto(c, "idle")
    /\ UNCHANGED <<now, planned, tables, since, prior, rec, answer, ids, job, portFaults>>

RecordUsage(c) ==
    \/ Begin(c) \/ Lookup(c) \/ ResolvePlan(c) \/ ReadPrior(c) \/ Build(c)
    \/ RecordUsageTx(c) \/ Reread(c) \/ CallFails(c) \/ CommitUnconfirmed(c) \/ Retry(c)

-----------------------------------------------------------------------------
\* Half up on the magnitude, in whole cents.
RoundToCents(m) ==
    LET half == MicrosPerCent \div 2 IN
    IF m >= 0 THEN ((m + half) \div MicrosPerCent) * MicrosPerCent
              ELSE -(((half - m) \div MicrosPerCent) * MicrosPerCent)

\* GenerateInvoice for a finished period: aggregate, price, round; a period
\* without usage has no invoice.
Aggregate(p) ==
    /\ closer = NoClose /\ closes < MaxCloses /\ p < now /\ In(p) # {}
    /\ closer' = [pc |-> "save", period |-> p, total |-> RoundToCents(Total(Cost, In(p)))]
    /\ closes' = closes + 1
    /\ UNCHANGED <<now, planned, tables, call, ids, portFaults>>

\* SaveInvoiceTx: the invoice number is minted with the invoice, so the unique
\* index on it never objects.
SaveInvoice ==
    /\ closer # NoClose
    /\ ids' = ids + 1
    /\ invoices' = invoices \cup {[id |-> ids + 1, period |-> closer.period, total |-> closer.total]}
    /\ outboxRows' = outboxRows \cup {[kind |-> "InvoiceGenerated", of |-> ids + 1, period |-> closer.period]}
    /\ closer' = NoClose
    /\ UNCHANGED <<now, planned, usage, call, closes, portFaults>>

\* The save fails; the job is run again another time.
SaveInvoiceFails ==
    /\ closer # NoClose /\ PortFault
    /\ closer' = NoClose
    /\ UNCHANGED <<now, planned, tables, call, ids, closes>>

MeterNext ==
    \/ AssignPlan \/ NextPeriod
    \/ \E c \in Calls : RecordUsage(c)
    \/ \E p \in 1..Periods : Aggregate(p)
    \/ SaveInvoice \/ SaveInvoiceFails

MeterSpec == MeterInit /\ [][MeterNext]_meterVars

-----------------------------------------------------------------------------
\* However RecordUsage calls with one idempotency key race, fail and are retried,
\* the ledger holds at most one record for the key.
OneRecordPerKey == \A r, s \in usage : r.key = s.key /\ r.key # NoKey => r = s

\* Every call with a key that returns a record returns the same one, and it is the
\* record in the ledger.
SameAnswer ==
    \A c \in Calls : place[c] = "done" /\ Key[c] # NoKey =>
        \E r \in usage : r.key = Key[c] /\ answer[c] = r.id

\* A retried or racing RecordUsage is charged once, and every caller learns the
\* record it was charged with.
Idempotent == OneRecordPerKey /\ SameAnswer

\* The ledger and the outbox agree: every usage row and every invoice has exactly its
\* own event, and every event describes a row that committed.
LedgerMatchesOutbox ==
    /\ {r.id : r \in usage} = {e.of : e \in {f \in outboxRows : f.kind = "UsageRecorded"}}
    /\ {i.id : i \in invoices} = {e.of : e \in {f \in outboxRows : f.kind = "InvoiceGenerated"}}
    /\ \A e \in outboxRows : e.kind = "QuotaExceeded" => \E r \in usage : r.id = e.of

\* The team is never billed for its free units: whatever the interleaving, the units
\* billed in a period leave the allowance out.  (A period in which a call straddles
\* the month's end is left out: its allowance is looked up in the old period.)
AllowanceHonoured ==
    \A p \in 1..Periods :
        (\A r \in In(p) : r.since = p) =>
            Total(Billed, In(p)) <= Max({0, Total(Gross, In(p)) - Included})

QuotaEvents(p) == {e \in outboxRows : e.kind = "QuotaExceeded" /\ e.period = p}

\* No false alarm: a QuotaExceeded event tells the truth however stale the total it
\* was decided on, so the gateway never cuts off a team below its cap.  (A call that
\* straddles the month's end is left out: its total may span both periods.)
NoFalseAlarm ==
    \A r \in usage :
        r.since = r.occurred /\ (\E e \in QuotaEvents(r.occurred) : e.of = r.id)
            => Limit > 0 /\ Total(Gross, In(r.occurred)) >= Limit

=============================================================================
