---------------------------- MODULE PipelineSaga ----------------------------
(***************************************************************************)
(* One run of a DeploymentSaga in the pipeline-orchestrator: the engine     *)
(* goroutine behind TriggerExecution, the executors it drives, the          *)
(* Postgres rows it checkpoints to, and the CancelExecution calls that race *)
(* with it.                                                                 *)
(*                                                                          *)
(* Source: services/pipeline-orchestrator/internal/domain/                  *)
(* pipeline_service_impl.go.  A step is its position in topoOrder, so       *)
(* runStepsSaga visits 1, 2, ..., N.  `status' and `step' are the in-memory *)
(* Execution, `dbStatus' and `dbStep' the rows a crash leaves behind.       *)
(***************************************************************************)
EXTENDS Integers

CONSTANTS
    N,              \* number of steps of the saga
    Compensable,    \* steps with a CompensationStepID
    Unwired,        \* steps whose type the executor registry may lack
    MaxRetries,     \* StepDefinition.MaxRetries of each step
    Cancellers,     \* concurrent CancelExecution calls
    MaxFaults,      \* bound: repository writes that fail
    MayCrash        \* whether the process may die

Steps == 1..N

ASSUME StepsAssumption ==
    /\ N \in Nat \ {0}
    /\ Compensable \subseteq Steps
    /\ Unwired \subseteq Steps
ASSUME BoundsAssumption == MaxRetries \in [Steps -> Nat] /\ MaxFaults \in Nat /\ MayCrash \in BOOLEAN

VARIABLES
    pc,         \* where the engine goroutine is
    cur,        \* the step runStepsSaga, skipRemaining or compensate is at
    att,        \* runOneStep's attempt counter
    ctx,        \* the run context: live, cancelled, or past its deadline
    hook,       \* s.cancels holds this run's cancel func
    cause,      \* runErr
    errs,       \* stepErrs.count > 0
    status,     \* exec.Status
    step,       \* exec.Steps[i].Status
    stamp,      \* exec.Steps[i].CompletedAt as recordSuccess sets it, 0 for nil
    now,        \* the Clock, counted in completions
    todo,       \* completed steps compensate has not visited yet
    tries,      \* saveTerminal's attempt counter
    dbStatus,   \* executions.status, "none" before Create commits
    dbStep,     \* step_executions.status
    effect,     \* what the executors did to the outside world
    published,  \* terminal lifecycle events the broker accepted
    result,     \* what TriggerExecution returned
    durable,    \* every status executions.status has ever held
    cpc,        \* where each CancelExecution call is
    answer,     \* what each CancelExecution call returned
    faults      \* repository writes that failed so far

row    == <<dbStatus, durable>>
memory == <<status, stamp, now, todo>>
client == <<cpc, answer>>
vars == <<pc, cur, att, ctx, hook, cause, errs, status, step, stamp, now, todo, tries,
          dbStatus, dbStep, effect, published, result, durable, cpc, answer, faults>>

Terminal   == {"COMPLETED", "FAILED", "CANCELLED"}
ExecStatus == {"PENDING", "RUNNING", "COMPENSATING"} \cup Terminal
StepStatus == {"PENDING", "RUNNING", "COMPLETED", "FAILED", "SKIPPED",
               "COMPENSATING", "COMPENSATED", "COMPENSATION_FAILED"}
Running    == {"loop", "attempt", "mark", "exec", "success", "aborted", "exhausted"}
Rollback   == {"failed", "skip", "compensate", "undo", "undoing", "undone", "stuck"}
Closing    == {"settle", "saving", "emit"}
EnginePC   == {"create", "register", "start", "return", "done", "crashed"}
                \cup Running \cup Rollback \cup Closing
CancelPC   == {"idle", "lookup", "await", "mark", "done"}
Answers    == {"none", "rejected", "error", "PENDING", "RUNNING", "COMPENSATING"} \cup Terminal
Results    == {"none", "ok", "createErr", "saveErr", "terminalErr", "stepErr"}

TypeOK ==
    /\ pc \in EnginePC /\ cur \in 1..(N + 1) /\ att \in Nat
    /\ ctx \in {"live", "cancelled", "expired"} /\ hook \in BOOLEAN
    /\ cause \in {"none", "cancelled", "failed", "compFailed"} /\ errs \in BOOLEAN
    /\ status \in ExecStatus /\ step \in [Steps -> StepStatus]
    /\ stamp \in [Steps -> Nat] /\ now \in Nat /\ todo \subseteq Steps /\ tries \in 1..3
    /\ dbStatus \in ExecStatus \cup {"none"} /\ dbStep \in [Steps -> StepStatus]
    /\ effect \in [Steps -> {"none", "partial", "applied", "undone"}]
    /\ published \subseteq {"completed", "failed"} /\ result \in Results
    /\ durable \subseteq ExecStatus
    /\ cpc \in [Cancellers -> CancelPC] /\ answer \in [Cancellers -> Answers]
    /\ faults \in 0..MaxFaults

Init ==
    /\ pc = "create" /\ cur = 1 /\ att = 1 /\ ctx = "live" /\ hook = FALSE
    /\ cause = "none" /\ errs = FALSE
    /\ status = "PENDING" /\ step = [s \in Steps |-> "PENDING"]
    /\ stamp = [s \in Steps |-> 0] /\ now = 0 /\ todo = {} /\ tries = 1
    /\ dbStatus = "none" /\ dbStep = [s \in Steps |-> "PENDING"]
    /\ effect = [s \in Steps |-> "none"] /\ published = {} /\ result = "none"
    /\ durable = {}
    /\ cpc = [c \in Cancellers |-> "idle"] /\ answer = [c \in Cancellers |-> "none"]
    /\ faults = 0

-----------------------------------------------------------------------------
(* Repository writes.  A write on the run context is refused once that       *)
(* context is dead; a write on a detached context is not.  Either may fail   *)
(* for its own reasons, before ("lost") or after ("unacked") it committed.   *)

Detached == TRUE
OnRunCtx == FALSE

Outcome(detached) ==
    {o \in {"ok", "refused", "lost", "unacked"} :
        /\ o = "ok" => detached \/ ctx = "live"
        /\ o = "refused" => ~detached /\ ctx # "live"
        /\ o \in {"lost", "unacked"} => faults < MaxFaults}

Lands(o) == o \in {"ok", "unacked"}
Spend(o) == faults' = IF o \in {"lost", "unacked"} THEN faults + 1 ELSE faults

\* executions.Save: overwrites the row's status, whatever it holds.
Save(st, o) ==
    /\ dbStatus' = IF Lands(o) THEN st ELSE dbStatus
    /\ durable'  = IF Lands(o) THEN durable \cup {st} ELSE durable
    /\ Spend(o)

\* markStep / markStepAttempt with errs.record: memory always moves, the row
\* may not, and a failed write is remembered.
MarkStep(s, st, detached) ==
    \E o \in Outcome(detached) :
        /\ step'   = [step EXCEPT ![s] = st]
        /\ dbStep' = IF Lands(o) THEN [dbStep EXCEPT ![s] = st] ELSE dbStep
        /\ errs'   = (errs \/ o # "ok")
        /\ Spend(o)

Quiet == UNCHANGED <<step, dbStep, errs, faults>>
-----------------------------------------------------------------------------
(* TriggerExecution and run *)

Create ==
    /\ pc = "create"
    /\ \E o \in Outcome(OnRunCtx) :
        /\ Save("PENDING", o)
        /\ pc' = IF o = "ok" THEN "register" ELSE "done"
        /\ result' = IF o = "ok" THEN result ELSE "createErr"
    /\ UNCHANGED <<cur, att, ctx, hook, cause, errs, step, dbStep, memory, tries, effect, published, client>>

RegisterCancel ==
    /\ pc = "register"
    /\ hook' = TRUE /\ pc' = "start"
    /\ Quiet
    /\ UNCHANGED <<cur, att, ctx, cause, memory, tries, row, effect, published, result, client>>

Start ==
    /\ pc = "start"
    /\ status' = "RUNNING"
    /\ \E o \in Outcome(OnRunCtx) :
        /\ Save("RUNNING", o)
        /\ pc' = IF o = "ok" THEN "loop" ELSE "return"
        /\ result' = IF o = "ok" THEN result ELSE "saveErr"
    /\ UNCHANGED <<cur, att, ctx, hook, cause, errs, step, dbStep, stamp, now, todo, tries, effect, published, client>>

-----------------------------------------------------------------------------
(* runStepsSaga: the loop over the order, and runOneStep inside it *)

\* Mutant: the checks look for the deadline only and miss a cancellation.
CtxErr_DeadlineOnly == ctx = "expired"

\* ctx.Err() != nil
CtxErr == ctx # "live"

AllStepsDone ==
    /\ pc = "loop" /\ cur > N
    /\ pc' = "settle"
    /\ Quiet
    /\ UNCHANGED <<cur, att, ctx, hook, cause, memory, tries, row, effect, published, result, client>>

\* Mutant: a cancelled run goes straight to settle.
StopScheduling_NoRollback ==
    /\ pc = "loop" /\ cur <= N /\ CtxErr
    /\ pc' = "settle" /\ cause' = "cancelled"
    /\ Quiet
    /\ UNCHANGED <<cur, att, ctx, hook, memory, tries, row, effect, published, result, client>>

\* Any dead context is taken for a cancellation here.
StopScheduling ==
    /\ pc = "loop" /\ cur <= N /\ CtxErr
    /\ pc' = "compensate" /\ cause' = "cancelled"
    /\ Quiet
    /\ UNCHANGED <<cur, att, ctx, hook, memory, tries, row, effect, published, result, client>>

ScheduleStep ==
    /\ pc = "loop" /\ cur <= N /\ ~CtxErr
    /\ pc' = "attempt" /\ att' = 1
    /\ Quiet
    /\ UNCHANGED <<cur, ctx, hook, cause, memory, tries, row, effect, published, result, client>>

\* The registry is looked up once, before the first attempt.
NoExecutor ==
    /\ pc = "attempt" /\ att = 1 /\ cur \in Unwired
    /\ MarkStep(cur, "FAILED", OnRunCtx)
    /\ pc' = "failed" /\ cause' = "failed"
    /\ UNCHANGED <<cur, att, ctx, hook, memory, tries, row, effect, published, result, client>>

\* ctx.Err() is returned as it is: only a cancelled context is Canceled.
AbortAttempt ==
    /\ pc = "attempt" /\ CtxErr
    /\ MarkStep(cur, "FAILED", Detached)
    /\ pc' = "failed" /\ cause' = IF ctx = "cancelled" THEN "cancelled" ELSE "failed"
    /\ UNCHANGED <<cur, att, ctx, hook, memory, tries, row, effect, published, result, client>>

BeginAttempt ==
    /\ pc = "attempt" /\ ~CtxErr
    /\ pc' = "mark"
    /\ Quiet
    /\ UNCHANGED <<cur, att, ctx, hook, cause, memory, tries, row, effect, published, result, client>>

\* Mutant: the RUNNING transition stays in memory.
MarkRunning_NoWrite ==
    /\ pc = "mark"
    /\ step' = [step EXCEPT ![cur] = "RUNNING"]
    /\ pc' = "exec"
    /\ UNCHANGED <<dbStep, errs, faults>>
    /\ UNCHANGED <<cur, att, ctx, hook, cause, memory, tries, row, effect, published, result, client>>

MarkRunning ==
    /\ pc = "mark"
    /\ MarkStep(cur, "RUNNING", OnRunCtx)
    /\ pc' = "exec"
    /\ UNCHANGED <<cur, att, ctx, hook, cause, memory, tries, row, effect, published, result, client>>

ExecuteSucceeds ==
    /\ pc = "exec"
    /\ effect' = [effect EXCEPT ![cur] = "applied"]
    /\ pc' = "success"
    /\ Quiet
    /\ UNCHANGED <<cur, att, ctx, hook, cause, memory, tries, row, published, result, client>>

\* An attempt that reports an error, a timeout say, may have done part of its work.
LeavesPartial == effect' \in {effect, [effect EXCEPT ![cur] = "partial"]}

\* A cancelled context, or a Canceled the executor returns of its own accord, ends
\* the retries; any other failure retries while the budget lasts.
ExecuteFails ==
    /\ pc = "exec"
    /\ \/ pc' = "aborted" /\ att' = att
       \/ /\ ctx # "cancelled" /\ att <= MaxRetries[cur]
          /\ pc' = "attempt" /\ att' = att + 1
       \/ /\ ctx # "cancelled" /\ att > MaxRetries[cur]
          /\ pc' = "exhausted" /\ att' = att
    /\ LeavesPartial
    /\ Quiet
    /\ UNCHANGED <<cur, ctx, hook, cause, memory, tries, row, published, result, client>>

RecordAborted ==
    /\ pc = "aborted"
    /\ MarkStep(cur, "FAILED", Detached)
    /\ pc' = "failed" /\ cause' = "cancelled"
    /\ UNCHANGED <<cur, att, ctx, hook, memory, tries, row, effect, published, result, client>>

\* On the run context: a cancel that raced the success loses this checkpoint.
RecordSuccess ==
    /\ pc = "success"
    /\ MarkStep(cur, "COMPLETED", OnRunCtx)
    /\ now' = now + 1 /\ stamp' = [stamp EXCEPT ![cur] = now + 1]
    /\ pc' = "loop" /\ cur' = cur + 1
    /\ UNCHANGED <<att, ctx, hook, cause, status, todo, tries, row, effect, published, result, client>>

RecordExhausted ==
    /\ pc = "exhausted"
    /\ MarkStep(cur, "FAILED", OnRunCtx)
    /\ pc' = "failed" /\ cause' = "failed"
    /\ UNCHANGED <<cur, att, ctx, hook, memory, tries, row, effect, published, result, client>>

-----------------------------------------------------------------------------
(* The failure path: skipRemaining, then compensate *)

\* The cause becomes Canceled if the context was cancelled by now.
StepFailed ==
    /\ pc = "failed"
    /\ pc' = "skip"
    /\ cause' = IF ctx = "cancelled" THEN "cancelled" ELSE cause
    /\ Quiet
    /\ UNCHANGED <<cur, att, ctx, hook, memory, tries, row, effect, published, result, client>>

\* skipRemaining, one later step at a time.
SkipNext ==
    /\ pc = "skip" /\ cur < N
    /\ MarkStep(cur + 1, "SKIPPED", Detached)
    /\ cur' = cur + 1
    /\ UNCHANGED <<pc, att, ctx, hook, cause, memory, tries, row, effect, published, result, client>>

SkipDone ==
    /\ pc = "skip" /\ cur = N
    /\ pc' = "compensate"
    /\ Quiet
    /\ UNCHANGED <<cur, att, ctx, hook, cause, memory, tries, row, effect, published, result, client>>

\* Mutant: the rollback is planned from the durable step rows.
Compensate_FromRows ==
    /\ pc = "compensate"
    /\ status' = "COMPENSATING"
    /\ \E o \in Outcome(Detached) :
        /\ Save("COMPENSATING", o)
        /\ errs' = (errs \/ o # "ok")
    /\ todo' = {s \in Steps : dbStep[s] = "COMPLETED"}
    /\ pc' = "undo"
    /\ UNCHANGED <<cur, att, ctx, hook, cause, step, stamp, now, tries, dbStep, effect, published, result, client>>

Compensate ==
    /\ pc = "compensate"
    /\ status' = "COMPENSATING"
    /\ \E o \in Outcome(Detached) :
        /\ Save("COMPENSATING", o)
        /\ errs' = (errs \/ o # "ok")
    /\ todo' = {s \in Steps : step[s] = "COMPLETED"}
    /\ pc' = "undo"
    /\ UNCHANGED <<cur, att, ctx, hook, cause, step, stamp, now, tries, dbStep, effect, published, result, client>>

\* completedStepsInOrder, walked backwards: the latest CompletedAt comes next.
IsNextUndo(s) == s \in todo /\ \A t \in todo : stamp[t] <= stamp[s]

KeepReadOnly ==
    /\ pc = "undo"
    /\ \E s \in todo \ Compensable : IsNextUndo(s) /\ todo' = todo \ {s}
    /\ Quiet
    /\ UNCHANGED <<pc, cur, att, ctx, hook, cause, status, stamp, now, tries, row, effect, published, result, client>>

\* compensateOne.  Its "no executor" branch is unreachable: only a step that
\* had an executor completes, and the registry never shrinks.
StartUndo ==
    /\ pc = "undo"
    /\ \E s \in todo \cap Compensable :
        /\ IsNextUndo(s)
        /\ MarkStep(s, "COMPENSATING", Detached)
        /\ cur' = s
    /\ pc' = "undoing"
    /\ UNCHANGED <<att, ctx, hook, cause, memory, tries, row, effect, published, result, client>>

CompensateSucceeds ==
    /\ pc = "undoing"
    /\ effect' = [effect EXCEPT ![cur] = "undone"]
    /\ pc' = "undone"
    /\ Quiet
    /\ UNCHANGED <<cur, att, ctx, hook, cause, memory, tries, row, published, result, client>>

CompensateFails ==
    /\ pc = "undoing"
    /\ pc' = "stuck"
    /\ Quiet
    /\ UNCHANGED <<cur, att, ctx, hook, cause, memory, tries, row, effect, published, result, client>>

RecordUndo ==
    /\ \/ pc = "undone" /\ MarkStep(cur, "COMPENSATED", Detached)
       \/ pc = "stuck" /\ MarkStep(cur, "COMPENSATION_FAILED", Detached)
    /\ todo' = todo \ {cur}
    /\ pc' = "undo"
    /\ UNCHANGED <<cur, att, ctx, hook, cause, status, stamp, now, tries, row, effect, published, result, client>>

\* The wrapped error keeps the original cause as text only (%v).
UndoDone ==
    /\ pc = "undo" /\ todo = {}
    /\ cause' = IF \E s \in Steps : step[s] = "COMPENSATION_FAILED" THEN "compFailed" ELSE cause
    /\ pc' = "settle"
    /\ Quiet
    /\ UNCHANGED <<cur, att, ctx, hook, memory, tries, row, effect, published, result, client>>

-----------------------------------------------------------------------------
(* settle and saveTerminal *)

Settle ==
    /\ pc = "settle"
    /\ status' = CASE cause = "none" -> "COMPLETED"
                   [] cause = "cancelled" -> "CANCELLED"
                   [] OTHER -> "FAILED"
    /\ pc' = "saving"
    /\ Quiet
    /\ UNCHANGED <<cur, att, ctx, hook, cause, stamp, now, todo, tries, row, effect, published, result, client>>

SaveTerminalOK ==
    /\ pc = "saving"
    /\ Save(status, "ok")
    /\ pc' = "emit"
    /\ UNCHANGED <<cur, att, ctx, hook, cause, errs, step, memory, tries, dbStep, effect, published, result, client>>

\* A failed terminal write is retried, three attempts in all; the settlement
\* timeout may end the retries earlier.
SaveTerminalFails ==
    /\ pc = "saving"
    /\ \E o \in Outcome(Detached) \ {"ok"} : Save(status, o)
    /\ \/ tries < 3 /\ tries' = tries + 1 /\ UNCHANGED <<pc, result>>
       \/ tries' = tries /\ pc' = "return" /\ result' = "terminalErr"
    /\ UNCHANGED <<cur, att, ctx, hook, cause, errs, step, memory, dbStep, effect, published, client>>

\* Best effort: the broker may not take the event.
Emit ==
    /\ pc = "emit"
    /\ \/ published' = published \cup {IF status = "COMPLETED" THEN "completed" ELSE "failed"}
       \/ published' = published
    /\ result' = IF errs THEN "stepErr" ELSE "ok"
    /\ pc' = "return"
    /\ Quiet
    /\ UNCHANGED <<cur, att, ctx, hook, cause, memory, tries, row, effect, client>>

\* The deferred unregisterCancel.
Return ==
    /\ pc = "return"
    /\ hook' = FALSE /\ pc' = "done"
    /\ Quiet
    /\ UNCHANGED <<cur, att, ctx, cause, memory, tries, row, effect, published, result, client>>

-----------------------------------------------------------------------------
(* CancelExecution, in this process or in another replica *)

Engine == <<pc, cur, att, hook, cause, memory, tries, effect, published, result>>

\* The third case is a failed read, or a caller of another team.
CancelRead(c) ==
    /\ cpc[c] = "idle" /\ dbStatus # "none"
    /\ \/ /\ dbStatus \in Terminal
          /\ cpc' = [cpc EXCEPT ![c] = "done"] /\ answer' = [answer EXCEPT ![c] = "rejected"]
       \/ /\ dbStatus \notin Terminal
          /\ cpc' = [cpc EXCEPT ![c] = "lookup"] /\ UNCHANGED answer
       \/ cpc' = [cpc EXCEPT ![c] = "done"] /\ answer' = [answer EXCEPT ![c] = "error"]
    /\ Quiet
    /\ UNCHANGED <<Engine, ctx, row>>

\* lookupCancel and, when there is a hook, cancel().  s.cancels is a map of one
\* process: a call that another replica serves finds no hook either.
CancelLookup(c) ==
    /\ cpc[c] = "lookup"
    /\ \/ /\ hook
          /\ ctx' = IF ctx = "live" THEN "cancelled" ELSE ctx
          /\ cpc' = [cpc EXCEPT ![c] = "await"]
       \/ /\ ctx' = ctx
          /\ cpc' = [cpc EXCEPT ![c] = "mark"]
    /\ Quiet
    /\ UNCHANGED <<Engine, row, answer>>

\* "Mark it for cancellation": an unconditional Save of the row read before.
CancelMark(c) ==
    /\ cpc[c] = "mark"
    /\ \E o \in Outcome(Detached) :
        /\ Save("COMPENSATING", o)
        /\ answer' = [answer EXCEPT ![c] = IF o = "ok" THEN "COMPENSATING" ELSE "error"]
    /\ cpc' = [cpc EXCEPT ![c] = "done"]
    /\ UNCHANGED <<Engine, ctx, step, dbStep, errs>>

\* Mutant: the wait for a terminal row has no deadline.
CancelAwait_Unbounded(c) ==
    /\ cpc[c] = "await" /\ dbStatus \in Terminal
    /\ answer' = [answer EXCEPT ![c] = dbStatus]
    /\ cpc' = [cpc EXCEPT ![c] = "done"]
    /\ Quiet
    /\ UNCHANGED <<Engine, ctx, row>>

\* awaitTerminal: a terminal row, or after five seconds whatever is there.
CancelAwait(c) ==
    /\ cpc[c] = "await"
    /\ answer' = [answer EXCEPT ![c] = dbStatus]
    /\ cpc' = [cpc EXCEPT ![c] = "done"]
    /\ Quiet
    /\ UNCHANGED <<Engine, ctx, row>>

CancelExecution(c) == CancelRead(c) \/ CancelLookup(c) \/ CancelMark(c) \/ CancelAwait(c)

-----------------------------------------------------------------------------
(* The environment *)

\* The caller's deadline passes, or the caller goes away.
ContextEnds ==
    /\ ctx = "live" /\ pc \notin {"done", "crashed"}
    /\ ctx' \in {"cancelled", "expired"}
    /\ Quiet
    /\ UNCHANGED <<Engine, row, client>>

\* The process dies, and with it the calls it was serving: all that found the
\* hook, any of the others.  Nothing resumes the run: the code has no recovery scan.
Crash ==
    /\ MayCrash /\ pc \notin {"done", "crashed"}
    /\ pc' = "crashed" /\ hook' = FALSE
    /\ \E served \in SUBSET {c \in Cancellers : cpc[c] # "idle"} :
        /\ {c \in Cancellers : cpc[c] = "await"} \subseteq served
        /\ cpc' = [c \in Cancellers |-> IF c \in served THEN "done" ELSE cpc[c]]
    /\ Quiet
    /\ UNCHANGED <<cur, att, ctx, cause, memory, tries, row, effect, published, result, answer>>

RunOneStep == NoExecutor \/ AbortAttempt \/ BeginAttempt \/ MarkRunning \/ ExecuteSucceeds
                \/ ExecuteFails \/ RecordAborted \/ RecordSuccess \/ RecordExhausted
RunStepsSaga == AllStepsDone \/ StopScheduling \/ ScheduleStep \/ RunOneStep
                \/ StepFailed \/ SkipNext \/ SkipDone
CompensateSteps == Compensate \/ KeepReadOnly \/ StartUndo \/ CompensateSucceeds
                \/ CompensateFails \/ RecordUndo \/ UndoDone
EngineStep == Create \/ RegisterCancel \/ Start \/ RunStepsSaga \/ CompensateSteps
                \/ Settle \/ SaveTerminalOK \/ SaveTerminalFails \/ Emit \/ Return

Next ==
    \/ EngineStep
    \/ \E c \in Cancellers : CancelExecution(c)
    \/ ContextEnds
    \/ Crash

Spec == Init /\ [][Next]_vars

\* The goroutine is scheduled and every executor and repository call returns
\* (each runs under a context or a timeout); a CancelExecution call that was
\* made is served, and its wait is bounded by five seconds.
Fairness ==
    /\ WF_vars(EngineStep)
    /\ \A c \in Cancellers : WF_vars(cpc[c] # "idle" /\ CancelExecution(c))

FairSpec == Spec /\ Fairness

-----------------------------------------------------------------------------
(* Properties *)

\* Write-ahead: once an executor has changed the outside world, the durable
\* step row no longer says PENDING, or the run knows a checkpoint was lost
\* (markStepAttempt before Execute, stepErrs).
WriteAhead ==
    \A s \in Steps : effect[s] # "none" => dbStep[s] # "PENDING" \/ errs

\* Compensation is LIFO: a step's undo starts only when every compensable step
\* that completed after it has been undone or declared stuck (compensate).
CompensationLIFO ==
    \A s, t \in Steps :
        /\ s < t /\ t \in Compensable /\ stamp[t] > 0
        /\ step[s] \in {"COMPENSATING", "COMPENSATED", "COMPENSATION_FAILED"}
        => step[t] \in {"COMPENSATED", "COMPENSATION_FAILED"}

\* All or nothing: a run that settles COMPLETED keeps every effect; one that
\* settles FAILED or CANCELLED has undone every compensable effect an executor
\* confirmed, or says COMPENSATION_FAILED on the step whose effect is left
\* (compensate, settle).  What a failed attempt did in part is left behind:
\* compensate visits only the steps that completed.
NoOrphan ==
    status \in Terminal =>
        \A s \in Steps :
            IF status = "COMPLETED" THEN effect[s] = "applied" /\ step[s] = "COMPLETED"
            ELSE effect[s] = "applied" =>
                    IF s \in Compensable THEN step[s] = "COMPENSATION_FAILED"
                                         ELSE step[s] = "COMPLETED"

\* A terminal lifecycle event is out only if a terminal status of its kind has
\* been durable: no consumer sees PipelineCompleted before the row (settle).
TerminalEventDurable ==
    /\ "completed" \in published => "COMPLETED" \in durable
    /\ "failed" \in published => durable \cap {"FAILED", "CANCELLED"} # {}

\* TriggerExecution answers without an error only when the terminal status was
\* made durable and the durable step history is the one that happened (run).
HonestReturn ==
    result = "ok" => status \in durable /\ status \in Terminal /\ dbStep = step

\* What a reader of the rows, the events and the answer may rely on while writes
\* fail, commit unacknowledged or are cut off by a crash.
Durability == WriteAhead /\ TerminalEventDurable /\ HonestReturn

\* What a rollback promises: reverse order, and nothing confirmed left behind
\* without saying so.
RollsBack == CompensationLIFO /\ NoOrphan

Transitions ==
    {<<"PENDING", "RUNNING">>, <<"RUNNING", "COMPLETED">>, <<"RUNNING", "COMPENSATING">>,
     <<"COMPENSATING", "FAILED">>, <<"COMPENSATING", "CANCELLED">>}

\* The state machine drawn at the top of pipeline_service_impl.go, as the
\* engine walks it: nothing fails or is cancelled without COMPENSATING first.
StatusMachine == [][LET move == <<status, status'>> IN move \in Transitions]_status

\* A run triggered by a live process always comes to an end.
EngineSettles == <>(pc \in {"done", "crashed"})

\* A CancelExecution call that was made gets an answer, whatever the engine does.
CancelReturns == \A c \in Cancellers : cpc[c] # "idle" ~> cpc[c] = "done"

\* Nobody waits for ever: neither the run nor a CancelExecution call.
EverythingReturns == EngineSettles /\ CancelReturns

\* A context that ends while a later step is still to be scheduled keeps the
\* run from completing (the ctx.Err() checks of runStepsSaga and runOneStep).
CancelStopsSaga ==
    ctx # "live" /\ pc \in Running /\ cur < N ~> status # "COMPLETED" /\ pc \in {"done", "crashed"}

=============================================================================
