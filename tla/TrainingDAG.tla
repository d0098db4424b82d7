----------------------------- MODULE TrainingDAG -----------------------------
(***************************************************************************)
(* The parallel DAG scheduler of the pipeline-orchestrator: a pipeline is   *)
(* created from any step graph a client sends, and TriggerExecution calls   *)
(* that share an idempotency key (a client's retries, a redelivered drift   *)
(* report) race to run it.  One of them wins and runs the steps level by    *)
(* level, one goroutine per step, while its context may end, writes may     *)
(* fail and the process may die.                                            *)
(*                                                                          *)
(* Source: services/pipeline-orchestrator/internal/domain/                  *)
(* pipeline_service_impl.go and its execution repository.  `step' is the    *)
(* in-memory Execution, `dbStatus' and `dbStep' the rows.                   *)
(***************************************************************************)
EXTENDS Naturals, FiniteSets, FiniteSetsExt

CONSTANTS
    Steps,          \* ids of the pipeline's steps
    Unknown,        \* an id no step of the pipeline has
    MaxRetries,     \* StepDefinition.MaxRetries of each step
    Unwired,        \* steps whose type the executor registry may lack
    Calls,          \* TriggerExecution calls with one idempotency key
    MaxFaults       \* bound: repository calls that fail

ASSUME StepsAssumption == IsFiniteSet(Steps) /\ Steps # {} /\ Unknown \notin Steps
ASSUME BoundsAssumption == MaxRetries \in [Steps -> Nat] /\ MaxFaults \in Nat

VARIABLES
    deps,       \* StepDefinition.DependsOn
    pipeline,   \* "none", "rejected", "active" or "archived"
    pc,         \* where each TriggerExecution call is
    answer,     \* what it returned
    runs,       \* how many calls went on to run the pipeline
    phase,      \* where the call that runs the pipeline is
    ctx,        \* its context: live, cancelled, or past its deadline
    level,      \* topoLevels: the level of each step
    at,         \* the level runStepsDAG is at
    failed,     \* runStepsDAG's set of failed and skipped steps
    firstErr,   \* its first error
    go,         \* where each step's goroutine is
    att,        \* its attempt counter
    res,        \* results[step]
    step,       \* exec.Steps[i].Status
    errs,       \* stepErrs.count > 0
    status,     \* exec.Status
    dbStatus,   \* executions.status, "none" before the row exists
    dbStep,     \* step_executions.status
    faults      \* repository calls that failed so far

defn   == <<deps, pipeline>>
calls  == <<pc, answer, runs>>
sched  == <<level, at, failed, firstErr>>
rout   == <<go, att, res>>
rows   == <<dbStatus, dbStep>>
vars == <<defn, calls, phase, ctx, sched, rout, step, errs, status, rows, faults>>

Terminal == {"COMPLETED", "FAILED", "CANCELLED"}
Errors   == {"none", "cancelled", "failed"}

All(v) == [s \in Steps |-> v]

Init ==
    /\ deps \in [Steps -> SUBSET (Steps \cup {Unknown})] /\ pipeline = "none"
    /\ pc = [c \in Calls |-> "idle"] /\ answer = [c \in Calls |-> "none"] /\ runs = 0
    /\ phase = "none" /\ ctx = "live"
    /\ level = All(0) /\ at = 1 /\ failed = {} /\ firstErr = "none"
    /\ go = All("off") /\ att = All(1) /\ res = All("none")
    /\ step = All("PENDING") /\ errs = FALSE /\ status = "PENDING"
    /\ dbStatus = "none" /\ dbStep = All("PENDING")
    /\ faults = 0

-----------------------------------------------------------------------------
(* topoLevels and validateGraph *)

\* Mutant: a child joins the next level as soon as one parent is done.
NextLevel_AnyParent(d, done, current) ==
    {c \in Steps \ (done \cup current) : d[c] \cap current # {}}

\* One round of Kahn's algorithm: the children of the current level whose indegree
\* drops to zero.
NextLevel(d, done, current) ==
    {c \in Steps : d[c] \cap current # {} /\ d[c] \subseteq done \cup current}

\* The rounds, one for each step at most.
Rounds(d) ==
    LET round[n \in 1..Cardinality(Steps)] ==
            IF n = 1 THEN [done |-> {}, current |-> {s \in Steps : d[s] = {}}]
            ELSE [done    |-> round[n - 1].done \cup round[n - 1].current,
                  current |-> NextLevel(d, round[n - 1].done, round[n - 1].current)]
    IN  round

\* The level of each step, counted from 1; 0 for a step the rounds never reach.
TopoLevels(d) ==
    LET r == Rounds(d)
    IN  [s \in Steps |-> Max({0} \cup {n \in 1..Cardinality(Steps) : s \in r[n].current})]

CycleDetected(d) == \E s \in Steps : TopoLevels(d)[s] = 0

\* DependsOn is a set here: topoLevels counts a repeated id twice on both sides.
ValidateGraph(d) ==
    /\ \A s \in Steps : d[s] \subseteq Steps \ {s}
    /\ ~CycleDetected(d)

CreatePipeline ==
    /\ pipeline = "none"
    /\ pipeline' = IF ValidateGraph(deps) THEN "active" ELSE "rejected"
    /\ UNCHANGED <<deps, calls, phase, ctx, sched, rout, step, errs, status, rows, faults>>

\* DeletePipeline archives; a run that loaded the definition goes on.  (Bound: it is
\* not called once a run has started, when only a call still to come could tell.)
DeletePipeline ==
    /\ pipeline = "active" /\ runs = 0 /\ pipeline' = "archived"
    /\ UNCHANGED <<deps, calls, phase, ctx, sched, rout, step, errs, status, rows, faults>>

-----------------------------------------------------------------------------
(* TriggerExecution up to the run *)

Answer(c, a) == pc' = [pc EXCEPT ![c] = "done"] /\ answer' = [answer EXCEPT ![c] = a]
Goto(c, l)   == pc' = [pc EXCEPT ![c] = l] /\ UNCHANGED answer
CanFail      == faults < MaxFaults

\* GetByID, then Create's fast path: the key is looked up before it is inserted.
LoadPipeline(c) ==
    /\ pc[c] = "idle" /\ pipeline \in {"active", "archived"}
    /\ \/ /\ pipeline = "active" /\ UNCHANGED faults
          /\ IF dbStatus # "none" THEN Answer(c, "replay") ELSE Goto(c, "insert")
       \/ pipeline = "archived" /\ Answer(c, "archived") /\ UNCHANGED faults
       \/ CanFail /\ Answer(c, "error") /\ faults' = faults + 1
    /\ UNCHANGED <<defn, runs, phase, ctx, sched, rout, step, errs, status, rows>>

\* The row is there and this call's: it goes on to run.
Wins(c) ==
    /\ Goto(c, "run")
    /\ dbStatus' = "PENDING" /\ runs' = runs + 1 /\ phase' = "start" /\ UNCHANGED faults

\* Mutant: no unique index on (team, idempotency_key).
InsertExecution_NoIndex(c) ==
    /\ pc[c] = "insert" /\ Wins(c)
    /\ UNCHANGED <<defn, ctx, sched, rout, step, errs, status, dbStep>>

\* Create: the insert, serialised by the key's unique index; the loser rereads.  An
\* error may hide a commit, and then no call owns the PENDING row.
InsertExecution(c) ==
    /\ pc[c] = "insert"
    /\ \/ dbStatus = "none" /\ Wins(c)
       \/ dbStatus # "none" /\ Answer(c, "replay") /\ UNCHANGED <<runs, phase, dbStatus, faults>>
       \/ /\ CanFail /\ Answer(c, "error") /\ faults' = faults + 1 /\ UNCHANGED <<runs, phase>>
          /\ dbStatus' \in {dbStatus, IF dbStatus = "none" THEN "PENDING" ELSE dbStatus}
    /\ UNCHANGED <<defn, ctx, sched, rout, step, errs, status, dbStep>>

TriggerExecution(c) == LoadPipeline(c) \/ InsertExecution(c)

-----------------------------------------------------------------------------
(* Writes of the run.  One on the run context is refused once that is dead. *)

Detached == TRUE
OnRunCtx == FALSE

Outcome(detached) ==
    {o \in {"ok", "refused", "lost"} :
        /\ o = "ok" => detached \/ ctx = "live"
        /\ o = "refused" => ~detached /\ ctx # "live"
        /\ o = "lost" => CanFail}

Spend(o) == faults' = IF o = "lost" THEN faults + 1 ELSE faults

\* markStep, markStepAttempt and recordSuccess: memory moves, the row may not.
MarkStep(s, st, detached) ==
    \E o \in Outcome(detached) :
        /\ step'   = [step EXCEPT ![s] = st]
        /\ dbStep' = IF o = "ok" THEN [dbStep EXCEPT ![s] = st] ELSE dbStep
        /\ errs'   = (errs \/ o # "ok")
        /\ Spend(o)

Runner == CHOOSE c \in Calls : pc[c] = "run"

\* run: Save RUNNING; if that fails the call returns and the row stays PENDING.
StartRun ==
    /\ phase = "start"
    /\ \E o \in Outcome(OnRunCtx) :
        /\ Spend(o)
        /\ IF o = "ok" THEN /\ status' = "RUNNING" /\ dbStatus' = "RUNNING" /\ phase' = "level"
                            /\ level' = TopoLevels(deps) /\ UNCHANGED <<pc, answer>>
                       ELSE /\ Answer(Runner, "error") /\ phase' = "done"
                            /\ UNCHANGED <<status, dbStatus, level>>
    /\ UNCHANGED <<defn, runs, ctx, at, failed, firstErr, rout, step, errs, dbStep>>

-----------------------------------------------------------------------------
(* runStepsDAG *)

\* Mutant: only a failed parent counts, not a skipped one.
AnyParentFailed_Direct(s) == \E d \in deps[s] : step[d] = "FAILED"

AnyParentFailed(s) == deps[s] \cap failed # {}

\* A level: skip what hangs below a failure (on a detached context), start a
\* goroutine for each of the others.
StartLevel ==
    LET here     == {s \in Steps : level[s] = at}
        skip     == {s \in here : AnyParentFailed(s)}
        runnable == here \ skip
    IN  /\ phase = "level" /\ here # {}
        /\ \E lost \in SUBSET skip :
            /\ faults + Cardinality(lost) <= MaxFaults /\ faults' = faults + Cardinality(lost)
            /\ step'   = [s \in Steps |-> IF s \in skip THEN "SKIPPED" ELSE step[s]]
            /\ dbStep' = [s \in Steps |-> IF s \in skip \ lost THEN "SKIPPED" ELSE dbStep[s]]
            /\ errs'   = (errs \/ lost # {})
        /\ failed' = failed \cup skip
        /\ go' = [s \in Steps |-> IF s \in runnable THEN "attempt" ELSE go[s]]
        /\ IF runnable = {} THEN at' = at + 1 /\ phase' = phase ELSE at' = at /\ phase' = "join"
        /\ UNCHANGED <<defn, calls, ctx, level, firstErr, att, res, status, dbStatus>>

\* wg.Wait
Joined == \A s \in Steps : go[s] \in {"off", "joined"}

\* Mutant: each level starts with a fresh firstErr.
FirstErr_PerLevel(broken) ==
    IF broken # {} THEN {res[s] : s \in broken}
    ELSE IF ctx # "live" THEN {"cancelled"} ELSE {"none"}

\* The results are collected in map order, so any error of the level may be first; a
\* context that ended counts as a cancellation when no step failed.
FirstErr(broken) ==
    IF firstErr # "none" THEN {firstErr}
    ELSE IF broken # {} THEN {res[s] : s \in broken}
    ELSE IF ctx # "live" THEN {"cancelled"} ELSE {"none"}

JoinLevel ==
    LET broken == {s \in Steps : go[s] = "joined" /\ res[s] # "none"}
    IN  /\ phase = "join" /\ Joined
        /\ failed' = failed \cup broken
        /\ firstErr' \in FirstErr(broken)
        /\ go' = [s \in Steps |-> IF go[s] = "joined" THEN "off" ELSE go[s]]
        /\ att' = [s \in Steps |-> IF go[s] = "joined" THEN 1 ELSE att[s]]
        /\ res' = [s \in Steps |-> IF go[s] = "joined" THEN "none" ELSE res[s]]
        /\ at' = at + 1 /\ phase' = "level"
        /\ UNCHANGED <<defn, calls, ctx, level, step, errs, status, rows, faults>>

LevelsDone ==
    /\ phase = "level" /\ \A s \in Steps : level[s] # at
    /\ phase' = "settle"
    /\ UNCHANGED <<defn, calls, ctx, sched, rout, step, errs, status, rows, faults>>

-----------------------------------------------------------------------------
(* runOneStep, in the step's goroutine *)

Shared == <<defn, calls, phase, ctx, sched, status, dbStatus>>

Finish(s, e) == go' = [go EXCEPT ![s] = "joined"] /\ res' = [res EXCEPT ![s] = e]

NoExecutor(s) ==
    /\ go[s] = "attempt" /\ att[s] = 1 /\ s \in Unwired
    /\ MarkStep(s, "FAILED", OnRunCtx) /\ Finish(s, "failed")
    /\ UNCHANGED <<Shared, att>>

\* The step returns ctx.Err(); only context.Canceled is a cancellation to settle.
AbortAttempt(s) ==
    /\ go[s] = "attempt" /\ ctx # "live"
    /\ MarkStep(s, "FAILED", Detached)
    /\ Finish(s, IF ctx = "cancelled" THEN "cancelled" ELSE "failed")
    /\ UNCHANGED <<Shared, att>>

BeginAttempt(s) ==
    /\ go[s] = "attempt" /\ ctx = "live"
    /\ MarkStep(s, "RUNNING", OnRunCtx)
    /\ go' = [go EXCEPT ![s] = "exec"]
    /\ UNCHANGED <<Shared, att, res>>

ExecuteSucceeds(s) ==
    /\ go[s] = "exec" /\ go' = [go EXCEPT ![s] = "ok"]
    /\ UNCHANGED <<Shared, att, res, step, errs, dbStep, faults>>

\* Mutant: the attempt counter is not advanced.
ExecuteFails_Forever(s) ==
    /\ go[s] = "exec" /\ ctx # "cancelled"
    /\ go' = [go EXCEPT ![s] = "attempt"]
    /\ UNCHANGED <<Shared, att, res, step, errs, dbStep, faults>>

ExecuteFails(s) ==
    /\ go[s] = "exec" /\ ctx # "cancelled"
    /\ IF att[s] <= MaxRetries[s]
       THEN att' = [att EXCEPT ![s] = @ + 1] /\ go' = [go EXCEPT ![s] = "attempt"]
       ELSE att' = att /\ go' = [go EXCEPT ![s] = "exhausted"]
    /\ UNCHANGED <<Shared, res, step, errs, dbStep, faults>>

\* An executor error under a cancelled context is the cancellation, retries or not.
ExecuteCancelled(s) ==
    /\ go[s] = "exec" /\ ctx = "cancelled"
    /\ MarkStep(s, "FAILED", Detached) /\ Finish(s, "cancelled")
    /\ UNCHANGED <<Shared, att>>

RecordSuccess(s) ==
    /\ go[s] = "ok"
    /\ MarkStep(s, "COMPLETED", OnRunCtx) /\ Finish(s, "none")
    /\ UNCHANGED <<Shared, att>>

RecordExhausted(s) ==
    /\ go[s] = "exhausted"
    /\ MarkStep(s, "FAILED", OnRunCtx) /\ Finish(s, "failed")
    /\ UNCHANGED <<Shared, att>>

RunOneStep(s) == NoExecutor(s) \/ AbortAttempt(s) \/ BeginAttempt(s) \/ ExecuteSucceeds(s)
                   \/ ExecuteFails(s) \/ ExecuteCancelled(s) \/ RecordSuccess(s) \/ RecordExhausted(s)

-----------------------------------------------------------------------------
(* settle *)

Settle ==
    /\ phase = "settle" /\ phase' = "saving"
    /\ status' = CASE firstErr = "none" -> "COMPLETED"
                   [] firstErr = "cancelled" -> "CANCELLED"
                   [] OTHER -> "FAILED"
    /\ UNCHANGED <<defn, calls, ctx, sched, rout, step, errs, rows, faults>>

\* saveTerminal on a detached context.  "lost" is an outage that outlasts the three
\* attempts.  (The events it and the steps emit are PipelineSaga's subject.)
SaveTerminal ==
    /\ phase = "saving" /\ phase' = "done"
    /\ \E o \in Outcome(Detached) :
        /\ Spend(o)
        /\ dbStatus' = IF o = "ok" THEN status ELSE dbStatus
        /\ Answer(Runner, IF o = "ok" /\ ~errs THEN status ELSE "error")
    /\ UNCHANGED <<defn, runs, ctx, sched, rout, step, errs, status, dbStep>>

Engine == StartRun \/ StartLevel \/ JoinLevel \/ LevelsDone \/ Settle \/ SaveTerminal

-----------------------------------------------------------------------------
(* The environment *)

ContextEnds ==
    /\ phase \notin {"none", "done", "crashed"} /\ ctx = "live"
    /\ ctx' \in {"cancelled", "expired"}
    /\ UNCHANGED <<defn, calls, phase, sched, rout, step, errs, status, rows, faults>>

\* The process dies, and with it the run and its memory; no scan resumes it.
Crash ==
    /\ phase \notin {"none", "done", "crashed"}
    /\ phase' = "crashed" /\ ctx' = "live"
    /\ level' = All(0) /\ at' = 1 /\ failed' = {} /\ firstErr' = "none"
    /\ go' = All("off") /\ att' = All(1) /\ res' = All("none")
    /\ step' = All("PENDING") /\ errs' = FALSE /\ status' = "PENDING"
    /\ Answer(Runner, "error")
    /\ UNCHANGED <<defn, runs, rows, faults>>

Next ==
    \/ CreatePipeline \/ DeletePipeline
    \/ \E c \in Calls : TriggerExecution(c)
    \/ Engine
    \/ \E s \in Steps : RunOneStep(s)
    \/ ContextEnds \/ Crash

Spec == Init /\ [][Next]_vars

Progress ==
    \/ Engine
    \/ \E s \in Steps : RunOneStep(s)
    \/ \E c \in Calls : pc[c] # "idle" /\ TriggerExecution(c)

\* Some goroutine of the process that can run does, and every executor and repository
\* call returns: each runs under a context.  Nobody has to make a call.
Fairness == WF_vars(Progress)

FairSpec == Spec /\ Fairness

-----------------------------------------------------------------------------
(* Properties *)

\* lev is the longest-path level of every step; only an acyclic graph has one.
IsRanking(lev) == \A s \in Steps : lev[s] = 1 + Max({0} \cup {lev[d] : d \in deps[s]})

\* CreatePipeline stores exactly the closed acyclic graphs, and a run's levels are
\* the longest-path levels: every parent in an earlier level, none later than needed
\* (validateGraph, topoLevels).
LevelsAreLongestPaths ==
    /\ pipeline # "none" =>
        (pipeline # "rejected" <=>
            /\ \A s \in Steps : deps[s] \subseteq Steps
            /\ \E lev \in [Steps -> 1..Cardinality(Steps)] : IsRanking(lev))
    /\ phase \in {"level", "join"} => IsRanking(level)

\* A step's executor runs only after every parent has completed, so the outputs it is
\* given are there (the barrier between levels, anyParentFailed).
ParentsFirst ==
    \A s \in Steps : step[s] \in {"RUNNING", "COMPLETED"} =>
        \A d \in deps[s] : step[d] = "COMPLETED"

\* A failure skips exactly what depends on it: independent branches still run, a run is
\* COMPLETED only with all its steps, CANCELLED only if its context ended, and the
\* answer without an error is the durable truth (runStepsDAG, settle).
FailureIsContained ==
    phase = "done" /\ status \in Terminal =>
        /\ \A s \in Steps :
            /\ step[s] \in {"COMPLETED", "FAILED", "SKIPPED"}
            /\ step[s] = "SKIPPED" <=> \E d \in deps[s] : step[d] # "COMPLETED"
        /\ status = "COMPLETED" => \A s \in Steps : step[s] = "COMPLETED"
        /\ status = "CANCELLED" => ctx # "live"
        /\ \A c \in Calls : answer[c] \in Terminal => answer[c] = dbStatus /\ dbStep = step

\* Calls with one idempotency key run the pipeline at most once, however they race,
\* fail and are retried, and nobody is told "replay" of an execution that is not there
\* (Create).
OneRunPerKey ==
    /\ runs <= 1
    /\ \A c \in Calls : answer[c] = "replay" => dbStatus # "none"

\* Every call is answered: no goroutine, barrier or retry loop hangs.
CallsReturn == \A c \in Calls : pc[c] # "idle" ~> pc[c] = "done"
=============================================================================
