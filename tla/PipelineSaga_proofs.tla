------------------------- MODULE PipelineSaga_proofs -------------------------
(***************************************************************************)
(* Proofs about PipelineSaga, for any number of steps, retries, cancel      *)
(* calls and repository faults.                                             *)
(***************************************************************************)
EXTENDS PipelineSaga, TLAPS

-----------------------------------------------------------------------------
(* Part 1: types *)

\* Where the cursor may be, by where the engine is.
CursorInv ==
    /\ pc \in Running \ {"loop"} => cur \in Steps
    /\ pc \in {"failed", "skip", "undoing", "undone", "stuck"} => cur \in Steps

\* The initial states are well typed.
LEMMA TypeInit == Init => TypeOK /\ CursorInv
<1> SUFFICES ASSUME Init PROVE TypeOK /\ CursorInv
  OBVIOUS
<1>1. hook \in BOOLEAN /\ errs \in BOOLEAN
  BY Zenon DEF Init
<1> QED
  BY <1>1, StepsAssumption, BoundsAssumption
  DEF Init, TypeOK, CursorInv, EnginePC, Running, Rollback, Closing, CancelPC, Answers, Results, ExecStatus,
      Terminal, StepStatus, Steps

\* Every action keeps the state well typed: the cursor stays within the order
\* and every counter a number.
LEMMA TypeStep == TypeOK /\ CursorInv /\ [Next]_vars => (TypeOK /\ CursorInv)'
<1> SUFFICES ASSUME TypeOK, CursorInv, [Next]_vars PROVE (TypeOK /\ CursorInv)'
  OBVIOUS
<1> USE StepsAssumption, BoundsAssumption
    DEF TypeOK, CursorInv, EnginePC, Running, Rollback, Closing, CancelPC, Answers, Results,
        ExecStatus, Terminal, StepStatus, Steps, row, memory, client, Engine, Quiet,
        Outcome, Lands, Spend, Save, MarkStep, Detached, OnRunCtx
<1>1. CASE Create
  BY <1>1 DEF Create
<1>2. CASE RegisterCancel
  BY <1>2 DEF RegisterCancel
<1>3. CASE Start
  BY <1>3 DEF Start
<1>4. CASE AllStepsDone
  BY <1>4 DEF AllStepsDone
<1>5. CASE StopScheduling
  BY <1>5 DEF StopScheduling
<1>6. CASE ScheduleStep
  BY <1>6 DEF ScheduleStep
<1>7. CASE NoExecutor
  BY <1>7 DEF NoExecutor
<1>8. CASE AbortAttempt
  BY <1>8 DEF AbortAttempt
<1>9. CASE BeginAttempt
  BY <1>9 DEF BeginAttempt
<1>10. CASE MarkRunning
  BY <1>10 DEF MarkRunning
<1>11. CASE ExecuteSucceeds
  BY <1>11 DEF ExecuteSucceeds
<1>12. CASE ExecuteFails
  <2>1. att' \in {att, att + 1}
    BY <1>12 DEF ExecuteFails
  <2>2. pc' \in {"aborted", "attempt", "exhausted"} /\ pc = "exec"
    BY <1>12 DEF ExecuteFails
  <2>3. effect' \in [Steps -> {"none", "partial", "applied", "undone"}]
    BY <1>12 DEF ExecuteFails, LeavesPartial
  <2>4. /\ UNCHANGED <<cur, ctx, hook, cause, memory, tries, row, published, result, client>>
        /\ UNCHANGED <<step, dbStep, errs, faults>>
    BY <1>12 DEF ExecuteFails
  <2> QED
    BY <2>1, <2>2, <2>3, <2>4
<1>13. CASE RecordAborted
  BY <1>13 DEF RecordAborted
<1>14. CASE RecordSuccess
  BY <1>14 DEF RecordSuccess
<1>15. CASE RecordExhausted
  BY <1>15 DEF RecordExhausted
<1>16. CASE StepFailed
  BY <1>16 DEF StepFailed
<1>17. CASE SkipNext
  BY <1>17 DEF SkipNext
<1>18. CASE SkipDone
  BY <1>18 DEF SkipDone
<1>19. CASE Compensate
  BY <1>19 DEF Compensate
<1>20. CASE KeepReadOnly
  BY <1>20 DEF KeepReadOnly
<1>21. CASE StartUndo
  BY <1>21 DEF StartUndo
<1>22. CASE CompensateSucceeds
  BY <1>22 DEF CompensateSucceeds
<1>23. CASE CompensateFails
  BY <1>23 DEF CompensateFails
<1>24. CASE RecordUndo
  <2>1. CASE pc = "undone" /\ MarkStep(cur, "COMPENSATED", Detached)
    BY <1>24, <2>1 DEF RecordUndo
  <2>2. CASE pc = "stuck" /\ MarkStep(cur, "COMPENSATION_FAILED", Detached)
    BY <1>24, <2>2 DEF RecordUndo
  <2> QED
    BY <1>24, <2>1, <2>2 DEF RecordUndo
<1>25. CASE UndoDone
  BY <1>25 DEF UndoDone
<1>26. CASE Settle
  BY <1>26 DEF Settle
<1>27. CASE SaveTerminalOK
  BY <1>27 DEF SaveTerminalOK
<1>28. CASE SaveTerminalFails
  BY <1>28 DEF SaveTerminalFails
<1>29. CASE Emit
  <2>1. published' \subseteq {"completed", "failed"}
    BY <1>29 DEF Emit
  <2>2. result' \in Results
    BY <1>29 DEF Emit
  <2> QED
    BY <1>29, <2>1, <2>2 DEF Emit
<1>30. CASE Return
  <2>1. hook' \in BOOLEAN
    BY <1>30, Zenon DEF Return
  <2> QED
    BY <1>30, <2>1 DEF Return
<1>31. ASSUME NEW c \in Cancellers, CancelRead(c) PROVE (TypeOK /\ CursorInv)'
  <2>1. /\ cpc' = [cpc EXCEPT ![c] = "lookup"] \/ cpc' = [cpc EXCEPT ![c] = "done"]
        /\ \/ answer' = answer \/ answer' = [answer EXCEPT ![c] = "rejected"]
           \/ answer' = [answer EXCEPT ![c] = "error"]
        /\ UNCHANGED <<Engine, ctx, row>> /\ Quiet
    BY <1>31 DEF CancelRead
  <2>2. cpc' \in [Cancellers -> CancelPC] /\ answer' \in [Cancellers -> Answers]
    BY <2>1
  <2> QED
    BY <2>1, <2>2
<1>32. ASSUME NEW c \in Cancellers, CancelLookup(c) PROVE (TypeOK /\ CursorInv)'
  <2>1. /\ ctx' = ctx \/ ctx' = "cancelled"
        /\ cpc' = [cpc EXCEPT ![c] = "await"] \/ cpc' = [cpc EXCEPT ![c] = "mark"]
        /\ UNCHANGED <<Engine, row, answer>> /\ Quiet
    BY <1>32 DEF CancelLookup
  <2>2. ctx' \in {"live", "cancelled", "expired"} /\ cpc' \in [Cancellers -> CancelPC]
    BY <2>1
  <2> QED
    BY <2>1, <2>2
<1>33. ASSUME NEW c \in Cancellers, CancelMark(c) PROVE (TypeOK /\ CursorInv)'
  BY <1>33 DEF CancelMark
<1>34. ASSUME NEW c \in Cancellers, CancelAwait(c) PROVE (TypeOK /\ CursorInv)'
  BY <1>34 DEF CancelAwait
<1>35. CASE ContextEnds
  BY <1>35 DEF ContextEnds
<1>36. CASE Crash
  <2>1. hook' \in BOOLEAN
    BY <1>36, Zenon DEF Crash
  <2> QED
    BY <1>36, <2>1 DEF Crash
<1>37. CASE UNCHANGED vars
  BY <1>37 DEF vars
<1> QED
  BY <1>1, <1>2, <1>3, <1>4, <1>5, <1>6, <1>7, <1>8, <1>9, <1>10, <1>11, <1>12, <1>13, <1>14,
     <1>15, <1>16, <1>17, <1>18, <1>19, <1>20, <1>21, <1>22, <1>23, <1>24, <1>25, <1>26, <1>27,
     <1>28, <1>29, <1>30, <1>31, <1>32, <1>33, <1>34, <1>35, <1>36, <1>37
  DEF Next, EngineStep, RunStepsSaga, RunOneStep, CompensateSteps, CancelExecution

\* Every reachable state is well typed.
THEOREM TypeCorrect == Spec => []TypeOK
<1>1. Spec => [](TypeOK /\ CursorInv)
  BY TypeInit, TypeStep, PTL DEF Spec
<1> QED
  BY <1>1, PTL

-----------------------------------------------------------------------------
(* Part 2: what the durable rows and the published events are worth *)

\* Memory and rows agree unless a lost checkpoint is on record; a step's RUNNING
\* row precedes its execution; the terminal row precedes event and answer.
AuditInv == ~errs => dbStep = step
AheadInv == pc \in {"exec", "success", "undoing"} => dbStep[cur] # "PENDING" \/ errs
SettleInv ==
    /\ pc \in {"saving", "emit"} => status \in Terminal
    /\ pc = "emit" => status \in durable
AnswerInv ==
    result = "ok" =>
        /\ pc \in {"return", "done", "crashed"} /\ ~errs
        /\ status \in durable /\ status \in Terminal

DurabilityInv ==
    /\ TypeOK /\ CursorInv
    /\ AuditInv /\ AheadInv /\ WriteAhead /\ SettleInv /\ AnswerInv /\ TerminalEventDurable

\* The initial states satisfy the invariant.
LEMMA DurabilityInit == Init => DurabilityInv
<1> SUFFICES ASSUME Init PROVE DurabilityInv
  OBVIOUS
<1>1. TypeOK /\ CursorInv
  BY TypeInit
<1> QED
  BY <1>1 DEF Init, DurabilityInv, AuditInv, AheadInv, WriteAhead, SettleInv, AnswerInv, TerminalEventDurable

\* Every action preserves it.
LEMMA DurabilityStep == DurabilityInv /\ [Next]_vars => DurabilityInv'
<1> SUFFICES ASSUME DurabilityInv, [Next]_vars PROVE DurabilityInv'
  OBVIOUS
<1>0. (TypeOK /\ CursorInv)'
  BY TypeStep DEF DurabilityInv
<1> USE <1>0, StepsAssumption
    DEF DurabilityInv, AuditInv, AheadInv, WriteAhead, SettleInv, AnswerInv, TerminalEventDurable,
        TypeOK, CursorInv, Running, Rollback, Terminal, Steps, row, memory, client, Engine, Quiet,
        Outcome, Lands, Spend, Save, MarkStep, Detached, OnRunCtx
<1>1. CASE Create
  BY <1>1 DEF Create
<1>2. CASE RegisterCancel
  BY <1>2 DEF RegisterCancel
<1>3. CASE Start
  BY <1>3 DEF Start
<1>4. CASE AllStepsDone
  BY <1>4 DEF AllStepsDone
<1>5. CASE StopScheduling
  BY <1>5 DEF StopScheduling
<1>6. CASE ScheduleStep
  BY <1>6 DEF ScheduleStep
<1>7. CASE NoExecutor
  BY <1>7 DEF NoExecutor
<1>8. CASE AbortAttempt
  BY <1>8 DEF AbortAttempt
<1>9. CASE BeginAttempt
  BY <1>9 DEF BeginAttempt
<1>10. CASE MarkRunning
  BY <1>10 DEF MarkRunning
<1>11. CASE ExecuteSucceeds
  BY <1>11 DEF ExecuteSucceeds
<1>12. CASE ExecuteFails
  BY <1>12 DEF ExecuteFails, LeavesPartial
<1>13. CASE RecordAborted
  BY <1>13 DEF RecordAborted
<1>14. CASE RecordSuccess
  BY <1>14 DEF RecordSuccess
<1>15. CASE RecordExhausted
  BY <1>15 DEF RecordExhausted
<1>16. CASE StepFailed
  BY <1>16 DEF StepFailed
<1>17. CASE SkipNext
  BY <1>17 DEF SkipNext
<1>18. CASE SkipDone
  BY <1>18 DEF SkipDone
<1>19. CASE Compensate
  BY <1>19 DEF Compensate
<1>20. CASE KeepReadOnly
  BY <1>20 DEF KeepReadOnly
<1>21. CASE StartUndo
  BY <1>21, ZenonT(40) DEF StartUndo
<1>22. CASE CompensateSucceeds
  BY <1>22 DEF CompensateSucceeds
<1>23. CASE CompensateFails
  BY <1>23 DEF CompensateFails
<1>24. CASE RecordUndo
  <2>1. CASE pc = "undone" /\ MarkStep(cur, "COMPENSATED", Detached)
    BY <1>24, <2>1 DEF RecordUndo
  <2>2. CASE pc = "stuck" /\ MarkStep(cur, "COMPENSATION_FAILED", Detached)
    BY <1>24, <2>2 DEF RecordUndo
  <2> QED
    BY <1>24, <2>1, <2>2 DEF RecordUndo
<1>25. CASE UndoDone
  BY <1>25 DEF UndoDone
<1>26. CASE Settle
  BY <1>26 DEF Settle
<1>27. CASE SaveTerminalOK
  BY <1>27 DEF SaveTerminalOK
<1>28. CASE SaveTerminalFails
  BY <1>28 DEF SaveTerminalFails
<1>29. CASE Emit
  BY <1>29 DEF Emit
<1>30. CASE Return
  BY <1>30 DEF Return
<1>31. ASSUME NEW c \in Cancellers, CancelRead(c) PROVE DurabilityInv'
  BY <1>31 DEF CancelRead
<1>32. ASSUME NEW c \in Cancellers, CancelLookup(c) PROVE DurabilityInv'
  BY <1>32 DEF CancelLookup
<1>33. ASSUME NEW c \in Cancellers, CancelMark(c) PROVE DurabilityInv'
  BY <1>33 DEF CancelMark
<1>34. ASSUME NEW c \in Cancellers, CancelAwait(c) PROVE DurabilityInv'
  BY <1>34 DEF CancelAwait
<1>35. CASE ContextEnds
  BY <1>35 DEF ContextEnds
<1>36. CASE Crash
  BY <1>36 DEF Crash
<1>37. CASE UNCHANGED vars
  BY <1>37 DEF vars
<1> QED
  BY <1>1, <1>2, <1>3, <1>4, <1>5, <1>6, <1>7, <1>8, <1>9, <1>10, <1>11, <1>12, <1>13, <1>14,
     <1>15, <1>16, <1>17, <1>18, <1>19, <1>20, <1>21, <1>22, <1>23, <1>24, <1>25, <1>26, <1>27,
     <1>28, <1>29, <1>30, <1>31, <1>32, <1>33, <1>34, <1>35, <1>36, <1>37
  DEF Next, EngineStep, RunStepsSaga, RunOneStep, CompensateSteps, CancelExecution

\* Write-ahead, honest answers and durable-before-published hold in every
\* reachable state, whatever writes fail and wherever a cancel or a crash hits.
THEOREM DurabilityHolds == Spec => []Durability
<1>1. DurabilityInv => Durability
  BY DEF Durability, DurabilityInv, HonestReturn, AnswerInv, AuditInv
<1> QED
  BY DurabilityInit, DurabilityStep, <1>1, PTL DEF Spec

-----------------------------------------------------------------------------
(* Part 3: the rollback *)

Undone   == {"COMPENSATED", "COMPENSATION_FAILED"}
UndoPC   == {"undoing", "undone", "stuck"}

\* Which status goes with which place, and that only a failed or cancelled run
\* carries a cause.
PhaseInv ==
    /\ pc \in {"create", "register", "start"} => status = "PENDING" /\ cause = "none"
    /\ pc \in Running => status = "RUNNING" /\ cause = "none"
    /\ pc \in {"failed", "skip", "compensate"} => status = "RUNNING" /\ cause # "none"
    /\ pc \in {"undo"} \cup UndoPC => status = "COMPENSATING" /\ cause # "none"
    /\ status \in Terminal => pc \in {"saving", "emit", "return", "done", "crashed"}

\* The forward run: exactly the steps before the cursor are completed.
ForwardInv ==
    pc \in {"create", "register", "start"} \cup Running =>
        \A s \in Steps :
            /\ s < cur => step[s] = "COMPLETED" /\ effect[s] = "applied"
            /\ s >= cur => /\ step[s] \in {"PENDING", "RUNNING"} /\ stamp[s] = 0
                           /\ effect[s] # "undone"
                           /\ effect[s] = "applied" <=> s = cur /\ pc = "success"

\* Between the failure and the rollback: the effects are the completed steps.
FailedInv ==
    pc \in {"failed", "skip", "compensate"} =>
        \A s \in Steps :
            /\ step[s] \in {"PENDING", "RUNNING", "COMPLETED", "FAILED", "SKIPPED"}
            /\ effect[s] = "applied" <=> step[s] = "COMPLETED"
            /\ effect[s] # "undone"
            /\ stamp[s] > 0 => step[s] = "COMPLETED"
            /\ pc \in {"failed", "skip"} /\ s >= cur => step[s] # "COMPLETED"

\* The rollback: what compensate still has to visit, and what it has visited.
UndoInv ==
    /\ pc \in {"undo"} \cup UndoPC =>
        \A s \in Steps :
            /\ step[s] = "COMPLETED" /\ s \in Compensable => s \in todo
            /\ stamp[s] > 0 /\ s \in Compensable /\ s \notin todo => step[s] \in Undone
            /\ s \in todo => step[s] = "COMPLETED" \/ (s = cur /\ pc \in UndoPC)
            /\ step[s] = "COMPENSATING" => s = cur /\ pc \in UndoPC
            /\ step[s] \in Undone \cup {"COMPENSATING"} => s \in Compensable
            /\ effect[s] = "applied" =>
                 \/ step[s] \in {"COMPLETED", "COMPENSATION_FAILED"}
                 \/ s = cur /\ pc \in {"undoing", "stuck"}
    /\ pc \in UndoPC => cur \in todo /\ cur \in Compensable /\ step[cur] = "COMPENSATING"

\* Completion stamps follow the order of the steps.
StampInv ==
    \A s, t \in Steps : stamp[t] <= now /\ (s < t /\ stamp[t] > 0 => stamp[s] < stamp[t])

\* What settle sees.
AccountInv(failed) ==
    \A s \in Steps :
        IF ~failed THEN effect[s] = "applied" /\ step[s] = "COMPLETED"
        ELSE effect[s] = "applied" =>
                IF s \in Compensable THEN step[s] = "COMPENSATION_FAILED"
                                     ELSE step[s] = "COMPLETED"
SettleView == pc = "settle" =>
    /\ status = IF cause = "none" THEN "RUNNING" ELSE "COMPENSATING"
    /\ AccountInv(cause # "none")

RollbackInv ==
    /\ TypeOK /\ CursorInv
    /\ PhaseInv /\ ForwardInv /\ FailedInv /\ UndoInv /\ StampInv /\ SettleView
    /\ CompensationLIFO /\ NoOrphan

\* The initial states satisfy the invariant.
LEMMA RollbackInit == Init => RollbackInv
<1> SUFFICES ASSUME Init PROVE RollbackInv
  OBVIOUS
<1>1. TypeOK /\ CursorInv
  BY TypeInit
<1> QED
  BY <1>1 DEF Init, RollbackInv, PhaseInv, ForwardInv, FailedInv, UndoInv, StampInv, SettleView,
     CompensationLIFO, NoOrphan, Steps, Terminal, Running, Undone, UndoPC, TypeOK

\* Every action preserves it.
LEMMA RollbackStep == RollbackInv /\ [Next]_vars => RollbackInv'
<1> SUFFICES ASSUME RollbackInv, [Next]_vars PROVE RollbackInv'
  OBVIOUS
<1>0. (TypeOK /\ CursorInv)'
  BY TypeStep DEF RollbackInv
<1> USE <1>0, StepsAssumption
    DEF RollbackInv, PhaseInv, ForwardInv, FailedInv, UndoInv, StampInv, SettleView, AccountInv,
        CompensationLIFO, NoOrphan, Undone, UndoPC,
        TypeOK, CursorInv, Running, Rollback, Terminal, Steps, row, memory, client, Engine, Quiet,
        Spend, Save, MarkStep
<1>1. CASE Create
  BY <1>1 DEF Create
<1>2. CASE RegisterCancel
  BY <1>2 DEF RegisterCancel
<1>3. CASE Start
  BY <1>3 DEF Start
<1>4. CASE AllStepsDone
  BY <1>4 DEF AllStepsDone
<1>5. CASE StopScheduling
  <2>1. /\ pc = "loop" /\ pc' = "compensate" /\ cause' = "cancelled"
        /\ UNCHANGED <<status, step, stamp, now, todo, effect, cur>>
    BY <1>5 DEF StopScheduling
  <2>2. FailedInv'
    <3>1. \A s \in Steps : (s < cur \/ s >= cur) /\ effect[s] # "undone"
      BY <2>1
    <3> QED
      BY <2>1, <3>1
  <2>3. PhaseInv' /\ ForwardInv' /\ UndoInv' /\ StampInv' /\ SettleView'
    BY <2>1
  <2>4. CompensationLIFO' /\ NoOrphan'
    BY <2>1
  <2> QED
    BY <2>2, <2>3, <2>4, <1>0
<1>6. CASE ScheduleStep
  BY <1>6 DEF ScheduleStep
<1>7. CASE NoExecutor
  BY <1>7 DEF NoExecutor
<1>8. CASE AbortAttempt
  BY <1>8 DEF AbortAttempt
<1>9. CASE BeginAttempt
  BY <1>9 DEF BeginAttempt
<1>10. CASE MarkRunning
  BY <1>10 DEF MarkRunning
<1>11. CASE ExecuteSucceeds
  BY <1>11 DEF ExecuteSucceeds
<1>12. CASE ExecuteFails
  BY <1>12 DEF ExecuteFails, LeavesPartial
<1>13. CASE RecordAborted
  BY <1>13 DEF RecordAborted
<1>14. CASE RecordSuccess
  BY <1>14, SMTT(20) DEF RecordSuccess
<1>15. CASE RecordExhausted
  BY <1>15 DEF RecordExhausted
<1>16. CASE StepFailed
  BY <1>16 DEF StepFailed
<1>17. CASE SkipNext
  BY <1>17 DEF SkipNext
<1>18. CASE SkipDone
  BY <1>18 DEF SkipDone
<1>19. CASE Compensate
  BY <1>19 DEF Compensate
<1>20. CASE KeepReadOnly
  BY <1>20 DEF KeepReadOnly
<1>21. CASE StartUndo
  BY <1>21 DEF StartUndo, IsNextUndo
<1>22. CASE CompensateSucceeds
  BY <1>22 DEF CompensateSucceeds
<1>23. CASE CompensateFails
  BY <1>23 DEF CompensateFails
<1>24. CASE RecordUndo
  <2>1. CASE pc = "undone" /\ MarkStep(cur, "COMPENSATED", Detached)
    BY <1>24, <2>1 DEF RecordUndo
  <2>2. CASE pc = "stuck" /\ MarkStep(cur, "COMPENSATION_FAILED", Detached)
    BY <1>24, <2>2 DEF RecordUndo
  <2> QED
    BY <1>24, <2>1, <2>2 DEF RecordUndo
<1>25. CASE UndoDone
  BY <1>25 DEF UndoDone
<1>26. CASE Settle
  BY <1>26 DEF Settle
<1>27. CASE SaveTerminalOK
  BY <1>27 DEF SaveTerminalOK
<1>28. CASE SaveTerminalFails
  BY <1>28 DEF SaveTerminalFails
<1>29. CASE Emit
  BY <1>29 DEF Emit
<1>30. CASE Return
  BY <1>30 DEF Return
<1>31. ASSUME NEW c \in Cancellers, CancelRead(c) PROVE RollbackInv'
  BY <1>31 DEF CancelRead
<1>32. ASSUME NEW c \in Cancellers, CancelLookup(c) PROVE RollbackInv'
  BY <1>32 DEF CancelLookup
<1>33. ASSUME NEW c \in Cancellers, CancelMark(c) PROVE RollbackInv'
  BY <1>33 DEF CancelMark
<1>34. ASSUME NEW c \in Cancellers, CancelAwait(c) PROVE RollbackInv'
  BY <1>34 DEF CancelAwait
<1>35. CASE ContextEnds
  BY <1>35 DEF ContextEnds
<1>36. CASE Crash
  BY <1>36 DEF Crash
<1>37. CASE UNCHANGED vars
  BY <1>37 DEF vars
<1> QED
  BY <1>1, <1>2, <1>3, <1>4, <1>5, <1>6, <1>7, <1>8, <1>9, <1>10, <1>11, <1>12, <1>13, <1>14,
     <1>15, <1>16, <1>17, <1>18, <1>19, <1>20, <1>21, <1>22, <1>23, <1>24, <1>25, <1>26, <1>27,
     <1>28, <1>29, <1>30, <1>31, <1>32, <1>33, <1>34, <1>35, <1>36, <1>37
  DEF Next, EngineStep, RunStepsSaga, RunOneStep, CompensateSteps, CancelExecution

\* Compensation is LIFO and a settled run is all or nothing, whatever fails.
THEOREM RollbackHolds == Spec => []RollsBack
<1>1. RollbackInv => RollsBack
  BY DEF RollsBack, RollbackInv
<1> QED
  BY RollbackInit, RollbackStep, <1>1, PTL DEF Spec

\* The engine's status follows the state machine of pipeline_service_impl.go.
THEOREM StatusFollowsDiagram == Spec => StatusMachine
<1> DEFINE Move == <<status, status'>> \in Transitions
<1>1. ASSUME RollbackInv, [Next]_vars PROVE status' = status \/ Move
  <2> USE <1>1 DEF RollbackInv, PhaseInv, SettleView, Transitions, Running, UndoPC, memory, Engine
  <2>1. CASE Start
    BY <2>1 DEF Start
  <2>2. CASE Compensate
    BY <2>2 DEF Compensate
  <2>3. CASE Settle
    BY <2>3 DEF Settle
  <2>4. CASE Create \/ RegisterCancel \/ RunStepsSaga
    BY <2>4 DEF Create, RegisterCancel, RunStepsSaga, RunOneStep, AllStepsDone, StopScheduling,
       ScheduleStep, NoExecutor, AbortAttempt, BeginAttempt, MarkRunning, ExecuteSucceeds,
       ExecuteFails, LeavesPartial, RecordAborted, RecordSuccess, RecordExhausted, StepFailed, SkipNext, SkipDone
  <2>5. CASE KeepReadOnly \/ StartUndo \/ CompensateSucceeds \/ CompensateFails \/ RecordUndo \/ UndoDone
    BY <2>5 DEF KeepReadOnly, StartUndo, CompensateSucceeds, CompensateFails, RecordUndo, UndoDone
  <2>6. CASE SaveTerminalOK \/ SaveTerminalFails \/ Emit \/ Return \/ ContextEnds \/ Crash
    BY <2>6 DEF SaveTerminalOK, SaveTerminalFails, Emit, Return, ContextEnds, Crash
  <2>7. ASSUME NEW c \in Cancellers, CancelExecution(c) PROVE status' = status
    BY <2>7 DEF CancelExecution, CancelRead, CancelLookup, CancelMark, CancelAwait
  <2>8. CASE UNCHANGED vars
    BY <2>8 DEF vars
  <2> QED
    BY <2>1, <2>2, <2>3, <2>4, <2>5, <2>6, <2>7, <2>8 DEF Next, EngineStep, CompensateSteps
<1>2. RollbackInv /\ [Next]_vars => [Move]_status
  BY <1>1
<1>3. Spec => [][Move]_status
  BY RollbackInit, RollbackStep, <1>2, PTL DEF Spec
<1> QED
  BY <1>3 DEF StatusMachine
=============================================================================
