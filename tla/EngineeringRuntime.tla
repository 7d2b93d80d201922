------------------------- MODULE EngineeringRuntime -------------------------
(***************************************************************************)
(* runtime/runtime.py around the scheduler: run() and execute_interactive()*)
(* from the EXECUTE stage on, with the timeout, the interruption and the   *)
(* decision on the terminal status.  The graph has been planned and        *)
(* validated; everything the runtime does after execute() has returned is  *)
(* one step, because nothing it awaits suspends.                           *)
(***************************************************************************)
EXTENDS Scheduler

CONSTANTS
    Requirement,    \* the structured requirements of the request
    TracedTo,       \* TracedTo[r]: the planned tasks that implement r
    Judges,         \* the planned tasks with role VERIFIER or REVIEWER
    Begins,         \* the pairs <<b, c>> where the id of b begins the id of c
    HasTimeout,     \* a timeout is given
    Interruptible   \* the caller may be cancelled, Ctrl+C

ASSUME RuntimeAssumption ==
    /\ TracedTo \in [Requirement -> SUBSET BaseTask]
    /\ Judges \subseteq BaseTask
    /\ Begins \subseteq BaseTask \X BaseTask
    /\ \A b \in BaseTask : <<b, b>> \in Begins
    /\ {HasTimeout, Interruptible} \subseteq BOOLEAN

VARIABLES
    phase,      \* "execute", "interrupted" (cleanup is still to run), "ended"
    outcome,    \* the status of the ProjectState; "none" is RUNNING
    exhausted,  \* recovery_exhausted
    structured  \* the request came with structured requirements

runtimeVars == <<phase, outcome, exhausted, structured>>
allVars     == <<vars, runtimeVars>>

\* timed_out: run() reports FAILED, execute_interactive() ends in an
\* AttributeError (TaskStatus has no PENDING), and both leave the workers and
\* the locks as they are.
Outcome == {"none", "success", "failed", "timed_out", "cancelled"}

RuntimeTypeOK ==
    /\ TypeOK
    /\ phase \in {"execute", "interrupted", "ended"}
    /\ outcome \in Outcome
    /\ {exhausted, structured} \subseteq BOOLEAN

\* Without structured requirements, Requirement plays no part.
RuntimeInit ==
    /\ Init
    /\ phase = "execute" /\ outcome = "none" /\ exhausted = FALSE
    /\ structured \in {Requirement # {}, FALSE}

-----------------------------------------------------------------------------
\* recovery_exhausted is sent when the attempts are spent; the handler that
\* notes it is registered while the scheduler executes.
GivesUp(t) ==
    /\ "recover" \in Stimuli
    /\ WorkerFails(t) /\ attempts[Base(t)] >= MaxAttempts
    /\ exhausted' = (exhausted \/ phase = "execute")
    /\ UNCHANGED <<phase, outcome, structured>>

\* Any other step of a worker, also of one that outlives execute().
WorkerMoves(t) ==
    /\ WorkerStep(t)
    /\ WorkerFails(t) => "fail" \in Stimuli
    /\ UNCHANGED runtimeVars

ExecuteMoves == phase = "execute" /\ Execute /\ UNCHANGED runtimeVars

-----------------------------------------------------------------------------
(* The decision                                                            *)

\* rt.startswith(base) for some completed retest rt.
RetestCompleted(b) ==
    \E c \in BaseTask, n \in 1..MaxAttempts :
        <<b, c>> \in Begins /\ status[Retest(c, n)] = "completed"

\* _task_done
TaskDone(b) == status[Planned(b)] = "completed" \/ RetestCompleted(b)

\* A verdict can only come from a completed verifier or reviewer; the planner
\* of a recovery may give that role to the task it adds.
JudgeSpoke ==
    \E t \in TaskId :
        status[t] = "completed" /\ (Base(t) \in Judges \/ t[2] = "recovery")

\* _verify_requirements: passed and rejected are the requirements that the
\* verdicts name.  A requirement without tasks needs a verdict.  (For a read-only
\* interactive request, which has one task, execute_interactive tests instead
\* that a task completed; with AllRecovered that comes to the same.)
Verified(passed, rejected) ==
    IF structured
    THEN /\ rejected = {}
         /\ \A r \in Requirement :
                IF TracedTo[r] = {} THEN r \in passed
                ELSE \A b \in TracedTo[r] : TaskDone(b)
    ELSE \A b \in BaseTask : TaskDone(b)

\* Mutant: the failed tasks are not looked at, only the requirements.
AllRecovered_Skipped == TRUE

\* Mutant: a failure counts although its retest was completed.
AllRecovered_Never == \A b \in BaseTask : status[Planned(b)] # "failed"

\* failed_originals and _all_failures_recovered
AllRecovered ==
    \A b \in BaseTask : status[Planned(b)] = "failed" => RetestCompleted(b)

\* execute() returned: the locks that are left are released, then the status
\* is decided.
Decide ==
    /\ phase = "execute" /\ pc = "done"
    /\ locks' = [t \in TaskId |-> {}]
    /\ \E passed \in SUBSET Requirement : \E rejected \in SUBSET (Requirement \ passed) :
        /\ JudgeSpoke \/ passed \cup rejected = {}
        /\ outcome' = IF ~exhausted /\ AllRecovered /\ Verified(passed, rejected)
                      THEN "success" ELSE "failed"
    /\ phase' = "ended"
    /\ UNCHANGED <<graphVars, worker, cancelReq, attempts, pc, isRunning, batch, exhausted, structured>>

-----------------------------------------------------------------------------
(* Timeout and interruption                                                *)

\* wait_for cancels execute(), or finds it done a moment too late; the workers
\* are tasks of their own and go on.
TimesOut ==
    /\ HasTimeout
    /\ phase = "execute" /\ AtAwait
    /\ phase' = "ended" /\ outcome' = "timed_out"
    /\ UNCHANGED <<vars, exhausted, structured>>

\* The coroutine of run() is cancelled, and execute() with it.
Interrupt ==
    /\ Interruptible
    /\ phase = "execute" /\ AtAwait
    /\ phase' = "interrupted"
    /\ UNCHANGED <<vars, outcome, exhausted, structured>>

\* asyncio.run, when it unwinds, cancels every task that is left.
LoopCloses ==
    /\ phase = "interrupted"
    /\ cancelReq' = cancelReq \cup Live
    /\ UNCHANGED <<graphVars, locks, worker, attempts, pc, isRunning, batch, runtimeVars>>

\* Mutant: the workers are not cancelled.
MarkInterrupted_NoCancel ==
    /\ phase = "interrupted"
    /\ locks' = [t \in TaskId |-> {}]
    /\ isRunning' = FALSE
    /\ phase' = "ended" /\ outcome' = "cancelled"
    /\ UNCHANGED <<graphVars, worker, cancelReq, attempts, pc, batch, exhausted, structured>>

\* Mutant: the locks are left to the workers.
MarkInterrupted_KeepsLocks ==
    /\ phase = "interrupted"
    /\ isRunning' = FALSE
    /\ cancelReq' = cancelReq \cup Live
    /\ phase' = "ended" /\ outcome' = "cancelled"
    /\ UNCHANGED <<graphVars, locks, worker, attempts, pc, batch, exhausted, structured>>

\* _mark_interrupted, in a task of its own or called again by the CLI:
\* cancel_all and the release of every lock.
MarkInterrupted ==
    /\ phase = "interrupted"
    /\ isRunning' = FALSE
    /\ cancelReq' = cancelReq \cup Live
    /\ locks' = [t \in TaskId |-> {}]
    /\ phase' = "ended" /\ outcome' = "cancelled"
    /\ UNCHANGED <<graphVars, worker, attempts, pc, batch, exhausted, structured>>

-----------------------------------------------------------------------------
RuntimeStep == Decide \/ TimesOut \/ MarkInterrupted

RuntimeNext ==
    \/ ExecuteMoves
    \/ \E t \in TaskId : GivesUp(t) \/ WorkerMoves(t)
    \/ RuntimeStep \/ Interrupt \/ LoopCloses

RuntimeSpec == RuntimeInit /\ [][RuntimeNext]_allVars

\* Besides the fairness of the scheduler: a timeout, once due, is delivered at
\* the next suspension, and the cleanup after an interruption is a task of the
\* loop (or called by the CLI).
RuntimeFairSpec ==
    /\ RuntimeSpec
    /\ WF_allVars(ExecuteMoves)
    /\ SF_allVars(\E t \in TaskId : GivesUp(t) \/ WorkerMoves(t))
    /\ SF_allVars(RuntimeStep)

-----------------------------------------------------------------------------
(* Properties                                                              *)

OwnRetestCompleted(b) == \E n \in 1..MaxAttempts : status[Retest(b, n)] = "completed"
Accomplished(b) == status[Planned(b)] = "completed" \/ OwnRetestCompleted(b)

\* The retest that SUCCESS may count for b: its own, or that of a task whose id
\* begins with b's, as task_10's for task_1 (_all_failures_recovered, startswith).
CountedRetestCompleted(b) ==
    \E c \in BaseTask : <<b, c>> \in Begins /\ OwnRetestCompleted(c)

\* What SUCCESS is worth: every task that a requirement is traced to (without
\* requirements every planned task) was completed or a retest that counts for it
\* was, no other planned task failed without one, nobody is inside the agent loop
\* any more, and nothing is locked.  The runtime looks at statuses only, never at
\* the workers.  A task whose id begins no other was thus completed or recovered
\* itself; one whose id does may have failed for good.
SuccessIsAccounted ==
    outcome = "success" =>
        /\ \A b \in IF structured THEN UNION {TracedTo[r] : r \in Requirement}
                                  ELSE BaseTask :
              status[Planned(b)] = "completed" \/ CountedRetestCompleted(b)
        /\ \A b \in BaseTask : status[Planned(b)] = "failed" => CountedRetestCompleted(b)
        /\ \A t \in Live : worker[t] = "planning"
        /\ \A t \in TaskId : locks[t] = {}

\* The converse, for a request that no requirement or verdict can fail: it is
\* FAILED only with a planned task that is neither completed nor recovered, or with a
\* retest that failed.  The flag recovery_exhausted, which nothing resets,
\* never fails a run whose tasks and retests all went well.
FailureHasReason ==
    outcome = "failed" /\ ~structured =>
        \E b \in BaseTask :
            ~Accomplished(b) \/ \E n \in 1..MaxAttempts : status[Retest(b, n)] = "failed"

\* Once the interruption is cleaned up, no lock is held or taken again,
\* although the workers are still about to receive their cancellation.
InterruptedHoldsNothing ==
    outcome = "cancelled" => \A t \in TaskId : locks[t] = {}

\* After an interruption no task is completed, fails or is added: the workers
\* that were inside the agent loop or waiting for the recovery planner can
\* only become cancelled, and cancel what waits for them.
NothingFinishesAfterInterrupt ==
    [][outcome = "cancelled" =>
          \A t \in TaskId : status'[t] = status[t] \/ status'[t] = "cancelled"]_allVars

\* A run with a timeout comes to rest, also when the scheduler does not: it
\* ends, the workers it leaves behind end, and no lock stays behind.
RunDrains == <>[](phase = "ended" /\ Live = {} /\ \A t \in TaskId : locks[t] = {})
=============================================================================
