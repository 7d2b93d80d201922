----------------------------- MODULE Scheduler -----------------------------
(***************************************************************************)
(* agents/scheduler.py with recovery/orchestrator.py: the coroutine        *)
(* execute(), the workers it starts, the locks they hold and the recovery  *)
(* tasks that a failure adds to the task graph.                            *)
(*                                                                         *)
(* Grain.  The program is single threaded; a coroutine gives way only at   *)
(* an await that really suspends.  Those are the sleep of execute(),       *)
(* worker.run() and the model call of the recovery planner: event handlers *)
(* and memory writes of this code never suspend, and the lock manager's    *)
(* mutex is never held across a suspension.  A pass of execute() is        *)
(* therefore one atomic block; it is cut into Dispatch steps, one per      *)
(* task, while pc = "dispatch", and nobody else moves meanwhile.           *)
(***************************************************************************)
EXTENDS TaskGraph, Integers

CONSTANTS
    BaseTask,        \* the tasks of the plan
    BaseDeps,        \* BaseDeps[b]: the tasks b depends on
    BasePos,         \* BasePos[b]: the place of b in the dict of the graph
    Resource,        \* the resources of the workspace
    Resources,       \* Resources[b]: what b asks for
    Conflicts,       \* the pairs of resources that conflict
    Agentless,       \* the tasks whose role has no enabled agent
    MaxConcurrency,  \* max_concurrency
    MaxAttempts,     \* max_attempts of the RecoveryOrchestrator
    Stimuli          \* what the environment of an instance may do

\* fail: a failure that recovery skips, or an exception; recover: a failure
\* the planner is asked about; reject: a plan the validator refuses;
\* cancel, cancel_all: the methods of the scheduler are called.
StimulusKind == {"fail", "recover", "reject", "cancel", "cancel_all"}

\* The ids <base>, <base>_recovery_<n> and <base>_retest_<n>.
Planned(b) == <<b, "task", 0>>
Debug(b, n)  == <<b, "recovery", n>>
Retest(b, n) == <<b, "retest", n>>
TaskId ==
    {Planned(b) : b \in BaseTask}
        \cup {Debug(b, n)  : b \in BaseTask, n \in 1..MaxAttempts}
        \cup {Retest(b, n) : b \in BaseTask, n \in 1..MaxAttempts}

\* The base id that handle_failure cuts out of a task id.
Base(t) == t[1]

ASSUME SchedulerAssumption ==
    /\ IsFiniteSet(BaseTask)
    /\ BaseDeps \in [BaseTask -> SUBSET BaseTask]
    /\ BasePos \in [BaseTask -> Nat]
    /\ Resources \in [BaseTask -> SUBSET Resource]
    /\ Conflicts \subseteq Resource \X Resource
    /\ \A r, s \in Resource : <<r, s>> \in Conflicts => <<s, r>> \in Conflicts
    /\ Agentless \subseteq BaseTask
    /\ MaxConcurrency \in Nat \ {0}
    /\ MaxAttempts \in Nat
    /\ Stimuli \subseteq StimulusKind

VARIABLES
    status,      \* the status of every task id, "absent" outside the graph
    deps,        \* the dependencies of every task id
    pos,         \* the place of every task id in the dict
    locks,       \* what every task id holds in the lock manager
    worker,      \* the asyncio task of every task id, see WorkerState
    cancelReq,   \* the workers cancel() was called on, not yet delivered
    attempts,    \* history[b].attempts
    pc,          \* where execute() is
    isRunning,   \* _is_running
    batch        \* the tasks the current pass has yet to dispatch

graphVars == <<status, deps, pos>>
vars == <<status, deps, pos, locks, worker, cancelReq, attempts, pc, isRunning, batch>>

\* none      no entry in active_workers
\* spawned   created, has not run yet
\* running   inside worker.run()
\* planning  its task failed; it waits for the recovery planner's model call
\* dead      cancelled before its first step: the coroutine never ran, so its
\*           finally clause did not either and the entry stays
WorkerState == {"none", "spawned", "running", "planning", "dead"}

Active == {t \in TaskId : worker[t] # "none"}     \* active_workers
Live   == {t \in TaskId : worker[t] \in {"spawned", "running", "planning"}}

TypeOK ==
    /\ status \in [TaskId -> Status]
    /\ deps \in [TaskId -> SUBSET TaskId]
    /\ pos \in [TaskId -> Nat]
    /\ locks \in [TaskId -> SUBSET Resource]
    /\ worker \in [TaskId -> WorkerState]
    /\ cancelReq \subseteq TaskId
    /\ attempts \in [BaseTask -> Nat]
    /\ pc \in {"idle", "dispatch", "sleep", "done"}
    /\ isRunning \in BOOLEAN
    /\ batch \subseteq TaskId

\* The graph comes from a validated plan: every dependency exists, no cycle.
Init ==
    /\ status = [t \in TaskId |-> IF t[2] = "task" THEN "created" ELSE "absent"]
    /\ deps = [t \in TaskId |->
                  IF t[2] = "task" THEN {Planned(b) : b \in BaseDeps[Base(t)]} ELSE {}]
    /\ pos = [t \in TaskId |-> IF t[2] = "task" THEN BasePos[Base(t)] ELSE 0]
    /\ locks = [t \in TaskId |-> {}]
    /\ worker = [t \in TaskId |-> "none"]
    /\ cancelReq = {}
    /\ attempts = [b \in BaseTask |-> 0]
    /\ pc = "idle"
    /\ isRunning = FALSE
    /\ batch = {}

-----------------------------------------------------------------------------
(* execute()                                                               *)

\* Mutant: the tasks that run already are not counted.
Slots_IgnoreActive == MaxConcurrency

\* slots_available
Slots == MaxConcurrency - Cardinality(Active)

\* The head of a pass: get_ready_tasks, the free slots, and the first tasks of
\* the dict that are READY, as many as there are slots.
EnterPass ==
    LET readied == MarkReady(status, deps)
        ready   == {t \in TasksOf(readied) : readied[t] = "ready"}
    IN  /\ status' = readied
        /\ \E chosen \in SUBSET ready :
            /\ Cardinality(chosen) <= Slots
            /\ chosen # ready => Cardinality(chosen) = Slots
            /\ \A t \in chosen : \A u \in ready \ chosen : pos[t] < pos[u]
            /\ batch' = chosen
        /\ pc' = "dispatch"
        /\ UNCHANGED <<deps, pos, locks, worker, cancelReq, attempts>>

Begin == pc = "idle" /\ isRunning' = TRUE /\ EnterPass

\* The tests after the sleep: nothing runs and nothing may run; then the
\* condition of the loop.
Stuck ==
    /\ Active = {}
    /\ \A t \in TasksOf(status) : status[t] \notin {"ready", "created"}

\* Mutant: the test for a graph in which nothing may run is missing.
LoopEnds_NoStuckTest == ~isRunning \/ IsComplete(status)

\* Mutant: cancel_all() is not looked at.
LoopEnds_IgnoresStop == Stuck \/ IsComplete(status)

LoopEnds == Stuck \/ ~isRunning \/ IsComplete(status)

Wake == pc = "sleep" /\ ~LoopEnds /\ EnterPass /\ UNCHANGED isRunning

Finish ==
    /\ pc = "sleep" /\ LoopEnds
    /\ pc' = "done"
    /\ isRunning' = FALSE
    /\ UNCHANGED <<status, deps, pos, locks, worker, cancelReq, attempts, batch>>

Requested(t) == Resources[Base(t)]

\* Mutant: resources are compared for equality, as if a directory did not
\* contain its files.
Free_SameOnly(t) ==
    \A u \in TaskId \ {t} :
        \A r \in Requested(t) : \A s \in locks[u] : r = s => <<r, s>> \notin Conflicts

\* acquire would grant t what it asks for.
Free(t) ==
    \A u \in TaskId \ {t} :
        \A r \in Requested(t) : \A s \in locks[u] : <<r, s>> \notin Conflicts

HasAgent(t) == ~(t[2] = "task" /\ Base(t) \in Agentless)

NextOfBatch(t) == pc = "dispatch" /\ t \in batch /\ \A u \in batch : pos[t] <= pos[u]

\* acquire refused: the task stays READY for a later pass.
DispatchWaits(t) ==
    /\ NextOfBatch(t) /\ ~Free(t)
    /\ batch' = batch \ {t}
    /\ UNCHANGED <<graphVars, locks, worker, cancelReq, attempts, pc, isRunning>>

\* No agent for the role: failed, with the locks just acquired, and the loop
\* goes on to the next task.
DispatchFails(t) ==
    /\ NextOfBatch(t) /\ Free(t) /\ ~HasAgent(t)
    /\ locks' = [locks EXCEPT ![t] = @ \cup Requested(t)]
    /\ status' = UpdateStatus(status, deps, t, "failed")
    /\ batch' = batch \ {t}
    /\ UNCHANGED <<deps, pos, worker, cancelReq, attempts, pc, isRunning>>

DispatchStarts(t) ==
    /\ NextOfBatch(t) /\ Free(t) /\ HasAgent(t)
    /\ locks' = [locks EXCEPT ![t] = @ \cup Requested(t)]
    /\ status' = [status EXCEPT ![t] = "running"]
    /\ worker' = [worker EXCEPT ![t] = "spawned"]
    /\ batch' = batch \ {t}
    /\ UNCHANGED <<deps, pos, cancelReq, attempts, pc, isRunning>>

Sleep ==
    /\ pc = "dispatch" /\ batch = {}
    /\ pc' = "sleep"
    /\ UNCHANGED <<graphVars, locks, worker, cancelReq, attempts, isRunning, batch>>

-----------------------------------------------------------------------------
(* _run_worker() and handle_failure()                                      *)

AtAwait == pc # "dispatch"

\* A step of the worker of t that is not the delivery of a cancellation.
Runs(t, state) == AtAwait /\ worker[t] = state /\ t \notin cancelReq

\* Mutant: the finally clause forgets the locks.
Leave_KeepsLocks(t) ==
    /\ worker' = [worker EXCEPT ![t] = "none"]
    /\ cancelReq' = cancelReq \ {t}
    /\ UNCHANGED locks

\* The finally clause.
Leave(t) ==
    /\ locks' = [locks EXCEPT ![t] = {}]
    /\ worker' = [worker EXCEPT ![t] = "none"]
    /\ cancelReq' = cancelReq \ {t}

WorkerStarts(t) ==
    /\ Runs(t, "spawned")
    /\ worker' = [worker EXCEPT ![t] = "running"]
    /\ UNCHANGED <<graphVars, locks, cancelReq, attempts, pc, isRunning, batch>>

WorkerSucceeds(t) ==
    /\ Runs(t, "running")
    /\ status' = UpdateStatus(status, deps, t, "completed")
    /\ Leave(t)
    /\ UNCHANGED <<deps, pos, attempts, pc, isRunning, batch>>

\* A failure without recovery: an exception, a provider failure that
\* handle_failure skips, or the last attempt is spent.
WorkerFails(t) ==
    /\ Runs(t, "running")
    /\ "fail" \in Stimuli \/ attempts[Base(t)] >= MaxAttempts
    /\ status' = UpdateStatus(status, deps, t, "failed")
    /\ Leave(t)
    /\ UNCHANGED <<deps, pos, attempts, pc, isRunning, batch>>

\* A failure handle_failure asks the planner about: FAILED is set, and the
\* attempts are compared, before the model call; the locks are kept.
WorkerAsksPlanner(t) ==
    /\ Runs(t, "running")
    /\ "recover" \in Stimuli
    /\ attempts[Base(t)] < MaxAttempts
    /\ status' = UpdateStatus(status, deps, t, "failed")
    /\ worker' = [worker EXCEPT ![t] = "planning"]
    /\ UNCHANGED <<deps, pos, locks, cancelReq, attempts, pc, isRunning, batch>>

\* Mutant: the ids are numbered by the attempts already made.
RecoveryNumber_NotCounted(b) == IF attempts[b] = 0 THEN 1 ELSE attempts[b]

\* The number of the recovery being inserted.
RecoveryNumber(b) == attempts[b] + 1

\* The rest of handle_failure after the model call, the plan accepted: the ids
\* are numbered, and the graph is looked at, only now.
RecoveryInserted(t) ==
    LET b == Base(t)
        n == RecoveryNumber(b)
        size == Cardinality(TasksOf(status))
    IN  /\ Runs(t, "planning")
        /\ status' = RecoveredStatus(status, deps, t, Debug(b, n), Retest(b, n))
        /\ deps' = RewiredDeps(status, deps, t, Debug(b, n), Retest(b, n))
        /\ pos' = [pos EXCEPT ![Debug(b, n)] = size + 1, ![Retest(b, n)] = size + 2]
        /\ attempts' = [attempts EXCEPT ![b] = @ + 1]
        /\ Leave(t)
        /\ UNCHANGED <<pc, isRunning, batch>>

RecoveryRejected(t) ==
    /\ Runs(t, "planning")
    /\ "reject" \in Stimuli
    /\ Leave(t)
    /\ UNCHANGED <<graphVars, attempts, pc, isRunning, batch>>

\* CancelledError at the await the worker is at.
WorkerCancelled(t) ==
    /\ AtAwait /\ t \in cancelReq /\ worker[t] \in {"running", "planning"}
    /\ status' = UpdateStatus(status, deps, t, "cancelled")
    /\ Leave(t)
    /\ UNCHANGED <<deps, pos, attempts, pc, isRunning, batch>>

\* CancelledError before the first step: the coroutine is closed unstarted.
WorkerNeverStarts(t) ==
    /\ AtAwait /\ t \in cancelReq /\ worker[t] = "spawned"
    /\ worker' = [worker EXCEPT ![t] = "dead"]
    /\ cancelReq' = cancelReq \ {t}
    /\ UNCHANGED <<graphVars, locks, attempts, pc, isRunning, batch>>

-----------------------------------------------------------------------------
(* cancel() and cancel_all()                                               *)

Cancel(t) ==
    /\ AtAwait /\ "cancel" \in Stimuli
    /\ t \in Live
    /\ cancelReq' = cancelReq \cup {t}
    /\ UNCHANGED <<graphVars, locks, worker, attempts, pc, isRunning, batch>>

CancelAll ==
    /\ AtAwait /\ "cancel_all" \in Stimuli
    /\ isRunning' = FALSE
    /\ cancelReq' = cancelReq \cup Live
    /\ UNCHANGED <<graphVars, locks, worker, attempts, pc, batch>>

-----------------------------------------------------------------------------
Execute == Begin \/ Wake \/ Finish \/ Sleep
           \/ \E t \in TaskId : DispatchWaits(t) \/ DispatchFails(t) \/ DispatchStarts(t)

WorkerStep(t) ==
    \/ WorkerStarts(t) \/ WorkerSucceeds(t) \/ WorkerFails(t) \/ WorkerAsksPlanner(t)
    \/ RecoveryInserted(t) \/ RecoveryRejected(t)
    \/ WorkerCancelled(t) \/ WorkerNeverStarts(t)

Next == Execute \/ CancelAll \/ \E t \in TaskId : WorkerStep(t) \/ Cancel(t)

Spec == Init /\ [][Next]_vars

\* execute() is resumed by its timer; worker.run() ends because the agent loop
\* runs under wait_for with the contract's timeout, and the model call of the
\* planner because the provider's HTTP client has one.  A worker that may move
\* waits only for the end of the current pass, hence the strong fairness; that
\* it is stated of the workers together is enough, each has finitely many steps.
Fairness == WF_vars(Execute) /\ SF_vars(\E t \in TaskId : WorkerStep(t))

FairSpec == Spec /\ Fairness

-----------------------------------------------------------------------------
(* Properties                                                              *)

\* No two tasks hold resources that conflict, in whatever order passes,
\* failures, recoveries and cancellations come: WorkspaceLockManager.acquire
\* against the releases of _run_worker.
LockExclusion ==
    \A t, u \in TaskId : t # u =>
        \A r \in locks[t], s \in locks[u] : <<r, s>> \notin Conflicts

\* A worker holds all its task asked for from its dispatch to its finally
\* clause, the wait for the recovery planner included; with LockExclusion, no
\* two live workers can touch the same file.
LiveWorkersHoldLocks == \A t \in Live : Requested(t) \subseteq locks[t]

\* active_workers never outgrows max_concurrency, although a pass computes the
\* free slots once and then starts several workers.
SlotBound == Cardinality(Active) <= MaxConcurrency

\* A task is ready, runs, completed or failed only after all its dependencies
\* completed, also when a recovery rewired them while it was blocked.
StartedAfterDeps ==
    \A t \in TaskId :
        status[t] \in {"ready", "running", "completed", "failed"} =>
            \A d \in deps[t] : status[d] = "completed"

\* A blocked task has a dependency that failed, was cancelled or is blocked:
\* unblocking after a recovery forgets none of the tasks further down.
BlockedHasCause ==
    \A t \in TaskId : status[t] = "blocked" =>
        \E d \in deps[t] : status[d] \in {"blocked", "failed", "cancelled"}

\* The two records of what runs agree: the status in the graph and the entry
\* in active_workers.
StatusMatchesWorker ==
    \A t \in TaskId :
        /\ status[t] = "running" <=> worker[t] \in {"spawned", "running", "dead"}
        /\ worker[t] = "planning" => status[t] = "failed"

\* The tasks that stem from one planned task, its recoveries and retests, run
\* one at a time, so that handle_failure, which compares history.attempts
\* before the model call and counts after it, is never entered twice at once
\* for one base id.
ChainIsSequential ==
    \A t, u \in Live : Base(t) = Base(u) => t = u

\* The planner is never given more than max_attempts recoveries of one task.
AttemptsBounded == \A b \in BaseTask : attempts[b] <= MaxAttempts

\* A recovery is counted once and adds exactly two tasks, under ids that the
\* graph does not have yet: taking a used one would put a finished task back
\* to CREATED under its own name.
RecoveryIdsFresh ==
    [][\A b \in BaseTask : attempts'[b] # attempts[b] =>
          LET n == attempts'[b]
          IN  /\ n = attempts[b] + 1
              /\ {Debug(b, n), Retest(b, n)} \cap TasksOf(status) = {}
              /\ TasksOf(status') = TasksOf(status) \cup {Debug(b, n), Retest(b, n)}]_vars

\* History is kept: a completed task stays completed, and a failed one stays
\* failed unless it is cancelled while the planner is asked; no unblocking
\* brings either back.
HistoryIsKept ==
    [][\A t \in TaskId :
          /\ status[t] = "completed" => status'[t] = "completed"
          /\ status[t] = "failed" =>
                \/ status'[t] = "failed"
                \/ status'[t] = "cancelled" /\ worker[t] = "planning"]_vars

\* Once execute() runs, nothing is started after cancel_all().
NoStartAfterCancelAll ==
    [][pc # "idle" /\ ~isRunning =>
          \A t \in TaskId : status[t] # "running" => status'[t] # "running"]_vars

\* Locks are held by entries of active_workers only: nothing is locked by a
\* task that has no worker left to release it.
LocksHaveWorkers == \A t \in TaskId : locks[t] # {} => t \in Active

\* execute() does not poll for nothing: over an unfinished graph without workers,
\* in which no task waits for one that failed or was cancelled and no failed task
\* has locks, it finds a task whose dependencies completed and whose locks are
\* free, however often recoveries have rewired the graph.  (The stuck test,
\* scheduler.py:181, looks at statuses only and takes it that a task which is
\* CREATED can become ready.)
NeverStuck ==
    /\ Active = {} /\ ~IsComplete(status)
    /\ \A t \in TaskId : status[t] \notin TerminalStatus =>
          \A d \in deps[t] : status[d] \notin {"failed", "cancelled"}
    /\ \A t \in TaskId : status[t] = "failed" => locks[t] = {}
    => \E t \in TaskId : (status[t] = "ready" \/ Ready(status, deps, t)) /\ Free(t)

\* The lock table, seen alone, is a WorkspaceLocks.
LockManager == INSTANCE WorkspaceLocks WITH Task <- TaskId
LocksAreManaged == LockManager!Spec

\* execute() returns.
Termination == <>(pc = "done")

-----------------------------------------------------------------------------
(* The inductive invariant: what keeps the properties above true.          *)

\* The dependencies of a task of the graph are in the graph.
DepsInGraph ==
    \A t \in TaskId : status[t] # "absent" => \A d \in deps[t] : status[d] # "absent"

\* The ids of recoveries to come are not taken.
FreshBeyondAttempts ==
    \A b \in BaseTask : \A n \in 1..MaxAttempts :
        n > attempts[b] =>
            status[Debug(b, n)] = "absent" /\ status[Retest(b, n)] = "absent"

\* A planner's answer finds a free attempt.
PlannerMayInsert ==
    \A t \in TaskId : worker[t] = "planning" => attempts[Base(t)] < MaxAttempts

\* The tasks of one base id that have not ended stand in a line: of two of
\* them one waits for a third or for the other, and no two wait for the same.
Unsettled(t) == status[t] \notin {"absent", "completed", "failed"} \/ worker[t] = "planning"

ChainOrder ==
    \A t, u \in TaskId :
        t # u /\ Base(t) = Base(u) /\ Unsettled(t) /\ Unsettled(u) =>
            /\ \E d \in deps[t] \cup deps[u] : Base(d) = Base(t) /\ status[d] # "completed"
            /\ \A d \in deps[t] \cap deps[u] : Base(d) = Base(t) => status[d] = "completed"

\* What a pass has yet to dispatch is ready, has a slot each, and the loop has
\* not been told to stop.
BatchIsReady == \A t \in batch : status[t] = "ready"
RoomForBatch == Cardinality(Active) + Cardinality(batch) <= MaxConcurrency
DispatchRuns == pc = "dispatch" => isRunning

GraphInv ==
    /\ StartedAfterDeps /\ BlockedHasCause /\ StatusMatchesWorker
    /\ DepsInGraph /\ FreshBeyondAttempts /\ PlannerMayInsert /\ ChainOrder

\* Why the scheduler is correct, as one formula that every step keeps.
IInv ==
    /\ TypeOK /\ GraphInv /\ BatchIsReady
    /\ LockExclusion /\ LiveWorkersHoldLocks /\ RoomForBatch /\ DispatchRuns
=============================================================================
