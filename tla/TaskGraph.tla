----------------------------- MODULE TaskGraph -----------------------------
(***************************************************************************)
(* The task graph of agents/domain.py as operators on two functions:       *)
(* status[t], the status of task t ("absent" while t is not in the graph), *)
(* and deps[t], the set of tasks t depends on.  The recursive walks of the *)
(* code (_propagate_status, _unblock_dependents) are given here by the set *)
(* of tasks they change, the least set closed under "a dependent that the  *)
(* walk may change"; TaskGraphWalk holds the walks themselves, and         *)
(* TaskGraphWalk_proofs the proof that both agree.                         *)
(***************************************************************************)
EXTENDS Naturals, FiniteSets

\* TaskStatus, without PLANNING, WAITING, REVIEWING and VERIFYING, which no
\* code of the scheduler assigns.  QUEUED lasts for a few lines of one
\* dispatch, between which no other coroutine runs.
LiveStatus     == {"created", "blocked", "ready", "running"}
TerminalStatus == {"completed", "failed", "cancelled"}
TaskStatus     == LiveStatus \cup TerminalStatus
Status         == TaskStatus \cup {"absent"}

\* The tasks of the graph.
TasksOf(status) == {t \in DOMAIN status : status[t] # "absent"}

\* get_dependents
Dependents(status, deps, t) == {d \in TasksOf(status) : t \in deps[d]}

\* The least subset of eligible that contains the eligible tasks of seeds and,
\* with a task, the eligible tasks that depend on it.
Closed(deps, eligible, seeds, S) ==
    /\ seeds \cap eligible \subseteq S
    /\ \A u \in S : \A d \in eligible : u \in deps[d] => d \in S

Reach(deps, eligible, seeds) ==
    {t \in eligible :
        \A S \in SUBSET eligible : Closed(deps, eligible, seeds, S) => t \in S}

\* _propagate_status: the tasks that get status s because of task t.
Cascade(status, deps, t, s) ==
    LET eligible == {d \in TasksOf(status) :
                        status[d] \notin TerminalStatus \cup {s}}
    IN  Reach(deps, eligible, Dependents(status, deps, t))

Propagate(status, deps, t, s) ==
    [d \in DOMAIN status |->
        IF d \in Cascade(status, deps, t, s) THEN s ELSE status[d]]

\* update_task_status: failure blocks the dependents, cancellation cancels them.
UpdateStatus(status, deps, t, s) ==
    LET set == [status EXCEPT ![t] = s]
    IN  CASE s = "failed"    -> Propagate(set, deps, t, "blocked")
          [] s = "cancelled" -> Propagate(set, deps, t, "cancelled")
          [] OTHER           -> set

\* Mutant: a dependency that merely ended counts as met.
Ready_AnyEnd(status, deps, t) ==
    /\ status[t] = "created"
    /\ \A d \in deps[t] : status[d] \in TerminalStatus

\* get_ready_tasks
Ready(status, deps, t) ==
    /\ status[t] = "created"
    /\ \A d \in deps[t] : status[d] = "completed"

MarkReady(status, deps) ==
    [t \in DOMAIN status |->
        IF Ready(status, deps, t) THEN "ready" ELSE status[t]]

\* is_complete: a blocked task is not complete.
IsComplete(status) ==
    \A t \in TasksOf(status) : status[t] \in TerminalStatus

\* The statuses that _unblock_dependents puts back to CREATED.
Resettable == {"blocked", "cancelled", "failed"}

\* Mutant: only the direct dependents are unblocked.
Unblock_OneLevel(status, deps, seeds) ==
    [d \in DOMAIN status |->
        IF d \in seeds /\ status[d] \in Resettable THEN "created" ELSE status[d]]

\* _unblock_dependents, started at every task of seeds.
Unblock(status, deps, seeds) ==
    LET eligible == {d \in TasksOf(status) : status[d] \in Resettable}
    IN  [d \in DOMAIN status |->
            IF d \in Reach(deps, eligible, seeds) THEN "created" ELSE status[d]]

\* Mutant: the retest takes the dependencies of the failed task too, instead of
\* waiting for the debug task.
RewiredDeps_Parallel(status, deps, failed, debug, retest) ==
    LET rewired == Dependents(status, deps, failed) \ {debug, retest}
    IN  [d \in DOMAIN deps |->
            CASE d \in {debug, retest} -> deps[failed]
              [] d \in rewired         -> (deps[d] \ {failed}) \cup {retest}
              [] OTHER                 -> deps[d]]

\* insert_recovery_sequence with the two tasks debug and retest: debug takes
\* the dependencies of the failed task, retest waits for debug, and what
\* waited for the failed task now waits for retest and is unblocked.
RewiredDeps(status, deps, failed, debug, retest) ==
    LET rewired == Dependents(status, deps, failed) \ {debug, retest}
    IN  [d \in DOMAIN deps |->
            CASE d = debug      -> deps[failed]
              [] d = retest     -> {debug}
              [] d \in rewired  -> (deps[d] \ {failed}) \cup {retest}
              [] OTHER          -> deps[d]]

RecoveredStatus(status, deps, failed, debug, retest) ==
    LET rewired  == Dependents(status, deps, failed) \ {debug, retest}
        inserted == [status EXCEPT ![debug] = "created", ![retest] = "created"]
    IN  Unblock(inserted, RewiredDeps(status, deps, failed, debug, retest), rewired)
=============================================================================
