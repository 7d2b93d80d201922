------------------------------ MODULE AgentLoop ------------------------------
(***************************************************************************)
(* One run of the agent loop (agent/loop.py, AgentLoop.run): the model is   *)
(* asked, the tool calls of its answer are executed one after the other,    *)
(* and a governor decides after each round whether the run goes on, until   *)
(* the model answers without a call.  The user may cancel at any time.  For *)
(* some goals a script (agent/workflows.py) makes the calls: it replaces    *)
(* the loop, or gathers what the loop explains.                             *)
(*                                                                         *)
(* Prompts, corrections and steering text are data for the model and are    *)
(* left out: the model may answer anything.                                 *)
(***************************************************************************)
EXTENDS AgentTodos, FiniteSets

CONSTANTS
    Reads, Edits, Tests,   \* operations the model asks for, by kind of tool
    Incomplete,            \* those of them that lack a required argument
    Unknown, Garbled,      \* calls of no registered tool, and unparsable ones
    Goals,                 \* [kind, readOnly, canWork, plan, flow]
    FlowReads,             \* files that the workflow "explain" reads at most
    MaxIterations, MaxBatch, MaxCalls, BudgetCalls, KeepCalls,
    RepeatDiagnosis, RepeatBlock, StagnationStop, MaxDiagnosis, DenialStop,
    MaxNudges, VerifyOnComplete

(* The calls of a workflow hold the working directory in their arguments,   *)
(* so that they are never the same operation as one the model asks for.     *)
Scripted == "scripted"
Asked == Reads \cup Edits \cup Tests \cup Unknown \cup Garbled
Ops == Asked \cup {Scripted}

ToolOf(op) ==
    CASE op \in Reads -> "read"
      [] op \in Edits -> "edit"
      [] op \in Tests -> "test"
      [] OTHER        -> "unknown"

GoalType ==
    [kind : {"code", "fix", "explain"}, readOnly : BOOLEAN, canWork : BOOLEAN,
     plan : Seq(Categories), flow : {"none", "push", "test", "explain"}]

ASSUME AgentAssumption ==
    /\ Reads \cap (Edits \cup Tests \cup Unknown \cup Garbled) = {}
    /\ Edits \cap (Tests \cup Unknown \cup Garbled) = {}
    /\ Tests \cap (Unknown \cup Garbled) = {}
    /\ Unknown \cap Garbled = {}
    /\ Scripted \notin Asked
    /\ Incomplete \subseteq Reads \cup Edits \cup Tests
    /\ Goals \subseteq GoalType
    /\ {FlowReads, MaxIterations, MaxBatch, MaxCalls, BudgetCalls, KeepCalls,
        RepeatDiagnosis, RepeatBlock, StagnationStop, MaxDiagnosis, DenialStop,
        MaxNudges} \subseteq Nat
    /\ {MaxBatch, RepeatDiagnosis, RepeatBlock, StagnationStop, DenialStop}
          \subseteq Nat \ {0}
    /\ DenialStop <= KeepCalls
    /\ VerifyOnComplete \in BOOLEAN

VARIABLES
    pc,            \* where the run is suspended
    goal, status, error, iterations,
    step,          \* the next call of the workflow's script
    calls,         \* task.tool_calls: compaction drops the oldest
    todos,         \* task.task_plan
    tests,         \* what tests_run and tests_passed say
    verified,      \* task.verification_passed
    failing,       \* tools with failures since their last success
    answered,      \* task.result is set
    batch,         \* number of calls of the answer not yet made
    fresh,         \* number of calls made in this iteration
    seen, done, denied,    \* operations tried, succeeded, refused
    failures,      \* failures of each operation since the last change
    denials,       \* consecutive denials
    stagnation, diagnosing, diagnosisIters, nudges,
    modified,      \* the run has changed files
    spent,         \* tool calls counted by the budget
    cancelled,
    unrecovered,   \* history: the last executed call of the run failed
    dirty,         \* history: files changed since the last verification
    lateRequests   \* history: requests sent after the cancellation

taskVars == <<goal, step, calls, todos, tests, verified, failing, answered>>
governorVars == <<seen, done, denied, failures, denials, stagnation, diagnosing,
                  diagnosisIters, nudges, modified>>
vars == <<pc, status, error, iterations, taskVars, batch, fresh, governorVars,
          spent, cancelled, unrecovered, dirty, lateRequests>>

AgentStatus == {"PENDING", "EXECUTING", "COMPLETED", "PARTIAL", "FAILED",
                "CANCELLED", "PAUSED"}
Points == {"idle", "script", "scripted", "aborted", "planning", "boundary", "prepare",
           "calling", "batch", "closing", "ended"}
Errors == {"none", "cancelled", "budget", "provider", "paused", "limit", "tools",
           "verification", "incomplete", "stagnation", "diagnosis", "denied",
           "exhausted", "workflow"}

LastCalls(n) == SubSeq(calls, Len(calls) - n + 1, Len(calls))
FreshOps == {LastCalls(fresh)[i].op : i \in 1..fresh}

Init ==
    /\ pc = "idle" /\ goal \in Goals /\ status = "PENDING" /\ error = "none"
    /\ iterations = 0 /\ step = 0 /\ calls = <<>> /\ todos = <<>> /\ tests = "none"
    /\ verified = "none" /\ failing = {} /\ answered = FALSE
    /\ batch = 0 /\ fresh = 0
    /\ seen = {} /\ done = {} /\ denied = {} /\ failures = [op \in Ops |-> 0]
    /\ denials = 0 /\ stagnation = 0 /\ diagnosing = FALSE
    /\ diagnosisIters = 0 /\ nudges = 0 /\ modified = FALSE
    /\ spent = 0 /\ cancelled = FALSE
    /\ unrecovered = FALSE /\ dirty = FALSE /\ lateRequests = 0

(* The user asks for a stop, which the loop sees at its next boundary. *)
Cancel ==
    /\ ~cancelled
    /\ cancelled' = TRUE
    /\ UNCHANGED <<pc, status, error, iterations, taskVars, batch, fresh,
                   governorVars, spent, unrecovered, dirty, lateRequests>>

(* The words of the goal choose the workflow, which brings its own plan; the *)
(* categories are those todo_category reads in the titles of its items.     *)
FlowPlan(flow) ==
    NewPlan(CASE flow = "push" -> <<"inspect", "other", "verify", "stage", "commit", "push", "push">>
              [] flow = "test" -> <<"test", "test", "test">>
              [] OTHER         -> <<"inspect", "inspect", "inspect">>)

Start ==
    /\ pc = "idle"
    /\ cancelled' = FALSE
    /\ IF goal.flow = "none"
       THEN pc' = "planning" /\ UNCHANGED <<todos, step>>
       ELSE pc' = "script" /\ todos' = FlowPlan(goal.flow) /\ step' = 1
    /\ UNCHANGED <<status, error, iterations, goal, calls, tests, verified,
                   failing, answered, batch, fresh, governorVars, spent,
                   unrecovered, dirty, lateRequests>>

(* Planning is best effort: the plan of the goal, or none. *)
Plan ==
    /\ pc = "planning"
    /\ \E plan \in {NewPlan(goal.plan), <<>>} : todos' = todos \o plan
    /\ pc' = "boundary"
    /\ UNCHANGED <<status, error, iterations, goal, step, calls, tests, verified,
                   failing, answered, batch, fresh, governorVars, spent, cancelled,
                   unrecovered, dirty, lateRequests>>

---------------------------------------------------------------------------
(* The end of the run.                                                      *)

Evidence(ver) ==
    [inspected |-> \E i \in DOMAIN calls :
                      calls[i].tool = "read" /\ Succeeded(calls[i].res),
     wrote |-> modified, tests |-> tests, verified |-> ver]

HasFailedTodo(plan) == \E i \in DOMAIN plan : plan[i].status = "FAILED"

End(s, e) ==
    /\ pc' = "ended" /\ status' = s /\ error' = e
    /\ UNCHANGED <<iterations, goal, step, calls, tests, failing, batch, fresh, spent,
                   cancelled, unrecovered, lateRequests>>

(* _verify_task_completion: what its checks may say; it runs only when      *)
(* files were changed.                                                      *)
Checks == VerifyOnComplete /\ modified
VerdictsNow == IF Checks THEN {"yes", "no"} ELSE {verified}

Verify(ver) ==
    /\ ver \in VerdictsNow
    /\ verified' = ver
    /\ dirty' = (dirty /\ ~Checks)

---------------------------------------------------------------------------
(* A workflow makes its calls itself: nobody is asked, and neither a         *)
(* cancellation nor the budget is looked at.  Two hands work on the plan:    *)
(* what every call tells (ToolResult), and then the script.                  *)

PushScript == <<"git_status", "git_remote", "git_identity", "git_add",
                "git_commit", "git_push", "git_log">>

ScriptTool ==
    CASE goal.flow = "push" -> PushScript[step]
      [] goal.flow = "test" -> IF step = 1 THEN "read" ELSE "test"
      [] OTHER              -> "read"

Told(res) == ToolResult(todos, ScriptTool, res # "ok")

Playing(flow) == pc = "script" /\ goal.flow = flow

FlowRecord(res) ==
    /\ calls' = Append(calls, [op |-> Scripted, tool |-> ScriptTool, res |-> res])
    /\ iterations' = iterations + 1
    /\ spent' = spent + 1
    /\ failing' = IF res = "ok" THEN failing \ {ScriptTool} ELSE failing \cup {ScriptTool}
    /\ unrecovered' = (res # "ok")
    /\ UNCHANGED <<status, error, goal, verified, answered, batch, fresh,
                   governorVars, cancelled, dirty, lateRequests>>

(* The script stops at an ERROR.  A timeout is none, but shows as a failure  *)
(* in the record; git_identity has none, and git_log may fail as it likes.   *)
(* Without a remote there is nowhere to push to, and no error either.        *)
GoesOn(tool)   == {"ok"} \cup (IF tool = "git_identity" THEN {} ELSE {"failed"})
StopsAt(tool) == (IF tool = "git_log" THEN {} ELSE {"failed"})
                     \cup (IF tool = "git_remote" THEN {"ok"} ELSE {})

PushGoesOn ==
    /\ Playing("push")
    /\ \E res \in GoesOn(ScriptTool) :
          FlowRecord(res) /\ todos' = CompleteItem(Told(res), step)
    /\ step' = step + 1
    /\ pc' = IF step = Len(PushScript) THEN "scripted" ELSE "script"
    /\ UNCHANGED tests

(* Nothing to stage and to commit, or, after staging, nothing to commit. *)
PushSkips ==
    /\ Playing("push")
    /\ FlowRecord("ok")
    /\ \/ /\ ScriptTool = "git_identity"
          /\ todos' = SkipItem(SkipItem(CompleteItem(Told("ok"), step), 4), 5)
       \/ ScriptTool = "git_commit" /\ todos' = SkipItem(Told("ok"), step)
    /\ step' = 6
    /\ UNCHANGED <<pc, tests>>

PushStops ==
    /\ Playing("push")
    /\ \E res \in StopsAt(ScriptTool) :
          FlowRecord(res) /\ todos' = FailItem(Told(res), step)
    /\ pc' = "aborted"
    /\ UNCHANGED <<step, tests>>

(* list_files may be missing; the tests decide. *)
TestLists ==
    /\ Playing("test") /\ step = 1
    /\ \E res \in {"ok", "failed"} :
          /\ FlowRecord(res)
          /\ todos' = IF res = "ok" THEN CompleteItem(Told(res), 1)
                      ELSE SkipItem(Told(res), 1)
    /\ step' = 2
    /\ UNCHANGED <<pc, tests>>

TestRuns ==
    /\ Playing("test") /\ step = 2
    /\ \/ /\ FlowRecord("ok")
          /\ todos' = CompleteItem(CompleteItem(Told("ok"), 2), 3)
          /\ tests' \in Verdicts
          /\ pc' = "scripted"
       \/ /\ FlowRecord("failed")
          /\ todos' = FailItem(Told("failed"), 2)
          /\ tests' \in Verdicts
          /\ pc' = "aborted"
    /\ step' = 3

(* A listing, then files as long as there are any, whether they can be read *)
(* or not.                                                                  *)
ExplainReads ==
    /\ Playing("explain")
    /\ \E res \in {"ok", "failed"} :
          LET plan == IF step = 1 THEN StartItem(CompleteItem(Told(res), 1), 2)
                      ELSE Told(res)
          IN /\ FlowRecord(res)
             /\ \/ /\ step <= FlowReads /\ (step = 1 => res = "ok")
                   /\ todos' = plan
                   /\ UNCHANGED pc
                \/ /\ todos' = CompleteItem(CompleteItem(plan, 2), 3)
                   /\ pc' = "scripted"
    /\ step' = step + 1
    /\ UNCHANGED tests

FlowStep ==
    PushGoesOn \/ PushSkips \/ PushStops \/ TestLists \/ TestRuns \/ ExplainReads

FlowAborts ==
    /\ pc = "aborted"
    /\ End("FAILED", "workflow")
    /\ UNCHANGED <<todos, verified, answered, governorVars, dirty>>

(* A script that came through is not yet a task that is COMPLETED; after an *)
(* explanation the loop goes on, without a plan of its own.                  *)
FlowConcludes ==
    LET final == ReconcileRunning(todos, Evidence(verified))
        pushed == answered \/ goal.flow = "push"
    IN /\ pc = "scripted"
       /\ todos' = final
       /\ answered' = pushed
       /\ IF CanComplete(goal.kind, final, calls, pushed, tests, verified, error)
          THEN IF goal.flow = "explain"
               THEN pc' = "boundary" /\ UNCHANGED <<status, error>>
               ELSE pc' = "ended" /\ status' = "COMPLETED" /\ UNCHANGED error
          ELSE IF HasFailedTodo(final) \/ failing # {}
               THEN pc' = "ended" /\ status' = "FAILED" /\ error' = "incomplete"
               ELSE pc' = "planning" /\ status' = "PARTIAL" /\ error' = "incomplete"
       /\ UNCHANGED <<iterations, goal, step, calls, tests, verified, failing, batch,
                      fresh, governorVars, spent, cancelled, unrecovered, dirty,
                      lateRequests>>

---------------------------------------------------------------------------
(* The head of the loop.                                                    *)

(* Mutant: the end waits for an iteration that is never begun. *)
Exhaust_TooLate ==
    /\ pc = "boundary" /\ iterations > MaxIterations
    /\ \/ status = "FAILED" /\ End("FAILED", error)
       \/ /\ status # "FAILED"
          /\ End(IF denials < DenialStop /\ failing = {} /\ ~HasFailedTodo(todos)
                 THEN "PARTIAL" ELSE "FAILED",
                 IF error = "none" THEN "exhausted" ELSE error)
    /\ UNCHANGED <<todos, verified, answered, governorVars, dirty>>

(* Mutant: only the plan tells what failed, not the calls. *)
Exhaust_TodosOnly ==
    /\ pc = "boundary" /\ iterations >= MaxIterations
    /\ End(IF HasFailedTodo(todos) THEN "FAILED" ELSE "PARTIAL", "exhausted")
    /\ UNCHANGED <<todos, verified, answered, governorVars, dirty>>

(* Out of iterations: a status that is already terminal is kept. *)
Exhaust ==
    /\ pc = "boundary" /\ iterations >= MaxIterations
    /\ \/ status = "FAILED" /\ End("FAILED", error)
       \/ /\ status # "FAILED"
          /\ End(IF denials < DenialStop /\ failing = {} /\ ~HasFailedTodo(todos)
                 THEN "PARTIAL" ELSE "FAILED",
                 IF error = "none" THEN "exhausted" ELSE error)
    /\ UNCHANGED <<todos, verified, answered, governorVars, dirty>>

StopCancelled ==
    /\ pc = "boundary" /\ iterations < MaxIterations /\ cancelled
    /\ End("CANCELLED", IF error = "none" THEN "cancelled" ELSE error)
    /\ UNCHANGED <<todos, verified, answered, governorVars, dirty>>

(* Mutant: the cancellation is not looked at here. *)
NextIteration_Deaf ==
    /\ pc = "boundary" /\ iterations < MaxIterations
    /\ iterations' = iterations + 1
    /\ status' = "EXECUTING"
    /\ pc' = "prepare"
    /\ fresh' = 0
    /\ UNCHANGED <<error, taskVars, batch, governorVars, spent, cancelled,
                   unrecovered, dirty, lateRequests>>

NextIteration ==
    /\ pc = "boundary" /\ iterations < MaxIterations /\ ~cancelled
    /\ iterations' = iterations + 1
    /\ status' = "EXECUTING"
    /\ pc' = "prepare"
    /\ fresh' = 0
    /\ UNCHANGED <<error, taskVars, batch, governorVars, spent, cancelled,
                   unrecovered, dirty, lateRequests>>

(* Compaction may drop all but the newest calls.  Then the budget is checked *)
(* and the request sent; tokens, cost and time may run out at any moment.    *)
MayCompact ==
    \/ calls' = calls
    \/ Len(calls) > KeepCalls /\ calls' = LastCalls(KeepCalls)

Prepare ==
    /\ pc = "prepare"
    /\ MayCompact
    /\ \/ pc' = "ended" /\ status' = "FAILED" /\ error' = "budget"
          /\ UNCHANGED lateRequests
       \/ /\ spent <= BudgetCalls
          /\ pc' = "calling"
          /\ lateRequests' = lateRequests + (IF cancelled THEN 1 ELSE 0)
          /\ UNCHANGED <<status, error>>
    /\ UNCHANGED <<iterations, goal, step, todos, tests, verified, failing, answered,
                   batch, fresh, governorVars, spent, cancelled, unrecovered, dirty>>

---------------------------------------------------------------------------
(* The answer of the model: how many calls it has; which they are shows as  *)
(* they are made.  Its text counts in an answer without calls only, as      *)
(* task.result is looked at while there are no calls.                       *)

(* No model answered: progress is kept for a resume, if the cause may pass. *)
ModelFails ==
    /\ pc = "calling"
    /\ \/ (modified \/ calls # <<>>) /\ End("PAUSED", "paused")
       \/ End("FAILED", "provider")
    /\ todos' = ReconcileFailed(todos, Evidence(verified))
    /\ UNCHANGED <<verified, answered, governorVars, dirty>>

ModelCalls ==
    /\ pc = "calling"
    /\ batch' \in 1..MaxBatch
    /\ pc' = "batch"
    /\ UNCHANGED <<status, error, iterations, taskVars, fresh, governorVars,
                   spent, cancelled, unrecovered, dirty, lateRequests>>

(* Text without a call, although nothing was tried yet in a real workspace. *)
NudgeDue == calls = <<>> /\ goal.canWork /\ ~goal.readOnly /\ nudges < MaxNudges

Nudge ==
    /\ pc = "calling" /\ NudgeDue
    /\ nudges' = nudges + 1
    /\ answered' \in {answered, TRUE}
    /\ pc' = "boundary"
    /\ UNCHANGED <<status, error, iterations, goal, step, calls, todos, tests, verified,
                   failing, batch, fresh, seen, done, denied, failures, denials,
                   stagnation, diagnosing, diagnosisIters, modified, spent,
                   cancelled, unrecovered, dirty, lateRequests>>

(* Verification, reconciliation and the completion gate. *)
Conclude(plan, ver, said) ==
    LET final == ReconcileRunning(plan, Evidence(ver))
    IN IF Checks /\ ver = "no"
       THEN /\ todos' = ReconcileFailed(plan, Evidence(ver))
            /\ End("FAILED", "verification")
       ELSE /\ todos' = final
            /\ IF CanComplete(goal.kind, final, calls, said, tests, ver, error)
               THEN End("COMPLETED", error)
               ELSE End(IF HasFailedTodo(final) \/ failing # {} THEN "FAILED"
                        ELSE "PARTIAL", "incomplete")

(* The model is finished: open work is waived only if it was impossible or  *)
(* the answer itself was the work.                                          *)
Answer ==
    /\ pc = "calling" /\ ~NudgeDue
    /\ \E said \in {answered, TRUE} :
          LET plan == SkipOpen(todos, ~goal.canWork \/ goal.readOnly)
          IN /\ answered' = said
             /\ IF ShouldBlockCompletion(calls)
                THEN /\ todos' = plan
                     /\ End("FAILED", "tools")
                     /\ UNCHANGED <<verified, dirty>>
                ELSE \E ver \in Verdicts : Verify(ver) /\ Conclude(plan, ver, said)
    /\ UNCHANGED governorVars

---------------------------------------------------------------------------
(* One tool call of the answer.                                             *)

(* What every call leaves behind: its record, the plan, the accounts, and   *)
(* the limit of calls, which stops the rest of the batch.                   *)
Record(op, res) ==
    LET tool  == ToolOf(op)
        limit == Len(calls) + 1 >= MaxCalls
    IN /\ calls' = Append(calls, [op |-> op, tool |-> tool, res |-> res])
       /\ fresh' = fresh + 1
       /\ spent' = spent + 1
       /\ todos' = ToolResult(ToolStarted(todos, tool), tool, ExecutionFailed(res))
       /\ failing' = CASE Succeeded(res)       -> failing \ {tool}
                       [] ExecutionFailed(res) -> failing \cup {tool}
                       [] OTHER                -> failing
       /\ status' = IF limit THEN "FAILED" ELSE status
       /\ error' = IF limit THEN "limit" ELSE error
       /\ batch' = IF limit THEN 0 ELSE batch - 1
       /\ pc' = IF batch' = 0 THEN "closing" ELSE "batch"
       /\ unrecovered' = (ExecutionFailed(res) \/ (unrecovered /\ ~Succeeded(res)))
       /\ UNCHANGED <<iterations, goal, step, verified, answered, cancelled, lateRequests>>

(* Arguments that do not parse: neither executed nor counted by the stats.  *)
Malformed(op) ==
    /\ pc = "batch" /\ op \in Garbled
    /\ calls' = Append(calls, [op |-> op, tool |-> "unknown", res |-> "malformed"])
    /\ fresh' = fresh + 1
    /\ spent' = spent + 1
    /\ batch' = batch - 1
    /\ pc' = IF batch' = 0 THEN "closing" ELSE "batch"
    /\ unrecovered' = TRUE
    /\ UNCHANGED <<status, error, iterations, goal, step, todos, tests, verified, failing,
                   answered, governorVars, cancelled, dirty, lateRequests>>

(* No such tool, or a required argument is missing. *)
Reject(op) ==
    /\ pc = "batch"
    /\ \/ op \in Unknown /\ denials' = 0
       \/ op \in Incomplete /\ UNCHANGED denials
    /\ Record(op, "rejected")
    /\ UNCHANGED <<tests, seen, done, denied, failures, stagnation, diagnosing,
                   diagnosisIters, nudges, modified, dirty>>

Checked(op) == pc = "batch" /\ op \in (Reads \cup Edits \cup Tests) \ Incomplete
Forbidden(op) == op \in denied \/ (goal.readOnly /\ op \in Edits)

(* Confinement, scope, policy or the user refuse; a refusal is remembered. *)
Deny(op) ==
    /\ Checked(op)
    /\ denied' = denied \cup {op}
    /\ denials' = denials + 1
    /\ Record(op, "denied")
    /\ UNCHANGED <<tests, seen, done, failures, stagnation, diagnosing,
                   diagnosisIters, nudges, modified, dirty>>

Allowed(op) == Checked(op) /\ ~Forbidden(op)

(* The same operation has failed often enough. *)
Block(op) ==
    /\ Allowed(op) /\ failures[op] >= RepeatBlock
    /\ Record(op, "blocked")
    /\ UNCHANGED <<tests, governorVars, dirty>>

(* A read that has succeeded before is answered without executing it. *)
Reuse(op) ==
    /\ Allowed(op) /\ failures[op] < RepeatBlock
    /\ op \in Reads \cap done
    /\ Record(op, "cached")
    /\ UNCHANGED <<tests, governorVars, dirty>>

(* Mutant: blind retries are blocked one failure too late. *)
Runs_OneMore(op) ==
    Allowed(op) /\ failures[op] <= RepeatBlock /\ op \notin Reads \cap done

Runs(op) == Allowed(op) /\ failures[op] < RepeatBlock /\ op \notin Reads \cap done

(* What a test command leaves in tests_run and tests_passed is what its     *)
(* output counts, whatever its exit code: all passed, some failed, or none  *)
(* at all ("0 passed").  Without a readable summary a green run is a pass   *)
(* or keeps the earlier verdict, and a red one keeps it.                    *)
Succeed(op) ==
    /\ Runs(op)
    /\ Record(op, "ok")
    /\ denials' = 0
    /\ done' = done \cup {op}
    /\ failures' = IF op \in Edits THEN [o \in Ops |-> 0]
                   ELSE [failures EXCEPT ![op] = 0]
    /\ modified' = (modified \/ op \in Edits)
    /\ dirty' = (dirty \/ op \in Edits)
    /\ IF op \in Tests
       THEN /\ tests' \in Verdicts
            /\ diagnosing' = FALSE /\ diagnosisIters' = 0
       ELSE UNCHANGED <<tests, diagnosing, diagnosisIters>>
    /\ UNCHANGED <<seen, denied, stagnation, nudges>>

Fail(op) ==
    /\ Runs(op)
    /\ Record(op, "failed")
    /\ denials' = 0
    /\ failures' = [failures EXCEPT ![op] = @ + 1]
    /\ IF failures[op] + 1 = RepeatDiagnosis
       THEN diagnosing' = TRUE /\ diagnosisIters' = 0
       ELSE UNCHANGED <<diagnosing, diagnosisIters>>
    /\ IF op \in Tests THEN tests' \in Verdicts ELSE UNCHANGED tests
    /\ UNCHANGED <<seen, done, denied, stagnation, nudges, modified, dirty>>

ToolCall ==
    \E op \in Ops :
        \/ Malformed(op) \/ Reject(op) \/ Deny(op) \/ Block(op)
        \/ Reuse(op) \/ Succeed(op) \/ Fail(op)

---------------------------------------------------------------------------
(* The governor, after the calls of an iteration.                           *)

(* _iteration_made_progress: a new operation, or a file changed. *)
Progress ==
    \/ FreshOps \ seen # {}
    \/ \E i \in 1..fresh : LastCalls(fresh)[i].tool = "edit" /\ LastCalls(fresh)[i].res = "ok"

Stagnant == IF Progress THEN 0 ELSE stagnation + 1
DiagnosisCount == IF diagnosing THEN diagnosisIters + 1 ELSE diagnosisIters

LastTestFailed ==
    \E i \in DOMAIN calls :
        /\ calls[i].tool = "test" /\ ExecutionFailed(calls[i].res)
        /\ \A j \in DOMAIN calls : j > i => calls[j].tool # "test"

(* _stagnation_recovery: the evidence may be green although the model only  *)
(* repeats itself.                                                          *)
Recover(ver) ==
    LET final == ReconcileRunning(todos, Evidence(ver))
    IN /\ Verify(ver)
       /\ IF (Checks /\ ver = "no") \/ status = "FAILED"
          THEN UNCHANGED todos /\ End("FAILED", "stagnation")
          ELSE /\ todos' = final
               /\ IF CanComplete(goal.kind, final, calls, answered, tests, ver, error)
                  THEN End("COMPLETED", "none")
                  ELSE End("FAILED", "stagnation")

CloseStagnant ==
    /\ pc = "closing" /\ Stagnant >= StagnationStop
    /\ IF modified /\ ~LastTestFailed
       THEN \E ver \in Verdicts : Recover(ver)
       ELSE End("FAILED", "stagnation") /\ UNCHANGED <<todos, verified, dirty>>
    /\ seen' = seen \cup FreshOps
    /\ stagnation' = Stagnant
    /\ UNCHANGED <<answered, done, denied, failures, denials, diagnosing,
                   diagnosisIters, nudges, modified>>

(* Diagnosis that lasts too long, and refusal after refusal, end the run. *)
Close ==
    /\ pc = "closing" /\ Stagnant < StagnationStop
    /\ seen' = seen \cup FreshOps
    /\ stagnation' = Stagnant
    /\ diagnosisIters' = DiagnosisCount
    /\ CASE diagnosing /\ DiagnosisCount > MaxDiagnosis ->
               pc' = "ended" /\ status' = "FAILED" /\ error' = "diagnosis"
         [] ~(diagnosing /\ DiagnosisCount > MaxDiagnosis) /\ denials >= DenialStop ->
               pc' = "ended" /\ status' = "FAILED" /\ error' = "denied"
         [] OTHER -> pc' = "boundary" /\ UNCHANGED <<status, error>>
    /\ UNCHANGED <<iterations, taskVars, batch, fresh, done, denied, failures,
                   denials, diagnosing, nudges, modified, spent, cancelled,
                   unrecovered, dirty, lateRequests>>

---------------------------------------------------------------------------
LoopStep ==
    \/ Start \/ FlowStep \/ FlowAborts \/ FlowConcludes \/ Plan
    \/ Exhaust \/ StopCancelled \/ NextIteration \/ Prepare
    \/ ModelFails \/ ModelCalls \/ Nudge \/ Answer \/ ToolCall
    \/ CloseStagnant \/ Close

Next == Cancel \/ LoopStep

(* A model request ends within the router's timeout and a tool within the   *)
(* timeout of wait_for, so a run that can go on does.                       *)
Spec == Init /\ [][Next]_vars /\ WF_vars(LoopStep)

---------------------------------------------------------------------------
CallType == [op : Ops, tool : Tools, res : Results]

(* The variables hold what the code's fields can hold. *)
AgentTypeOK ==
    /\ pc \in Points /\ goal \in Goals /\ status \in AgentStatus /\ error \in Errors
    /\ iterations \in Nat /\ step \in Nat
    /\ calls \in Seq(CallType) /\ todos \in Seq(TodoItems)
    /\ tests \in Verdicts /\ verified \in Verdicts
    /\ failing \subseteq Tools /\ answered \in BOOLEAN
    /\ batch \in 0..MaxBatch /\ fresh \in Nat
    /\ seen \subseteq Ops /\ done \subseteq Ops /\ denied \subseteq Ops
    /\ failures \in [Ops -> Nat]
    /\ denials \in Nat /\ stagnation \in Nat /\ diagnosisIters \in Nat
    /\ nudges \in Nat /\ spent \in Nat /\ lateRequests \in Nat
    /\ diagnosing \in BOOLEAN /\ modified \in BOOLEAN /\ cancelled \in BOOLEAN
    /\ unrecovered \in BOOLEAN /\ dirty \in BOOLEAN

(* A task is COMPLETED only when every item of its plan is resolved, no     *)
(* call of the whole run, compacted or not, failed without a later success, *)
(* and every change of a file came before a verification that passed        *)
(* (loop.py _stagnation_recovery and the text path of run).                 *)
HonestCompletion ==
    status = "COMPLETED" =>
        /\ \A i \in DOMAIN todos : todos[i].status \in {"COMPLETED", "SKIPPED"}
        /\ ~unrecovered
        /\ VerifyOnComplete /\ modified => ~dirty /\ verified = "yes"
        /\ error = "none"

(* PARTIAL claims that nothing failed: no item of the plan did, and the     *)
(* last executed call of every tool still in the history is a success; and  *)
(* it is an end, which no workflow leaves behind for the loop (loop.py run, *)
(* the classification after the loop, at an answer, after a workflow).      *)
PartialIsHonest ==
    status = "PARTIAL" =>
        /\ pc = "ended"
        /\ ~HasFailedTodo(todos)
        /\ \A i \in DOMAIN calls :
              calls[i].res \in {"failed", "blocked", "rejected"} =>
                 \E j \in DOMAIN calls : /\ j > i /\ calls[j].tool = calls[i].tool
                                        /\ Succeeded(calls[j].res)

(* An operation that failed RepeatBlock times is not executed again before  *)
(* a change of a file (loop.py _is_repeating_failure and the clearing of    *)
(* its counts).                                                             *)
FailedAt(op) == {i \in DOMAIN calls : calls[i].op = op /\ calls[i].res = "failed"}

NoBlindRetry ==
    \A op \in Asked : \A i, j \in FailedAt(op) :
        i < j /\ Cardinality(FailedAt(op) \cap (i..j)) > RepeatBlock =>
            \E k \in i..j : /\ calls[k].res = "ok"
                           /\ (calls[k].tool = "edit" \/ calls[k].op = op)

(* After a cancellation at most one more request is sent, the one whose     *)
(* iteration had begun, and a run that reaches its boundary in time ends    *)
(* CANCELLED, which only a cancelled run does (loop.py cancel and run).     *)
CancelIsPrompt ==
    /\ lateRequests <= 1
    /\ status = "CANCELLED" => cancelled
    /\ pc = "prepare" /\ cancelled => lateRequests = 0

(* The budget of calls is exceeded by one answer at most, whatever the      *)
(* limit of the loop lets through, or by a workflow, which does not look at *)
(* it (loop.py run, BudgetManager.check_all).                               *)
CallsBounded ==
    \/ spent <= BudgetCalls + MaxBatch
    \/ goal.flow # "none" /\ spent <= Len(PushScript) + FlowReads

(* A request is sent only while no governor has had enough (loop.py run,    *)
(* the checks after the tool calls).                                        *)
GovernorObeyed ==
    pc = "calling" =>
        /\ denials < DenialStop
        /\ stagnation < StagnationStop
        /\ diagnosing => diagnosisIters <= MaxDiagnosis

(* Finished items are undone only by a run that ends badly, and then only   *)
(* without proof of verification or tests (todos.py reconcile_on_evidence). *)
TodosNotReopened ==
    [][\A i \in DOMAIN todos :
          /\ todos[i].status = "SKIPPED" => todos'[i].status = "SKIPPED"
          /\ todos[i].status = "COMPLETED" =>
                \/ todos'[i].status = "COMPLETED"
                \/ /\ todos'[i].status = "FAILED" /\ status' \in {"FAILED", "PAUSED"}
                   /\ verified' # "yes" /\ tests' # "yes"]_vars

(* Every run that has begun ends, by an answer or by one of its limits. *)
RunEnds == (pc # "idle") ~> (pc = "ended")

---------------------------------------------------------------------------
(* What a comment says and the code does not do. *)

(* In a COMPLETED task a test item of the plan is done because a test       *)
(* command was run, with success or with a summary (loop.py run,            *)
(* "Evidence-based TODO transitions").                                      *)
TestsWereRun ==
    status = "COMPLETED" /\ goal.flow # "test" =>
        \A i \in DOMAIN todos :
            todos[i].cat = "test" /\ todos[i].status = "COMPLETED" =>
                tests # "none" \/ Tests \cap done # {}

(* A COMPLETED push task has pushed: "Git state (git_commit, git_push)      *)
(* derives from real git tool events" (docs/phase10-professional-execution- *)
(* audit.md).                                                               *)
PushedMeansPushed ==
    status = "COMPLETED" /\ goal.flow = "push" =>
        \E i \in DOMAIN calls : calls[i].tool = "git_push" /\ Succeeded(calls[i].res)
=============================================================================
