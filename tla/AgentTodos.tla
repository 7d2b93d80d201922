------------------------------ MODULE AgentTodos ------------------------------
(***************************************************************************)
(* The runtime-owned plan of a task: how a tool call moves its TODO items   *)
(* (agent/todos.py, TaskPlan of agent/types.py), and the completion gate    *)
(* that reads it (agent/completion.py).                                     *)
(*                                                                         *)
(* A plan is a sequence of items [cat, status].  The category stands for    *)
(* the title, from which the code computes it; no title names a file, so    *)
(* that the score of an item is the score of its category.  Every item is   *)
(* required: neither the loop nor a workflow adds one that is not.           *)
(* A call is [op, tool, res]: the operation (a tool with its arguments), its *)
(* kind of tool, and how it went.  Shell commands that run no tests, which   *)
(* count towards inspection, are left out.                                   *)
(***************************************************************************)
EXTENDS Integers, Sequences

Categories == {"inspect", "implement", "test", "verify", "stage", "commit", "push", "other"}
TodoStatus == {"PENDING", "IN_PROGRESS", "COMPLETED", "FAILED", "SKIPPED"}
GitTools == {"git_status", "git_remote", "git_identity", "git_add", "git_commit",
             "git_push", "git_log"}
Tools == {"read", "edit", "test", "unknown"} \cup GitTools
TodoItems == [cat : Categories, status : TodoStatus]

NewPlan(cats) == [i \in DOMAIN cats |-> [cat |-> cats[i], status |-> "PENDING"]]

IsOpen(item) == item.status \in {"PENDING", "IN_PROGRESS"}

(* score_todo: how well a call of the tool fits the item; any tool of git    *)
(* fits the items of git and of inspection a little.                        *)
Plain == {<<"read", "inspect">>, <<"edit", "implement">>}
Exact == {<<"test", "test">>, <<"git_add", "stage">>, <<"git_commit", "commit">>,
          <<"git_push", "push">>}

Score(item, tool) ==
    IF item.status \in {"COMPLETED", "SKIPPED"} THEN 0
    ELSE IF <<tool, item.cat>> \in Exact THEN 8
    ELSE IF <<tool, item.cat>> \in Plain THEN 5
    ELSE IF tool \in GitTools /\ item.cat \in {"inspect", "commit", "push", "stage"} THEN 2
    ELSE 0

(* The order of the matches: the better score, then an item in progress,    *)
(* then plan order.                                                         *)
Precedes(plan, tool, i, j) ==
    LET active(k) == plan[k].status = "IN_PROGRESS" IN
    \/ Score(plan[i], tool) > Score(plan[j], tool)
    \/ /\ Score(plan[i], tool) = Score(plan[j], tool)
       /\ \/ active(i) /\ ~active(j)
          \/ active(i) = active(j) /\ i <= j

(* select_todo: the best match, if there is one. *)
Selected(plan, tool) ==
    {i \in DOMAIN plan :
        /\ Score(plan[i], tool) > 0
        /\ \A j \in DOMAIN plan : Precedes(plan, tool, i, j)}

(* apply_tool_started: the selected item goes into progress. *)
ToolStarted(plan, tool) ==
    [i \in DOMAIN plan |->
        IF i \in Selected(plan, tool) /\ plan[i].status = "PENDING"
        THEN [plan[i] EXCEPT !.status = "IN_PROGRESS"] ELSE plan[i]]

(* apply_tool_result: a denied call has not failed, so it counts as done. *)
StatusOnResult(item, failed) ==
    CASE failed /\ item.cat = "inspect"      -> item.status
      [] failed /\ item.cat # "inspect"      -> "FAILED"
      [] ~failed /\ item.cat = "implement"   ->
            IF item.status = "PENDING" THEN "IN_PROGRESS" ELSE item.status
      [] OTHER                               -> "COMPLETED"

ToolResult(plan, tool, failed) ==
    [i \in DOMAIN plan |->
        IF i \in Selected(plan, tool)
        THEN [plan[i] EXCEPT !.status = StatusOnResult(plan[i], failed)]
        ELSE plan[i]]

(* skip_id on what is left, when the runtime may waive required work. *)
SkipOpen(plan, authorized) ==
    [i \in DOMAIN plan |->
        IF IsOpen(plan[i]) /\ authorized
        THEN [plan[i] EXCEPT !.status = "SKIPPED"] ELSE plan[i]]

(* activate_id, complete_id, fail_id and skip_id, as workflows use them. *)
StartItem(plan, i) ==
    [plan EXCEPT ![i].status = IF @ = "PENDING" THEN "IN_PROGRESS" ELSE @]
CompleteItem(plan, i) == [plan EXCEPT ![i].status = "COMPLETED"]
FailItem(plan, i) ==
    [plan EXCEPT ![i].status = IF @ \in {"COMPLETED", "SKIPPED"} THEN @ ELSE "FAILED"]
SkipItem(plan, i) ==
    [plan EXCEPT ![i].status = IF @ \in {"PENDING", "IN_PROGRESS"} THEN "SKIPPED" ELSE @]

---------------------------------------------------------------------------
(* reconcile_on_evidence; ev = [inspected, wrote, tests, verified], where   *)
(* tests and verified are "none", "yes" or "no".  Items of git are resolved *)
(* by the workflow that adds them, before it is reconciled.                 *)

HasProof(item, ev) ==
    \/ item.cat = "inspect" /\ ev.inspected
    \/ item.cat = "implement" /\ ev.wrote /\ ev.verified # "no" /\ ev.tests # "no"
    \/ item.cat = "test" /\ ev.tests = "yes"
    \/ item.cat = "verify" /\ (ev.verified = "yes" \/ ev.tests = "yes")

IsRefuted(item, ev) ==
    \/ item.cat = "test" /\ ev.tests = "no"
    \/ item.cat = "verify" /\ ev.verified = "no" /\ ev.tests # "yes"

ReconcileRunning(plan, ev) ==
    [i \in DOMAIN plan |->
        CASE IsOpen(plan[i]) /\ HasProof(plan[i], ev) ->
                [plan[i] EXCEPT !.status = "COMPLETED"]
          [] IsOpen(plan[i]) /\ ~HasProof(plan[i], ev) /\ IsRefuted(plan[i], ev) ->
                [plan[i] EXCEPT !.status = "FAILED"]
          [] OTHER -> plan[i]]

(* Mutant: finished work is undone although tests prove it. *)
ReconcileFailed_Blind(plan, ev) ==
    [i \in DOMAIN plan |->
        IF plan[i].cat \in {"implement", "verify", "test"} /\ plan[i].status # "SKIPPED"
        THEN [plan[i] EXCEPT !.status = "FAILED"] ELSE plan[i]]

(* task_failed: open work fails, and finished work without proof is undone. *)
ReconcileFailed(plan, ev) ==
    [i \in DOMAIN plan |->
        IF /\ plan[i].cat \in {"implement", "verify", "test"}
           /\ \/ IsOpen(plan[i])
              \/ plan[i].status = "COMPLETED" /\ ev.verified # "yes" /\ ev.tests # "yes"
        THEN [plan[i] EXCEPT !.status = "FAILED"] ELSE plan[i]]

---------------------------------------------------------------------------
(* How calls went.  A denial is neither a success nor a failed execution.   *)

Verdicts == {"none", "yes", "no"}
Results == {"ok", "cached", "failed", "blocked", "rejected", "malformed", "denied"}
Succeeded(res) == res \in {"ok", "cached"}
ExecutionFailed(res) == res \in {"failed", "blocked", "rejected", "malformed"}

(* unresolved_tool_failures: a failure that no later call made good. *)
UnresolvedFailure(calls) ==
    \E i \in DOMAIN calls :
        /\ ExecutionFailed(calls[i].res)
        /\ \A j \in DOMAIN calls : j > i => ~Succeeded(calls[j].res)

(* _should_block_completion: nothing succeeded after the last failure. *)
ShouldBlockCompletion(calls) ==
    \E i \in DOMAIN calls :
        /\ ExecutionFailed(calls[i].res)
        /\ \A j \in DOMAIN calls :
              j > i => ~ExecutionFailed(calls[j].res) /\ ~Succeeded(calls[j].res)

(* has_required_evidence; kind is what the words of the goal ask for. *)
HasEvidence(kind, plan, calls, answered, tests) ==
    LET did(tools) == \E i \in DOMAIN calls :
                         calls[i].tool \in tools /\ Succeeded(calls[i].res)
    IN \/ plan # <<>> /\ \A i \in DOMAIN plan :
                             plan[i].status \in {"COMPLETED", "SKIPPED"}
       \/ answered /\ calls = <<>> /\ plan = <<>>
       \/ kind = "explain" /\ did({"read"})
       \/ kind = "fix" /\ (did({"edit"}) \/ tests # "none")
       \/ kind = "code" /\ did(Tools)

(* Mutant: the gate looks at the plan and forgets the calls. *)
CanComplete_TodosOnly(kind, plan, calls, answered, tests, verified, error) ==
    /\ \A i \in DOMAIN plan : plan[i].status \in {"COMPLETED", "SKIPPED"}
    /\ verified # "no" /\ error = "none"
    /\ HasEvidence(kind, plan, calls, answered, tests)

(* can_complete_task, where it is called: the task is neither cancelled nor *)
(* paused.                                                                  *)
CanComplete(kind, plan, calls, answered, tests, verified, error) ==
    /\ \A i \in DOMAIN plan : plan[i].status \in {"COMPLETED", "SKIPPED"}
    /\ ~UnresolvedFailure(calls)
    /\ (\E i \in DOMAIN calls : calls[i].tool = "edit" /\ Succeeded(calls[i].res))
          => verified # "no"
    /\ error = "none"
    /\ HasEvidence(kind, plan, calls, answered, tests)
=============================================================================
