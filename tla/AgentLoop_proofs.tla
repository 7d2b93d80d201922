-------------------------- MODULE AgentLoop_proofs --------------------------
(***************************************************************************)
(* The agent loop for any operations, goals and limits: the invariants that *)
(* AgentLoop's runs check, and the reasons for them.                        *)
(***************************************************************************)
EXTENDS AgentLoop, SequenceTheorems, FiniteSetTheorems, TLAPS

(* Where the run is says what has been counted and whether it has begun. *)
Control ==
    /\ fresh <= Len(calls)
    /\ pc \in {"idle", "prepare", "calling"} => fresh = 0
    /\ pc = "batch" => batch > 0
    /\ pc = "idle" => todos = <<>>
    /\ pc = "script" => step > 0 /\ (goal.flow = "push" => step <= Len(PushScript))
    /\ status \in {"COMPLETED", "CANCELLED"} => pc = "ended"

TypeInv == AgentTypeOK /\ Control

---------------------------------------------------------------------------
(* The plan of the task *)

\* A function on the items of a plan that gives items is a plan of that length.
LEMMA PlanOfItems ==
  ASSUME NEW plan \in Seq(TodoItems), NEW f \in [DOMAIN plan -> TodoItems]
  PROVE  f \in Seq(TodoItems) /\ DOMAIN f = DOMAIN plan
<1>1. DOMAIN plan = 1..Len(plan) /\ Len(plan) \in Nat
  OBVIOUS
<1>2. f \in [1..Len(plan) -> TodoItems]
  BY <1>1
<1>3. f \in Seq(TodoItems)
  BY <1>1, <1>2, SeqDef
<1>4. QED
  BY <1>3

\* Items are items whatever status they are given.
LEMMA ItemStatus ==
  ASSUME NEW item \in TodoItems, NEW s \in TodoStatus
  PROVE  [item EXCEPT !.status = s] \in TodoItems
BY DEF TodoItems

\* Every operation on a plan keeps its items and gives them statuses.
LEMMA PlanKept ==
  ASSUME NEW plan \in Seq(TodoItems), NEW tool, NEW failed \in BOOLEAN, NEW ev, NEW b \in BOOLEAN
  PROVE  /\ ToolStarted(plan, tool) \in Seq(TodoItems)
         /\ ToolResult(plan, tool, failed) \in Seq(TodoItems)
         /\ SkipOpen(plan, b) \in Seq(TodoItems)
         /\ ReconcileRunning(plan, ev) \in Seq(TodoItems)
         /\ ReconcileFailed(plan, ev) \in Seq(TodoItems)
<1>1. \A i \in DOMAIN plan : plan[i] \in TodoItems
  BY ElementOfSeq
<1>2. \A s \in {"IN_PROGRESS", "COMPLETED", "FAILED", "SKIPPED"} : s \in TodoStatus
  BY DEF TodoStatus
<1>3. \A i \in DOMAIN plan : \A s \in TodoStatus : [plan[i] EXCEPT !.status = s] \in TodoItems
  BY <1>1, ItemStatus
<1>4. ToolStarted(plan, tool) \in [DOMAIN plan -> TodoItems]
  BY <1>1, <1>2, <1>3 DEF ToolStarted
<1>5. \A i \in DOMAIN plan : StatusOnResult(plan[i], failed) \in TodoStatus
  <2>1. \A i \in DOMAIN plan : plan[i].status \in TodoStatus /\ plan[i].cat \in Categories
    BY <1>1 DEF TodoItems
  <2>2. QED
    BY <1>2, <2>1 DEF StatusOnResult
<1>6. ToolResult(plan, tool, failed) \in [DOMAIN plan -> TodoItems]
  BY <1>1, <1>3, <1>5 DEF ToolResult
<1>7. SkipOpen(plan, b) \in [DOMAIN plan -> TodoItems]
  BY <1>1, <1>2, <1>3 DEF SkipOpen
<1>8. ReconcileRunning(plan, ev) \in [DOMAIN plan -> TodoItems]
  BY <1>1, <1>2, <1>3 DEF ReconcileRunning
<1>9. ReconcileFailed(plan, ev) \in [DOMAIN plan -> TodoItems]
  BY <1>1, <1>2, <1>3 DEF ReconcileFailed
<1>10. QED
  BY <1>4, <1>6, <1>7, <1>8, <1>9, PlanOfItems

\* What a script does to an item changes the status of this item only.
LEMMA ItemMoves ==
  ASSUME NEW plan \in Seq(TodoItems), NEW i,
         NEW new \in {StartItem(plan, i), CompleteItem(plan, i), FailItem(plan, i), SkipItem(plan, i)}
  PROVE  /\ new \in Seq(TodoItems) /\ DOMAIN new = DOMAIN plan /\ Len(new) = Len(plan)
         /\ \A j \in DOMAIN plan : j # i => new[j] = plan[j]
<1>1. \A j \in DOMAIN plan : plan[j] \in TodoItems
  BY ElementOfSeq
<1>2. \A s \in {"IN_PROGRESS", "COMPLETED", "FAILED", "SKIPPED"} : s \in TodoStatus
  BY DEF TodoStatus
<1>3. \A j \in DOMAIN plan : \A s \in TodoStatus : [plan[j] EXCEPT !.status = s] \in TodoItems
  BY <1>1, ItemStatus
<1>4. \A j \in DOMAIN plan : plan[j].status \in TodoStatus
  BY <1>1 DEF TodoItems
<1>5. \E s : /\ new = [plan EXCEPT ![i].status = s]
             /\ i \in DOMAIN plan => s \in TodoStatus
  <2>1. CASE new = StartItem(plan, i)
    BY <1>2, <1>4, <2>1 DEF StartItem
  <2>2. CASE new = CompleteItem(plan, i)
    BY <1>2, <2>2 DEF CompleteItem
  <2>3. CASE new = FailItem(plan, i)
    BY <1>2, <1>4, <2>3 DEF FailItem
  <2>4. CASE new = SkipItem(plan, i)
    BY <1>2, <1>4, <2>4 DEF SkipItem
  <2>5. QED
    BY <2>1, <2>2, <2>3, <2>4
<1>6. PICK s : /\ new = [plan EXCEPT ![i].status = s]
               /\ i \in DOMAIN plan => s \in TodoStatus
  BY <1>5
<1>7. new \in [DOMAIN plan -> TodoItems]
  BY <1>1, <1>3, <1>6
<1>8. new \in Seq(TodoItems) /\ DOMAIN new = DOMAIN plan
  BY <1>7, PlanOfItems
<1>9. Len(new) = Len(plan)
  BY <1>8
<1>10. \A j \in DOMAIN plan : j # i => new[j] = plan[j]
  BY <1>6
<1>11. QED
  BY <1>8, <1>9, <1>10

\* The statuses that a script leaves behind.
LEMMA ItemEffects ==
  ASSUME NEW plan \in Seq(TodoItems), NEW i, NEW j \in DOMAIN plan
  PROVE  /\ StartItem(plan, i)[j].status
               = IF j = i /\ plan[j].status = "PENDING" THEN "IN_PROGRESS" ELSE plan[j].status
         /\ CompleteItem(plan, i)[j].status = IF j = i THEN "COMPLETED" ELSE plan[j].status
         /\ FailItem(plan, i)[j].status
               = IF j = i /\ plan[j].status \notin {"COMPLETED", "SKIPPED"}
                 THEN "FAILED" ELSE plan[j].status
         /\ SkipItem(plan, i)[j].status
               = IF j = i /\ IsOpen(plan[j]) THEN "SKIPPED" ELSE plan[j].status
<1>1. \A s : /\ j = i => [plan EXCEPT ![i].status = s][j].status = s
             /\ j # i => [plan EXCEPT ![i].status = s][j] = plan[j]
  <2>1. plan[j] \in TodoItems
    BY ElementOfSeq
  <2>2. QED
    BY <2>1 DEF TodoItems
<1>2. QED
  BY <1>1 DEF StartItem, CompleteItem, FailItem, SkipItem, IsOpen

\* A new plan consists of open items.
LEMMA NewPlanType ==
  ASSUME NEW cats \in Seq(Categories)
  PROVE  NewPlan(cats) \in Seq(TodoItems)
<1>1. DOMAIN cats = 1..Len(cats) /\ Len(cats) \in Nat
  OBVIOUS
<1>2. \A i \in DOMAIN cats : [cat |-> cats[i], status |-> "PENDING"] \in TodoItems
  BY ElementOfSeq DEF TodoItems, TodoStatus
<1>3. NewPlan(cats) \in [1..Len(cats) -> TodoItems]
  BY <1>1, <1>2 DEF NewPlan
<1>4. QED
  BY <1>1, <1>3, SeqDef

\* The plan of a script has an item for every call of "push", and three else.
LEMMA FlowPlanType ==
  ASSUME NEW flow
  PROVE  /\ FlowPlan(flow) \in Seq(TodoItems)
         /\ Len(FlowPlan(flow)) = IF flow = "push" THEN 7 ELSE 3
         /\ \A i \in DOMAIN FlowPlan(flow) : FlowPlan(flow)[i].status = "PENDING"
<1>1. \A cats \in Seq(Categories) :
         /\ NewPlan(cats) \in Seq(TodoItems) /\ Len(NewPlan(cats)) = Len(cats)
         /\ \A i \in DOMAIN NewPlan(cats) : NewPlan(cats)[i].status = "PENDING"
  <2>1. ASSUME NEW cats \in Seq(Categories)
        PROVE  /\ NewPlan(cats) \in Seq(TodoItems) /\ Len(NewPlan(cats)) = Len(cats)
               /\ \A i \in DOMAIN NewPlan(cats) : NewPlan(cats)[i].status = "PENDING"
    <3>1. NewPlan(cats) \in Seq(TodoItems)
      BY NewPlanType
    <3>2. DOMAIN NewPlan(cats) = 1..Len(cats) /\ Len(cats) \in Nat
      BY DEF NewPlan
    <3>3. QED
      BY <3>1, <3>2 DEF NewPlan
  <2>2. QED
    BY <2>1
<1> DEFINE cats == CASE flow = "push" -> <<"inspect", "other", "verify", "stage", "commit", "push", "push">>
                     [] flow = "test" -> <<"test", "test", "test">>
                     [] OTHER         -> <<"inspect", "inspect", "inspect">>
<1>2. cats \in Seq(Categories) /\ Len(cats) = IF flow = "push" THEN 7 ELSE 3
  <2>1. {"inspect", "other", "verify", "stage", "commit", "push", "test"} \subseteq Categories
    BY DEF Categories
  <2>2. QED
    BY <2>1
<1>3. FlowPlan(flow) = NewPlan(cats)
  BY DEF FlowPlan
<1>4. QED
  BY <1>1, <1>2, <1>3

\* The calls of the script "push" are seven, all of git.
LEMMA PushScriptTools ==
  /\ Len(PushScript) = 7
  /\ \A i \in 1..7 : PushScript[i] \in Tools
  /\ \A i \in 1..7 : /\ PushScript[i] = "git_remote" <=> i = 2
                     /\ PushScript[i] = "git_identity" <=> i = 3
                     /\ PushScript[i] = "git_commit" <=> i = 5
                     /\ PushScript[i] = "git_log" <=> i = 7
BY DEF PushScript, Tools, GitTools

---------------------------------------------------------------------------
(* The histories of calls *)

\* The newest n calls are calls.
LEMMA NewestCalls ==
  ASSUME calls \in Seq(CallType), NEW n \in Nat, n <= Len(calls)
  PROVE  /\ LastCalls(n) \in Seq(CallType) /\ Len(LastCalls(n)) = n
         /\ \A i \in 1..n : LastCalls(n)[i] = calls[Len(calls) - n + i]
<1> DEFINE m == Len(calls) - n + 1
<1>1. m \in 1..Len(calls) + 1 /\ Len(calls) \in Nat
  OBVIOUS
<1>2. \A i \in m..Len(calls) : calls[i] \in CallType
  BY <1>1, ElementOfSeq
<1>3. /\ SubSeq(calls, m, Len(calls)) \in Seq(CallType)
      /\ Len(SubSeq(calls, m, Len(calls))) = Len(calls) - m + 1
      /\ \A i \in 1..Len(calls) - m + 1 : SubSeq(calls, m, Len(calls))[i] = calls[m + i - 1]
  BY <1>1, <1>2
<1>4. Len(calls) - m + 1 = n /\ \A i \in 1..n : m + i - 1 = Len(calls) - n + i
  BY <1>1
<1>5. QED
  BY <1>3, <1>4 DEF LastCalls

\* What was called in this iteration are operations.
LEMMA FreshAreOps ==
  ASSUME TypeInv
  PROVE  FreshOps \subseteq Ops
<1>1. LastCalls(fresh) \in Seq(CallType) /\ Len(LastCalls(fresh)) = fresh
  BY NewestCalls DEF TypeInv, AgentTypeOK, Control
<1>2. \A i \in 1..fresh : LastCalls(fresh)[i] \in CallType
  BY <1>1, ElementOfSeq DEF TypeInv, AgentTypeOK
<1>3. QED
  BY <1>2 DEF FreshOps, CallType

\* Every operation is an operation of some tool.
LEMMA ToolOfIsTool == \A op : ToolOf(op) \in Tools
BY DEF ToolOf, Tools

---------------------------------------------------------------------------
(* Types *)

\* The limits are numbers.
LEMMA Limits ==
  /\ MaxIterations \in Nat /\ MaxBatch \in Nat \ {0} /\ MaxCalls \in Nat
  /\ BudgetCalls \in Nat /\ KeepCalls \in Nat /\ RepeatBlock \in Nat \ {0}
  /\ RepeatDiagnosis \in Nat \ {0} /\ StagnationStop \in Nat \ {0}
  /\ MaxDiagnosis \in Nat /\ DenialStop \in Nat \ {0} /\ DenialStop <= KeepCalls
  /\ FlowReads \in Nat
BY AgentAssumption

\* The types hold of a run that has not begun.
LEMMA InitTypes == Init => TypeInv
<1> SUFFICES ASSUME Init PROVE TypeInv
  OBVIOUS
<1>1. calls \in Seq(CallType) /\ todos \in Seq(TodoItems)
  BY DEF Init
<1>2. failures \in [Ops -> Nat] /\ goal \in Goals
  BY DEF Init
<1>3. AgentTypeOK
  <2>1. /\ answered \in BOOLEAN /\ diagnosing \in BOOLEAN /\ modified \in BOOLEAN
        /\ cancelled \in BOOLEAN /\ unrecovered \in BOOLEAN /\ dirty \in BOOLEAN
    BY Zenon DEF Init
  <2>2. /\ pc \in Points /\ status \in AgentStatus /\ error \in Errors
        /\ tests \in Verdicts /\ verified \in Verdicts
    BY DEF Init, Points, AgentStatus, Errors, Verdicts
  <2>3. /\ iterations \in Nat /\ step \in Nat /\ batch \in 0..MaxBatch /\ fresh \in Nat
        /\ denials \in Nat /\ stagnation \in Nat /\ diagnosisIters \in Nat
        /\ nudges \in Nat /\ spent \in Nat /\ lateRequests \in Nat
    BY Limits DEF Init
  <2>4. failing \subseteq Tools /\ seen \subseteq Ops /\ done \subseteq Ops /\ denied \subseteq Ops
    BY DEF Init
  <2>5. QED
    BY <1>1, <1>2, <2>1, <2>2, <2>3, <2>4, Zenon DEF AgentTypeOK
<1>4. Control
  <2>1. Len(calls) = 0
    BY DEF Init
  <2>2. QED
    BY <2>1 DEF Init, Control
<1>5. QED
  BY <1>3, <1>4 DEF TypeInv

\* The head of the loop keeps the types.
LEMMA HeadTypes ==
  ASSUME TypeInv, Cancel \/ Start \/ Plan \/ NextIteration \/ Prepare \/ ModelCalls \/ Nudge
  PROVE  TypeInv'
<1> USE DEF TypeInv
<1>1. CASE Cancel
  BY <1>1 DEF Cancel, AgentTypeOK, Control, taskVars, governorVars
<1>2. CASE Start
  <2>1. /\ todos' \in Seq(TodoItems) /\ step' \in Nat /\ pc' \in {"planning", "script"}
        /\ pc' = "script" => step' = 1
    <3>1. FlowPlan(goal.flow) \in Seq(TodoItems) /\ todos \in Seq(TodoItems) /\ step \in Nat
      BY FlowPlanType DEF AgentTypeOK
    <3>2. QED
      BY <1>2, <3>1 DEF Start
  <2>2. QED
    <3>1. AgentTypeOK'
      BY <1>2, <2>1 DEF Start, AgentTypeOK, governorVars, Points
    <3>2. Control'
      BY <1>2, <2>1, PushScriptTools DEF Start, Control
    <3>3. QED
      BY <3>1, <3>2
<1>8. CASE Plan
  <2>1. NewPlan(goal.plan) \in Seq(TodoItems) /\ <<>> \in Seq(TodoItems)
    BY AgentAssumption, NewPlanType DEF AgentTypeOK, GoalType
  <2>2. todos' \in Seq(TodoItems)
    BY <1>8, <2>1, ConcatProperties DEF Plan, AgentTypeOK
  <2>3. QED
    BY <1>8, <2>2 DEF Plan, AgentTypeOK, Control, governorVars, Points
<1>3. CASE NextIteration
  <2>1. iterations' \in Nat
    BY <1>3 DEF NextIteration, AgentTypeOK
  <2>2. QED
    BY <1>3, <2>1 DEF NextIteration, AgentTypeOK, Control, taskVars, governorVars, Points, AgentStatus
<1>4. CASE Prepare
  <2>1. calls' \in Seq(CallType) /\ Len(calls') \in Nat
    BY <1>4, NewestCalls, Limits DEF Prepare, MayCompact, AgentTypeOK
  <2>2. lateRequests' \in Nat
    BY <1>4 DEF Prepare, AgentTypeOK
  <2>3. QED
    BY <1>4, <2>1, <2>2 DEF Prepare, AgentTypeOK, Control, governorVars, Points, AgentStatus, Errors
<1>5. CASE ModelCalls
  BY <1>5, Limits DEF ModelCalls, AgentTypeOK, Control, taskVars, governorVars, Points
<1>6. CASE Nudge
  <2>1. answered' \in BOOLEAN
    BY <1>6, Zenon DEF Nudge, AgentTypeOK
  <2>2. nudges' \in Nat
    BY <1>6 DEF Nudge, AgentTypeOK
  <2>3. QED
    BY <1>6, <2>1, <2>2 DEF Nudge, AgentTypeOK, Control, Points
<1>7. QED
  BY <1>1, <1>2, <1>3, <1>4, <1>5, <1>6, <1>8

\* The steps that end a run whatever its outcome.
EndingStep ==
    Exhaust \/ StopCancelled \/ ModelFails \/ Answer \/ CloseStagnant \/ FlowAborts

\* The end of a run keeps the types.
LEMMA EndTypes ==
  ASSUME TypeInv, NEW s \in AgentStatus, NEW e \in Errors, End(s, e),
         todos' \in Seq(TodoItems), verified' \in Verdicts, dirty' \in BOOLEAN,
         answered' \in BOOLEAN, seen' \subseteq Ops, stagnation' \in Nat,
         UNCHANGED <<done, denied, failures, denials, diagnosing, diagnosisIters,
                     nudges, modified>>
  PROVE  TypeInv'
BY DEF TypeInv, AgentTypeOK, Control, End, Points

\* A run ends with one of the statuses and errors, and keeps its plan.
LEMMA Endings ==
  /\ \A s \in {"COMPLETED", "PARTIAL", "FAILED", "CANCELLED", "PAUSED"} : s \in AgentStatus
  /\ \A e \in {"none", "cancelled", "paused", "provider", "tools", "verification",
               "incomplete", "stagnation", "exhausted", "workflow"} : e \in Errors
BY DEF AgentStatus, Errors

\* The types survive the steps that end a run or an iteration.
LEMMA EndingTypes ==
  ASSUME TypeInv, EndingStep
  PROVE  TypeInv'
<1>1. /\ todos \in Seq(TodoItems) /\ verified \in Verdicts /\ dirty \in BOOLEAN
      /\ answered \in BOOLEAN /\ seen \subseteq Ops /\ stagnation \in Nat
      /\ error \in Errors
  BY DEF TypeInv, AgentTypeOK
<1>2. \A ver : Verify(ver) => verified' \in Verdicts /\ dirty' \in BOOLEAN
  BY <1>1 DEF Verify, VerdictsNow, Verdicts
<1>3. CASE Exhaust
  <2>1. \E s \in AgentStatus, e \in Errors : End(s, e)
    BY <1>1, <1>3, Endings, Zenon DEF Exhaust
  <2>2. QED
    BY <1>1, <1>3, <2>1, EndTypes DEF Exhaust, governorVars
<1>4. CASE StopCancelled
  <2>1. \E s \in AgentStatus, e \in Errors : End(s, e)
    BY <1>1, <1>4, Endings, Zenon DEF StopCancelled
  <2>2. QED
    BY <1>1, <1>4, <2>1, EndTypes DEF StopCancelled, governorVars
<1>5. CASE ModelFails
  <2>1. \E s \in AgentStatus, e \in Errors : End(s, e)
    BY <1>5, Endings DEF ModelFails
  <2>2. todos' \in Seq(TodoItems)
    BY <1>1, <1>5, PlanKept DEF ModelFails
  <2>3. QED
    BY <1>1, <1>5, <2>1, <2>2, EndTypes DEF ModelFails, governorVars
<1>6. CASE Answer
  <2>1. answered' \in BOOLEAN
    BY <1>1, <1>6, Zenon DEF Answer
  <2>2. \E plan \in Seq(TodoItems) :
           \/ todos' = plan /\ End("FAILED", "tools") /\ UNCHANGED <<verified, dirty>>
           \/ \E ver \in Verdicts : \E said : Verify(ver) /\ Conclude(plan, ver, said)
    <3>1. SkipOpen(todos, ~goal.canWork \/ goal.readOnly) \in Seq(TodoItems)
      BY <1>1, PlanKept
    <3>2. QED
      BY <1>6, <3>1 DEF Answer
  <2>3. PICK plan \in Seq(TodoItems) :
           \/ todos' = plan /\ End("FAILED", "tools") /\ UNCHANGED <<verified, dirty>>
           \/ \E ver \in Verdicts : \E said : Verify(ver) /\ Conclude(plan, ver, said)
    BY <2>2
  <2>4. CASE todos' = plan /\ End("FAILED", "tools") /\ UNCHANGED <<verified, dirty>>
    BY <1>1, <1>6, <2>1, <2>4, EndTypes, Endings DEF Answer, governorVars
  <2>5. ASSUME NEW ver \in Verdicts, NEW said, Verify(ver), Conclude(plan, ver, said)
        PROVE  TypeInv'
    <3>1. ReconcileFailed(plan, Evidence(ver)) \in Seq(TodoItems)
          /\ ReconcileRunning(plan, Evidence(ver)) \in Seq(TodoItems)
      BY <2>3, PlanKept
    <3>2. todos' \in Seq(TodoItems) /\ \E s \in AgentStatus, e \in Errors : End(s, e)
      BY <1>1, <2>5, <3>1, Endings DEF Conclude
    <3>3. QED
      BY <1>1, <1>2, <1>6, <2>1, <2>5, <3>2, EndTypes DEF Answer, governorVars
  <2>6. QED
    BY <2>3, <2>4, <2>5
<1>7. CASE CloseStagnant
  <2>1. seen' \subseteq Ops
    BY <1>1, <1>7, FreshAreOps DEF CloseStagnant
  <2>2. stagnation' \in Nat
    BY <1>1, <1>7 DEF CloseStagnant, Stagnant
  <2>3. answered' \in BOOLEAN
    BY <1>1, <1>7, Zenon DEF CloseStagnant
  <2>4. /\ todos' \in Seq(TodoItems) /\ verified' \in Verdicts /\ dirty' \in BOOLEAN
        /\ \E s \in AgentStatus, e \in Errors : End(s, e)
    <3>1. ASSUME NEW ver, Recover(ver)
          PROVE  /\ todos' \in Seq(TodoItems) /\ verified' \in Verdicts /\ dirty' \in BOOLEAN
                 /\ \E s \in AgentStatus, e \in Errors : End(s, e)
      <4>1. ReconcileRunning(todos, Evidence(ver)) \in Seq(TodoItems)
        BY <1>1, PlanKept
      <4>2. todos' \in Seq(TodoItems) /\ \E s \in AgentStatus, e \in Errors : End(s, e)
        BY <1>1, <3>1, <4>1, Endings DEF Recover
      <4>3. QED
        BY <1>2, <3>1, <4>2 DEF Recover
    <3>2. QED
      BY <1>1, <1>7, <3>1, Endings DEF CloseStagnant
  <2>5. QED
    BY <1>7, <2>1, <2>2, <2>3, <2>4, EndTypes DEF CloseStagnant
<1>8. CASE FlowAborts
  BY <1>1, <1>8, EndTypes, Endings DEF FlowAborts, governorVars
<1>9. QED
  BY <1>3, <1>4, <1>5, <1>6, <1>7, <1>8 DEF EndingStep

\* What a call records keeps the types.
LEMMA RecordTypes ==
  ASSUME TypeInv, pc = "batch", NEW op \in Ops, NEW res \in Results, Record(op, res)
  PROVE  /\ calls' \in Seq(CallType) /\ Len(calls') = Len(calls) + 1
         /\ fresh' \in Nat /\ fresh' <= Len(calls') /\ spent' \in Nat
         /\ todos' \in Seq(TodoItems) /\ failing' \subseteq Tools
         /\ status' \in {status, "FAILED"} /\ error' \in Errors
         /\ batch' \in 0..MaxBatch /\ pc' \in {"batch", "closing"}
         /\ (pc' = "batch" => batch' > 0) /\ unrecovered' \in BOOLEAN
<1> USE DEF TypeInv
<1>1. ToolOf(op) \in Tools /\ [op |-> op, tool |-> ToolOf(op), res |-> res] \in CallType
  BY ToolOfIsTool DEF CallType
<1>2. /\ calls' \in Seq(CallType) /\ Len(calls') = Len(calls) + 1
      /\ fresh' \in Nat /\ fresh' <= Len(calls') /\ spent' \in Nat
  <2>1. calls' = Append(calls, [op |-> op, tool |-> ToolOf(op), res |-> res])
        /\ fresh' = fresh + 1 /\ spent' = spent + 1
    BY DEF Record
  <2>2. QED
    BY <1>1, <2>1, AppendProperties DEF AgentTypeOK, Control
<1>3. todos' \in Seq(TodoItems)
  <2>1. ToolStarted(todos, ToolOf(op)) \in Seq(TodoItems)
    BY PlanKept DEF AgentTypeOK
  <2>2. ExecutionFailed(res) \in BOOLEAN
    BY DEF ExecutionFailed
  <2>3. QED
    BY <2>1, <2>2, PlanKept DEF Record
<1>4. failing' \subseteq Tools
  <2>1. failing' \in {failing \ {ToolOf(op)}, failing \cup {ToolOf(op)}, failing}
    BY Zenon DEF Record
  <2>2. QED
    BY <1>1, <2>1 DEF AgentTypeOK
<1>5. status' \in {status, "FAILED"} /\ error' \in Errors
  BY Endings DEF Record, AgentTypeOK, Errors
<1>6. batch' \in 0..MaxBatch /\ pc' \in {"batch", "closing"} /\ (pc' = "batch" => batch' > 0)
  <2>1. batch' \in {0, batch - 1} /\ pc' = IF batch' = 0 THEN "closing" ELSE "batch"
    BY DEF Record
  <2>2. QED
    BY <2>1, Limits DEF AgentTypeOK, Control
<1>7. unrecovered' \in BOOLEAN
  BY Zenon DEF Record
<1>8. QED
  BY <1>2, <1>3, <1>4, <1>5, <1>6, <1>7

\* One call of an answer is one of the seven that follow.
CallStep(op) ==
    Malformed(op) \/ Reject(op) \/ Deny(op) \/ Block(op) \/ Reuse(op) \/ Succeed(op) \/ Fail(op)

\* What a call that leaves a record does to the governor's counts.
LEMMA GovernorTypes ==
  ASSUME TypeInv, NEW op \in Ops,
         Reject(op) \/ Deny(op) \/ Block(op) \/ Reuse(op) \/ Succeed(op) \/ Fail(op)
  PROVE  /\ pc = "batch" /\ \E res \in Results : Record(op, res)
         /\ tests' \in Verdicts /\ seen' \subseteq Ops /\ done' \subseteq Ops /\ denied' \subseteq Ops
         /\ failures' \in [Ops -> Nat] /\ denials' \in Nat /\ stagnation' \in Nat
         /\ diagnosing' \in BOOLEAN /\ diagnosisIters' \in Nat /\ nudges' \in Nat
         /\ modified' \in BOOLEAN /\ dirty' \in BOOLEAN
<1> USE DEF TypeInv
<1>1. \A r \in {"ok", "cached", "failed", "blocked", "rejected", "denied"} : r \in Results
  BY DEF Results
<1>2. CASE Reject(op)
  BY <1>1, <1>2 DEF Reject, AgentTypeOK
<1>3. CASE Deny(op)
  BY <1>1, <1>3 DEF Deny, Checked, AgentTypeOK
<1>4. CASE Block(op)
  BY <1>1, <1>4 DEF Block, Allowed, Checked, AgentTypeOK, governorVars
<1>5. CASE Reuse(op)
  BY <1>1, <1>5 DEF Reuse, Allowed, Checked, AgentTypeOK, governorVars
<1>6. CASE Succeed(op)
  <2>1. tests' \in Verdicts
    BY <1>6 DEF Succeed, AgentTypeOK, Verdicts
  <2>2. failures' \in [Ops -> Nat] /\ diagnosisIters' \in Nat
    BY <1>6 DEF Succeed, AgentTypeOK
  <2>3. diagnosing' \in BOOLEAN /\ modified' \in BOOLEAN /\ dirty' \in BOOLEAN
    BY <1>6, Zenon DEF Succeed, AgentTypeOK
  <2>4. pc = "batch" /\ (\E res \in Results : Record(op, res)) /\ done' \subseteq Ops
    BY <1>1, <1>6 DEF Succeed, Runs, Allowed, Checked, AgentTypeOK
  <2>5. QED
    BY <1>6, <2>1, <2>2, <2>3, <2>4 DEF Succeed, AgentTypeOK
<1>7. CASE Fail(op)
  <2>1. tests' \in Verdicts
    BY <1>7 DEF Fail, AgentTypeOK, Verdicts
  <2>2. failures' \in [Ops -> Nat] /\ diagnosisIters' \in Nat
    BY <1>7 DEF Fail, AgentTypeOK
  <2>3. diagnosing' \in BOOLEAN
    BY <1>7, Zenon DEF Fail, AgentTypeOK
  <2>4. pc = "batch" /\ \E res \in Results : Record(op, res)
    BY <1>1, <1>7 DEF Fail, Runs, Allowed, Checked
  <2>5. QED
    BY <1>7, <2>1, <2>2, <2>3, <2>4 DEF Fail, AgentTypeOK
<1>8. QED
  BY <1>2, <1>3, <1>4, <1>5, <1>6, <1>7

\* The types survive a tool call, whatever becomes of it.
LEMMA CallTypes ==
  ASSUME TypeInv, NEW op \in Ops, CallStep(op)
  PROVE  TypeInv'
<1>1. CASE Malformed(op)
  <2>1. [op |-> op, tool |-> "unknown", res |-> "malformed"] \in CallType
    BY DEF CallType, Tools, Results
  <2>2. calls' \in Seq(CallType) /\ Len(calls') = Len(calls) + 1
    BY <1>1, <2>1, AppendProperties DEF Malformed, TypeInv, AgentTypeOK
  <2>3. batch' \in 0..MaxBatch /\ pc' \in {"batch", "closing"} /\ (pc' = "batch" => batch' > 0)
    BY <1>1, Limits DEF Malformed, TypeInv, AgentTypeOK, Control
  <2>4. QED
    BY <1>1, <2>2, <2>3 DEF Malformed, TypeInv, AgentTypeOK, Control, governorVars, Points
<1>2. CASE ~Malformed(op)
  <2>1. Reject(op) \/ Deny(op) \/ Block(op) \/ Reuse(op) \/ Succeed(op) \/ Fail(op)
    BY <1>2 DEF CallStep
  <2>2. PICK res \in Results : Record(op, res)
    BY <2>1, GovernorTypes
  <2>3. pc = "batch"
    BY <2>1, GovernorTypes
  <2>4. AgentTypeOK'
    <3>1. /\ iterations' = iterations /\ step' = step /\ goal' = goal /\ verified' = verified
          /\ answered' = answered /\ cancelled' = cancelled /\ lateRequests' = lateRequests
      BY <2>2 DEF Record
    <3>2. pc' \in Points /\ status' \in AgentStatus
      BY <2>2, <2>3, RecordTypes, Endings DEF Points, TypeInv, AgentTypeOK
    <3>3. QED
      BY <2>1, <2>2, <2>3, <3>1, <3>2, RecordTypes, GovernorTypes DEF TypeInv, AgentTypeOK
  <2>5. Control'
    BY <2>2, <2>3, RecordTypes DEF TypeInv, Control
  <2>6. QED
    BY <2>4, <2>5 DEF TypeInv
<1>3. QED
  BY <1>1, <1>2

\* The types survive the end of a run, where it is given its outcome.
LEMMA CloseTypes ==
  ASSUME TypeInv, Close
  PROVE  TypeInv'
<1>1. seen' \subseteq Ops
  BY FreshAreOps DEF Close, TypeInv, AgentTypeOK
<1>2. stagnation' \in Nat /\ diagnosisIters' \in Nat
  BY DEF Close, Stagnant, DiagnosisCount, TypeInv, AgentTypeOK
<1>3. \/ pc' = "ended" /\ status' = "FAILED" /\ error' \in Errors
      \/ pc' = "boundary" /\ UNCHANGED <<status, error>>
  BY DEF Close, Errors
<1>4. QED
  BY <1>1, <1>2, <1>3, Endings DEF Close, TypeInv, AgentTypeOK, Control, taskVars, Points

\* What a call tells the plan leaves it a plan of the same items.
LEMMA ToldPlan ==
  ASSUME TypeInv, NEW res \in Results
  PROVE  Told(res) \in Seq(TodoItems) /\ DOMAIN Told(res) = DOMAIN todos /\ Len(Told(res)) = Len(todos)
<1>1. todos \in Seq(TodoItems) /\ (res # "ok") \in BOOLEAN
  BY DEF TypeInv, AgentTypeOK
<1>2. Told(res) \in Seq(TodoItems) /\ DOMAIN Told(res) = DOMAIN todos
  BY <1>1, PlanKept DEF Told, ToolResult
<1>3. QED
  BY <1>1, <1>2

\* A script calls tools.
LEMMA ScriptTools ==
  ASSUME TypeInv, pc = "script"
  PROVE  /\ ScriptTool \in Tools
         /\ goal.flow = "push" => step \in 1..7 /\ ScriptTool = PushScript[step]
<1>1. {"read", "test"} \subseteq Tools
  BY DEF Tools
<1>2. goal.flow = "push" => step \in 1..7
  BY PushScriptTools DEF TypeInv, AgentTypeOK, Control
<1>3. CASE goal.flow = "push"
  BY <1>2, <1>3, PushScriptTools DEF ScriptTool
<1>4. CASE goal.flow # "push"
  BY <1>1, <1>4 DEF ScriptTool
<1>5. QED
  BY <1>2, <1>3, <1>4

\* Every step of a script is one call, which succeeds or fails.
LEMMA ScriptCalls ==
  ASSUME TypeInv, FlowStep
  PROVE  /\ pc = "script" /\ pc' \in {"script", "scripted", "aborted"}
         /\ \E res \in {"ok", "failed"} : FlowRecord(res)
         /\ tests' \in Verdicts
         /\ step' \in Nat /\ step' >= step
         /\ pc' = "script" => /\ step' > step /\ step' <= 7 + FlowReads
                              /\ goal.flow = "push" => step' <= 7
         /\ goal.flow # "none"
         /\ todos' \in Seq(TodoItems) /\ Len(todos') = Len(todos)
<1> USE DEF Playing
<1>1. step \in Nat /\ tests \in Verdicts /\ FlowReads \in Nat
  BY Limits DEF TypeInv, AgentTypeOK
<1>2. \A res \in {"ok", "failed"} : Told(res) \in Seq(TodoItems) /\ Len(Told(res)) = Len(todos)
  BY ToldPlan DEF Results
<1>3. \A plan \in Seq(TodoItems) : \A i :
         /\ StartItem(plan, i) \in Seq(TodoItems) /\ Len(StartItem(plan, i)) = Len(plan)
         /\ CompleteItem(plan, i) \in Seq(TodoItems) /\ Len(CompleteItem(plan, i)) = Len(plan)
         /\ FailItem(plan, i) \in Seq(TodoItems) /\ Len(FailItem(plan, i)) = Len(plan)
         /\ SkipItem(plan, i) \in Seq(TodoItems) /\ Len(SkipItem(plan, i)) = Len(plan)
  BY ItemMoves
<1>4. CASE PushGoesOn
  <2>1. PICK res \in {"ok", "failed"} : FlowRecord(res) /\ todos' = CompleteItem(Told(res), step)
    BY <1>4 DEF PushGoesOn, GoesOn
  <2>2. step \in 1..7
    BY <1>4, ScriptTools DEF PushGoesOn
  <2>3. QED
    BY <1>1, <1>2, <1>3, <1>4, <2>1, <2>2, PushScriptTools DEF PushGoesOn
<1>5. CASE PushSkips
  <2>1. step \in 1..7 /\ ScriptTool = PushScript[step]
    BY <1>5, ScriptTools DEF PushSkips
  <2>2. step < 6
    BY <1>5, <2>1, PushScriptTools DEF PushSkips
  <2>3. todos' \in Seq(TodoItems) /\ Len(todos') = Len(todos)
    BY <1>2, <1>3, <1>5 DEF PushSkips
  <2>4. QED
    BY <1>1, <1>5, <2>2, <2>3 DEF PushSkips
<1>6. CASE PushStops
  <2>1. PICK res \in {"ok", "failed"} : FlowRecord(res) /\ todos' = FailItem(Told(res), step)
    BY <1>6 DEF PushStops, StopsAt
  <2>2. QED
    BY <1>1, <1>2, <1>3, <1>6, <2>1 DEF PushStops
<1>7. CASE TestLists
  <2>1. PICK res \in {"ok", "failed"} :
           FlowRecord(res) /\ todos' \in {CompleteItem(Told(res), 1), SkipItem(Told(res), 1)}
    BY <1>7 DEF TestLists
  <2>2. QED
    BY <1>1, <1>2, <1>3, <1>7, <2>1 DEF TestLists
<1>8. CASE TestRuns
  <2>1. /\ pc = "script" /\ pc' \in {"scripted", "aborted"} /\ step' = 3 /\ step = 2
        /\ \E res \in {"ok", "failed"} : FlowRecord(res)
        /\ tests' \in Verdicts /\ goal.flow # "none"
    BY <1>1, <1>8 DEF TestRuns, Verdicts
  <2>2. todos' \in {CompleteItem(CompleteItem(Told("ok"), 2), 3), FailItem(Told("failed"), 2)}
    BY <1>8 DEF TestRuns
  <2>3. QED
    BY <1>2, <1>3, <2>1, <2>2
<1>9. CASE ExplainReads
  <2>1. \E res \in {"ok", "failed"} : \E plan \in {StartItem(CompleteItem(Told(res), 1), 2), Told(res)} :
           /\ FlowRecord(res)
           /\ \/ todos' = plan /\ pc' = pc
              \/ todos' = CompleteItem(CompleteItem(plan, 2), 3) /\ pc' = "scripted"
    BY <1>9, Zenon DEF ExplainReads
  <2>2. /\ \E res \in {"ok", "failed"} : FlowRecord(res)
        /\ pc' \in {pc, "scripted"}
        /\ \E plan \in Seq(TodoItems) :
              /\ Len(plan) = Len(todos)
              /\ todos' \in {plan, CompleteItem(CompleteItem(plan, 2), 3)}
    <3>1. PICK res \in {"ok", "failed"} : \E plan \in {StartItem(CompleteItem(Told(res), 1), 2), Told(res)} :
             /\ FlowRecord(res)
             /\ \/ todos' = plan /\ pc' = pc
                \/ todos' = CompleteItem(CompleteItem(plan, 2), 3) /\ pc' = "scripted"
      BY <2>1
    <3>2. PICK plan \in {StartItem(CompleteItem(Told(res), 1), 2), Told(res)} :
             /\ FlowRecord(res)
             /\ \/ todos' = plan /\ pc' = pc
                \/ todos' = CompleteItem(CompleteItem(plan, 2), 3) /\ pc' = "scripted"
      BY <3>1
    <3>3. plan \in Seq(TodoItems) /\ Len(plan) = Len(todos)
      BY <1>2, <1>3, <3>2
    <3>4. QED
      BY <3>2, <3>3
  <2>3. todos' \in Seq(TodoItems) /\ Len(todos') = Len(todos)
    BY <1>3, <2>1, <2>2
  <2>4. QED
    BY <1>1, <1>9, <2>1, <2>3 DEF ExplainReads
<1>10. QED
  BY <1>4, <1>5, <1>6, <1>7, <1>8, <1>9 DEF FlowStep

\* A script keeps the types.
LEMMA FlowTypes ==
  ASSUME TypeInv, FlowStep \/ FlowConcludes
  PROVE  TypeInv'
<1>1. CASE FlowStep
  <2>1. PICK res \in {"ok", "failed"} : FlowRecord(res)
    BY <1>1, ScriptCalls
  <2>2. ScriptTool \in Tools
    BY <1>1, ScriptCalls, ScriptTools
  <2>3. [op |-> Scripted, tool |-> ScriptTool, res |-> res] \in CallType
    BY <2>1, <2>2 DEF CallType, Ops, Results
  <2>4. calls' \in Seq(CallType) /\ Len(calls') = Len(calls) + 1
    BY <2>1, <2>3, AppendProperties DEF FlowRecord, TypeInv, AgentTypeOK
  <2>5. failing' \subseteq Tools /\ unrecovered' \in BOOLEAN
    BY <2>1, <2>2 DEF FlowRecord, TypeInv, AgentTypeOK
  <2>6. AgentTypeOK'
    BY <1>1, <2>1, <2>4, <2>5, ScriptCalls DEF FlowRecord, TypeInv, AgentTypeOK, Points, governorVars
  <2>7. Control'
    BY <1>1, <2>1, <2>4, ScriptCalls, PushScriptTools DEF FlowRecord, TypeInv, AgentTypeOK, Control
  <2>8. QED
    BY <2>6, <2>7 DEF TypeInv
<1>2. CASE FlowConcludes
  <2>1. todos' \in Seq(TodoItems)
    BY <1>2, PlanKept DEF FlowConcludes, TypeInv, AgentTypeOK
  <2>2. answered' \in BOOLEAN
    BY <1>2, Zenon DEF FlowConcludes, TypeInv, AgentTypeOK
  <2>3. /\ pc' \in {"boundary", "ended", "planning"}
        /\ status' \in AgentStatus /\ error' \in Errors
        /\ status' \in {"COMPLETED", "CANCELLED"} => pc' = "ended"
    BY <1>2 DEF FlowConcludes, TypeInv, AgentTypeOK, Control, AgentStatus, Errors
  <2>4. AgentTypeOK'
    BY <1>2, <2>1, <2>2, <2>3 DEF FlowConcludes, TypeInv, AgentTypeOK, Points, governorVars
  <2>5. Control'
    BY <1>2, <2>3 DEF FlowConcludes, TypeInv, Control
  <2>6. QED
    BY <2>4, <2>5 DEF TypeInv
<1>3. QED
  BY <1>1, <1>2

\* Every step is one of those of the head, the ends, the calls, the scripts and
\* the governor.
LEMMA NextSteps ==
  ASSUME [Next]_vars
  PROVE  \/ Cancel \/ Start \/ Plan \/ NextIteration \/ Prepare \/ ModelCalls \/ Nudge
         \/ EndingStep
         \/ \E op \in Ops : CallStep(op)
         \/ FlowStep \/ FlowConcludes
         \/ Close
         \/ UNCHANGED vars
BY Zenon DEF Next, LoopStep, ToolCall, CallStep, EndingStep

\* Every variable of the loop has its type: AgentState and AgentStats keep their shape
\* through run(), its early returns and its cancellations.
THEOREM AgentTypes == Spec => []AgentTypeOK
<1>1. TypeInv /\ [Next]_vars => TypeInv'
  <2>1. ASSUME TypeInv, UNCHANGED vars PROVE TypeInv'
    BY <2>1 DEF TypeInv, AgentTypeOK, Control, vars, taskVars, governorVars
  <2>2. QED
    BY <2>1, NextSteps, HeadTypes, EndingTypes, CallTypes, FlowTypes, CloseTypes
<1>2. TypeInv => AgentTypeOK
  BY DEF TypeInv
<1>3. QED
  BY <1>1, <1>2, InitTypes, PTL DEF Spec

---------------------------------------------------------------------------
(* The limits: budget, cancellation, governor *)

(* The budget is looked at before a request, and an answer has at most      *)
(* MaxBatch calls; a script comes first, and is not longer than its steps.   *)
BudgetKept ==
    /\ \/ spent <= BudgetCalls + MaxBatch
       \/ goal.flow # "none" /\ spent <= 7 + FlowReads
    /\ pc = "idle" => spent = 0
    /\ pc = "script" => spent < step /\ step <= 7 + FlowReads
    /\ pc = "calling" => spent <= BudgetCalls
    /\ pc = "batch" => spent + batch <= BudgetCalls + MaxBatch

(* A request sent after the cancellation belongs to the last iteration. *)
LateIsLast ==
    /\ lateRequests <= 1
    /\ lateRequests > 0 => cancelled /\ pc \notin {"idle", "prepare"}
    /\ status = "CANCELLED" => cancelled

(* Outside of an answer the governor's counts are below its limits. *)
GovernorKept ==
    pc \in {"idle", "script", "scripted", "planning", "boundary", "prepare", "calling"} =>
        /\ denials < DenialStop
        /\ stagnation < StagnationStop
        /\ diagnosing => diagnosisIters <= MaxDiagnosis

LimitInv == BudgetKept /\ LateIsLast /\ GovernorKept

\* The steps that end a run change none of the counts but the governor's.
LEMMA EndingCounts ==
  ASSUME EndingStep
  PROVE  /\ pc' = "ended"
         /\ UNCHANGED <<spent, lateRequests, cancelled, calls, unrecovered, failing,
                        tests, denials, goal, failures>>
         /\ status' = "CANCELLED" => StopCancelled
<1>1. CASE Exhaust
  BY <1>1 DEF Exhaust, End, governorVars
<1>2. CASE StopCancelled
  BY <1>2 DEF StopCancelled, End, governorVars
<1>3. CASE ModelFails
  BY <1>3 DEF ModelFails, End, governorVars
<1>4. CASE Answer
  BY <1>4 DEF Answer, Conclude, End, governorVars
<1>5. CASE CloseStagnant
  BY <1>5 DEF CloseStagnant, Recover, End
<1>6. CASE FlowAborts
  BY <1>6 DEF FlowAborts, End, governorVars
<1>7. QED
  BY <1>1, <1>2, <1>3, <1>4, <1>5, <1>6 DEF EndingStep

\* A call counts once, takes one of the calls that are left, and ends no run.
LEMMA CallCounts ==
  ASSUME TypeInv, NEW op \in Ops, CallStep(op)
  PROVE  /\ pc = "batch" /\ pc' \in {"batch", "closing"}
         /\ spent' = spent + 1 /\ batch' \in {0, batch - 1}
         /\ UNCHANGED <<cancelled, lateRequests, goal>>
         /\ status' \in {status, "FAILED"}
         /\ \E res \in Results : calls' = Append(calls, [op |-> op, tool |-> ToolOf(op), res |-> res])
<1>1. CASE Malformed(op)
  <2>1. ToolOf(op) = "unknown"
    BY <1>1, AgentAssumption DEF Malformed, ToolOf
  <2>2. QED
    BY <1>1, <2>1 DEF Malformed, Results
<1>2. CASE ~Malformed(op)
  <2>1. pc = "batch" /\ \E res \in Results : Record(op, res)
    BY <1>2, GovernorTypes DEF CallStep
  <2>2. QED
    BY <2>1 DEF Record
<1>3. QED
  BY <1>1, <1>2

\* No step takes a run past its budget of calls by more than one answer.
LEMMA BudgetStep ==
  ASSUME TypeInv, BudgetKept, [Next]_vars
  PROVE  BudgetKept'
<1>1. /\ spent \in Nat /\ batch \in Nat /\ BudgetCalls \in Nat /\ MaxBatch \in Nat
      /\ step \in Nat /\ FlowReads \in Nat
      /\ pc = "batch" => batch > 0
  BY Limits DEF TypeInv, AgentTypeOK, Control
<1>2. CASE Cancel \/ Plan \/ NextIteration \/ Nudge \/ FlowConcludes \/ Close \/ UNCHANGED vars
  BY <1>2 DEF BudgetKept, Cancel, Plan, NextIteration, Nudge, FlowConcludes, Close, vars, taskVars
<1>8. CASE Start
  <2>1. /\ pc = "idle" /\ pc' \in {"planning", "script"}
        /\ pc' = "script" => step' = 1
        /\ spent' = spent /\ goal' = goal
    BY <1>8 DEF Start
  <2>2. spent = 0
    BY <2>1 DEF BudgetKept
  <2>3. 0 <= BudgetCalls + MaxBatch /\ 1 <= 7 + FlowReads
    BY <1>1
  <2>4. QED
    BY <2>1, <2>2, <2>3 DEF BudgetKept
<1>9. CASE FlowStep
  <2>1. /\ spent' = spent + 1 /\ goal' = goal /\ goal.flow # "none"
        /\ pc = "script" /\ pc' \in {"script", "scripted", "aborted"}
        /\ pc' = "script" => step' > step /\ step' <= 7 + FlowReads
        /\ step' \in Nat
    BY <1>9, ScriptCalls DEF FlowRecord
  <2>2. spent < step /\ step <= 7 + FlowReads
    BY <2>1 DEF BudgetKept
  <2>3. spent' <= 7 + FlowReads /\ (pc' = "script" => spent' < step')
    BY <1>1, <2>1, <2>2
  <2>4. QED
    BY <2>1, <2>3 DEF BudgetKept
<1>3. CASE Prepare
  <2>1. /\ pc' \in {"ended", "calling"} /\ spent' = spent /\ goal' = goal
        /\ pc' = "calling" => spent <= BudgetCalls
    BY <1>3 DEF Prepare
  <2>2. QED
    BY <1>1, <2>1 DEF BudgetKept
<1>4. CASE ModelCalls
  <2>1. pc' = "batch" /\ spent' = spent /\ spent <= BudgetCalls /\ batch' \in 1..MaxBatch
    BY <1>4 DEF BudgetKept, ModelCalls
  <2>2. batch' \in Nat /\ batch' <= MaxBatch
    BY <1>1, <2>1
  <2>3. spent' + batch' <= BudgetCalls + MaxBatch
    <3>1. \A a, b, c, d \in Nat : a <= b /\ c <= d => a + c <= b + d
      OBVIOUS
    <3>2. spent' \in Nat /\ spent' <= BudgetCalls
      BY <1>1, <2>1
    <3>3. QED
      BY <1>1, <2>2, <3>1, <3>2
  <2>4. spent' <= BudgetCalls + MaxBatch
    BY <1>1, <2>1
  <2>5. QED
    BY <2>1, <2>3, <2>4 DEF BudgetKept
<1>5. CASE EndingStep
  BY <1>1, <1>5, EndingCounts DEF BudgetKept
<1>6. CASE \E op \in Ops : CallStep(op)
  <2>1. PICK op \in Ops : CallStep(op)
    BY <1>6
  <2>2. QED
    BY <1>1, <2>1, CallCounts DEF BudgetKept
<1>7. QED
  BY <1>2, <1>3, <1>4, <1>5, <1>6, <1>8, <1>9, NextSteps

\* After a cancellation the iteration under way sends at most one request.
LEMMA LateStep ==
  ASSUME TypeInv, LateIsLast, [Next]_vars
  PROVE  LateIsLast'
<1> USE DEF TypeInv, AgentTypeOK, Control, LateIsLast
<1>1. CASE Cancel \/ Start \/ Plan \/ NextIteration \/ Nudge \/ ModelCalls \/ FlowConcludes
           \/ Close \/ UNCHANGED vars
  BY <1>1 DEF Cancel, Start, Plan, NextIteration, Nudge, ModelCalls, FlowConcludes, Close, vars
<1>2. CASE Prepare
  BY <1>2 DEF Prepare
<1>3. CASE EndingStep
  BY <1>3, EndingCounts DEF StopCancelled
<1>4. CASE \E op \in Ops : CallStep(op)
  BY <1>4, CallCounts
<1>5. CASE FlowStep
  <2>1. /\ lateRequests' = lateRequests /\ cancelled' = cancelled /\ status' = status
        /\ pc' \in {"script", "scripted", "aborted"}
    BY <1>5, ScriptCalls DEF FlowRecord
  <2>2. QED
    BY <1>5, <2>1, ScriptCalls
<1>6. QED
  BY <1>1, <1>2, <1>3, <1>4, <1>5, NextSteps

\* No count of the governor is at its limit when the loop asks the model again.
LEMMA GovernorStep ==
  ASSUME TypeInv, GovernorKept, [Next]_vars
  PROVE  GovernorKept'
<1> USE Limits DEF TypeInv, AgentTypeOK, GovernorKept
<1>1. CASE Cancel \/ Start \/ Plan \/ NextIteration \/ Prepare \/ ModelCalls \/ Nudge
           \/ FlowConcludes \/ UNCHANGED vars
  BY <1>1 DEF Cancel, Start, Plan, NextIteration, Prepare, ModelCalls, Nudge, FlowConcludes,
     governorVars, vars
<1>5. CASE FlowStep
  BY <1>5, ScriptCalls DEF FlowRecord, governorVars
<1>2. CASE Close
  <2>1. CASE diagnosing /\ DiagnosisCount > MaxDiagnosis
    BY <1>2, <2>1 DEF Close
  <2>2. CASE ~(diagnosing /\ DiagnosisCount > MaxDiagnosis) /\ denials >= DenialStop
    BY <1>2, <2>2 DEF Close
  <2>3. CASE ~(diagnosing /\ DiagnosisCount > MaxDiagnosis) /\ ~(denials >= DenialStop)
    <3>1. stagnation' < StagnationStop
      BY <1>2 DEF Close
    <3>2. diagnosing' = diagnosing /\ diagnosisIters' = DiagnosisCount /\ denials' = denials
      BY <1>2 DEF Close
    <3>3. DiagnosisCount \in Nat
      BY DEF DiagnosisCount
    <3>4. denials' < DenialStop /\ (diagnosing' => diagnosisIters' <= MaxDiagnosis)
      BY <2>3, <3>2, <3>3
    <3>5. QED
      BY <3>1, <3>4
  <2>4. QED
    BY <2>1, <2>2, <2>3
<1>3. CASE EndingStep
  BY <1>3, EndingCounts
<1>4. CASE \E op \in Ops : CallStep(op)
  BY <1>4, CallCounts
<1>6. QED
  BY <1>1, <1>2, <1>3, <1>4, <1>5, NextSteps

\* The limits of a run: budget, cancellation, governor.
LEMMA LimitsHold == Spec => [](TypeInv /\ LimitInv)
<1>1. Init => TypeInv /\ LimitInv
  <2>1. Init => LimitInv
    BY Limits DEF Init, LimitInv, BudgetKept, LateIsLast, GovernorKept
  <2>2. QED
    BY <2>1, InitTypes
<1>2. TypeInv /\ LimitInv /\ [Next]_vars => TypeInv' /\ LimitInv'
  <2>1. ASSUME TypeInv, UNCHANGED vars PROVE TypeInv'
    BY <2>1 DEF TypeInv, AgentTypeOK, Control, vars, taskVars, governorVars
  <2>2. ASSUME TypeInv, [Next]_vars PROVE TypeInv'
    BY <2>1, <2>2, NextSteps, HeadTypes, EndingTypes, CallTypes, FlowTypes, CloseTypes
  <2>3. QED
    BY <2>2, BudgetStep, LateStep, GovernorStep DEF LimitInv
<1>3. QED
  BY <1>1, <1>2, PTL DEF Spec

\* The budget of calls is exceeded by one answer at most.
THEOREM AgentCallsBounded == Spec => []CallsBounded
<1>1. TypeInv /\ LimitInv => CallsBounded
  BY PushScriptTools DEF LimitInv, BudgetKept, CallsBounded
<1>2. QED
  BY <1>1, LimitsHold, PTL

\* A cancelled run sends one more request at most, and only a cancelled run
\* ends CANCELLED.
THEOREM AgentCancelIsPrompt == Spec => []CancelIsPrompt
<1>1. TypeInv /\ LimitInv => CancelIsPrompt
  BY DEF LimitInv, LateIsLast, CancelIsPrompt, TypeInv, AgentTypeOK
<1>2. QED
  BY <1>1, LimitsHold, PTL

\* No request is sent once a governor has had enough.
THEOREM AgentGovernorObeyed == Spec => []GovernorObeyed
<1>1. TypeInv /\ LimitInv => GovernorObeyed
  BY DEF LimitInv, GovernorKept, GovernorObeyed
<1>2. QED
  BY <1>1, LimitsHold, PTL

---------------------------------------------------------------------------
(* Failures *)

(* The last failure of the run is still among the calls, followed by denials *)
(* only, of which there are as many as the governor has counted at most.     *)
FailureAt(i) ==
    /\ ExecutionFailed(calls[i].res)
    /\ Len(calls) - i <= denials
    /\ \A j \in DOMAIN calls : j > i => ~Succeeded(calls[j].res)

FailureKept == unrecovered => \E i \in DOMAIN calls : FailureAt(i)

(* A tool whose last call in the history failed is known to be failing. *)
FailingKnown ==
    \A i \in DOMAIN calls :
        \/ calls[i].res \notin {"failed", "blocked", "rejected"}
        \/ calls[i].tool \in failing
        \/ \E j \in DOMAIN calls : /\ j > i /\ calls[j].tool = calls[i].tool
                                  /\ Succeeded(calls[j].res)

\* Compaction keeps the newest calls.
LEMMA CompactionSuffix ==
  ASSUME TypeInv, MayCompact
  PROVE  \E d \in Nat :
            /\ d <= Len(calls) /\ Len(calls') = Len(calls) - d
            /\ \A i \in DOMAIN calls' : i + d \in DOMAIN calls /\ calls'[i] = calls[i + d]
            /\ d = 0 \/ Len(calls') = KeepCalls
<1>1. calls \in Seq(CallType)
  BY DEF TypeInv, AgentTypeOK
<1>2. CASE calls' = calls
  BY <1>1, <1>2
<1>3. CASE Len(calls) > KeepCalls /\ calls' = LastCalls(KeepCalls)
  <2>1. /\ calls' \in Seq(CallType) /\ Len(calls') = KeepCalls
        /\ \A i \in 1..KeepCalls : calls'[i] = calls[Len(calls) - KeepCalls + i]
    BY <1>1, <1>3, Limits, NewestCalls
  <2>2. Len(calls) - KeepCalls \in Nat
    BY <1>1, <1>3, Limits
  <2>3. \A i \in DOMAIN calls' : /\ i + (Len(calls) - KeepCalls) \in DOMAIN calls
                                 /\ calls'[i] = calls[i + (Len(calls) - KeepCalls)]
    <3>1. DOMAIN calls' = 1..KeepCalls /\ DOMAIN calls = 1..Len(calls)
      BY <1>1, <2>1
    <3>2. \A i \in 1..KeepCalls : /\ i + (Len(calls) - KeepCalls) \in 1..Len(calls)
                                  /\ Len(calls) - KeepCalls + i = i + (Len(calls) - KeepCalls)
      BY <1>1, <2>2, Limits
    <3>3. QED
      BY <2>1, <3>1, <3>2
  <2>4. /\ Len(calls) - KeepCalls <= Len(calls)
        /\ Len(calls') = Len(calls) - (Len(calls) - KeepCalls)
    BY <1>1, <2>1, Limits
  <2>5. WITNESS Len(calls) - KeepCalls \in Nat
  <2>6. QED
    BY <2>1, <2>3, <2>4
<1>4. QED
  BY <1>2, <1>3 DEF MayCompact

\* What a call of the model or of a script leaves in the history, and what is
\* remembered of it.
CallOutcome(op, res, tool) ==
    /\ calls' = Append(calls, [op |-> op, tool |-> tool, res |-> res])
    /\ unrecovered' => ExecutionFailed(res) \/ (unrecovered /\ ~Succeeded(res))
    /\ res = "denied" => denials' = denials + 1
    /\ res \in {"failed", "blocked", "rejected"} => failing' = failing \cup {tool}
    /\ Succeeded(res) => failing' = failing \ {tool}
    /\ res \in {"denied", "malformed"} => failing' = failing

\* A tool call, run or refused, appends one result to the history.
LEMMA CallHistory ==
  ASSUME TypeInv, NEW op \in Ops, CallStep(op)
  PROVE  \E res \in Results, tool \in Tools : CallOutcome(op, res, tool)
<1> USE DEF CallOutcome
<1>1. CASE Malformed(op)
  <2>1. "malformed" \in Results /\ "unknown" \in Tools
    BY DEF Results, Tools
  <2>2. QED
    BY <1>1, <2>1 DEF Malformed, ExecutionFailed, Succeeded
<1>2. CASE ~Malformed(op)
  <2>1. \E res \in Results \ {"malformed"} : Record(op, res) /\ (res = "denied" => denials' = denials + 1)
    <3>1. \A r \in {"ok", "cached", "failed", "blocked", "rejected"} :
             r \in Results \ {"malformed"} /\ r # "denied"
      BY DEF Results
    <3>2. "denied" \in Results \ {"malformed"}
      BY DEF Results
    <3>3. CASE Deny(op)
      BY <3>2, <3>3 DEF Deny
    <3>4. CASE ~Deny(op)
      BY <1>2, <3>1, <3>4 DEF CallStep, Reject, Block, Reuse, Succeed, Fail
    <3>5. QED
      BY <3>3, <3>4
  <2>2. PICK res \in Results \ {"malformed"} : Record(op, res) /\ (res = "denied" => denials' = denials + 1)
    BY <2>1
  <2>3. calls' = Append(calls, [op |-> op, tool |-> ToolOf(op), res |-> res])
    BY <2>2 DEF Record
  <2>4. unrecovered' => ExecutionFailed(res) \/ (unrecovered /\ ~Succeeded(res))
    BY <2>2, Zenon DEF Record
  <2>5. /\ res \in {"failed", "blocked", "rejected"} => failing' = failing \cup {ToolOf(op)}
        /\ Succeeded(res) => failing' = failing \ {ToolOf(op)}
        /\ res = "denied" => failing' = failing
    BY <2>2 DEF Record, Succeeded, ExecutionFailed
  <2>6. QED
    BY <2>2, <2>3, <2>4, <2>5, ToolOfIsTool
<1>3. QED
  BY <1>1, <1>2

\* So does a call of a script.
LEMMA ScriptHistory ==
  ASSUME TypeInv, FlowStep
  PROVE  \E res \in Results, tool \in Tools : CallOutcome(Scripted, res, tool)
<1>1. PICK res \in {"ok", "failed"} : FlowRecord(res)
  BY ScriptCalls
<1>2. ScriptTool \in Tools /\ res \in Results
  BY ScriptCalls, ScriptTools DEF Results
<1>3. CallOutcome(Scripted, res, ScriptTool)
  BY <1>1 DEF CallOutcome, FlowRecord, ExecutionFailed, Succeeded
<1>4. QED
  BY <1>2, <1>3

\* ... and hence every call.
LEMMA AnyCall ==
  ASSUME TypeInv, (\E op \in Ops : CallStep(op)) \/ FlowStep
  PROVE  \E op \in Ops, res \in Results, tool \in Tools : CallOutcome(op, res, tool)
<1>1. Scripted \in Ops
  BY DEF Ops
<1>2. QED
  BY <1>1, CallHistory, ScriptHistory

\* A failure not made good stays one that the history shows.
LEMMA FailureStep ==
  ASSUME TypeInv, LimitInv, FailureKept, [Next]_vars
  PROVE  FailureKept'
<1>1. calls \in Seq(CallType) /\ Len(calls) \in Nat /\ DOMAIN calls = 1..Len(calls)
      /\ denials \in Nat
  BY DEF TypeInv, AgentTypeOK
<1>2. CASE UNCHANGED <<calls, unrecovered, denials>>
  BY <1>2 DEF FailureKept, FailureAt
<1>3. CASE Cancel \/ Start \/ Plan \/ NextIteration \/ ModelCalls \/ Nudge \/ FlowConcludes
           \/ Close \/ UNCHANGED vars
  BY <1>2, <1>3 DEF Cancel, Start, Plan, NextIteration, ModelCalls, Nudge, FlowConcludes, Close,
     vars, taskVars, governorVars
<1>4. CASE EndingStep
  BY <1>2, <1>4, EndingCounts
<1>5. CASE Prepare
  <2>1. unrecovered' = unrecovered /\ denials' = denials /\ denials < DenialStop /\ MayCompact
    BY <1>5 DEF Prepare, governorVars, LimitInv, GovernorKept
  <2>2. PICK d \in Nat :
            /\ d <= Len(calls) /\ Len(calls') = Len(calls) - d
            /\ \A i \in DOMAIN calls' : i + d \in DOMAIN calls /\ calls'[i] = calls[i + d]
            /\ d = 0 \/ Len(calls') = KeepCalls
    BY <2>1, CompactionSuffix
  <2>3. calls' \in Seq(CallType) /\ DOMAIN calls' = 1..Len(calls') /\ Len(calls') \in Nat
    BY <1>5, HeadTypes DEF TypeInv, AgentTypeOK
  <2>4. ASSUME NEW i \in DOMAIN calls, FailureAt(i)
        PROVE  i - d \in DOMAIN calls' /\ FailureAt(i - d)'
    <3>1. Len(calls) - i <= denials /\ i \in Nat /\ i <= Len(calls) /\ i >= 1
      BY <1>1, <2>4 DEF FailureAt
    <3>2. i - d \in 1..Len(calls')
      BY <1>1, <2>1, <2>2, <3>1, Limits
    <3>3. calls'[i - d] = calls[i]
      BY <2>2, <2>3, <3>1, <3>2
    <3>4. \A j \in DOMAIN calls' : j > i - d => j + d \in DOMAIN calls /\ j + d > i /\ calls'[j] = calls[j + d]
      BY <2>2, <2>3, <3>1
    <3>5. Len(calls') - (i - d) <= denials'
      BY <1>1, <2>1, <2>2, <3>1
    <3>6. QED
      BY <2>3, <2>4, <3>2, <3>3, <3>4, <3>5 DEF FailureAt
  <2>5. QED
    BY <2>1, <2>4 DEF FailureKept
<1>6. CASE (\E op \in Ops : CallStep(op)) \/ FlowStep
  <2>2. PICK op \in Ops, res \in Results, tool \in Tools : CallOutcome(op, res, tool)
    BY <1>6, AnyCall
  <2>3. /\ Len(calls') = Len(calls) + 1 /\ DOMAIN calls' = 1..Len(calls')
        /\ calls'[Len(calls')].res = res
        /\ \A j \in DOMAIN calls : calls'[j] = calls[j]
    BY <1>1, <2>2 DEF CallOutcome
  <2>4. denials' \in Nat
    BY <1>6, CallTypes, FlowTypes DEF TypeInv, AgentTypeOK
  <2>5. CASE ExecutionFailed(res)
    <3>1. Len(calls') \in DOMAIN calls' /\ Len(calls') - Len(calls') <= denials'
          /\ \A j \in DOMAIN calls' : ~(j > Len(calls'))
      BY <1>1, <2>3, <2>4
    <3>2. QED
      BY <2>3, <2>5, <3>1 DEF FailureKept, FailureAt
  <2>6. CASE ~ExecutionFailed(res) /\ unrecovered /\ ~Succeeded(res)
    <3>1. res = "denied"
      BY <2>6 DEF Results, ExecutionFailed, Succeeded
    <3>2. PICK i \in DOMAIN calls : FailureAt(i)
      BY <2>6 DEF FailureKept
    <3>3. i \in DOMAIN calls' /\ calls'[i] = calls[i] /\ i \in Nat
      BY <1>1, <2>3
    <3>4. Len(calls') - i <= denials'
      BY <1>1, <2>2, <2>3, <3>1, <3>2, <3>3 DEF FailureAt, CallOutcome
    <3>5. \A j \in DOMAIN calls' : j > i => ~Succeeded(calls'[j].res)
      BY <1>1, <2>3, <2>6, <3>2 DEF FailureAt
    <3>6. FailureAt(i)'
      BY <3>2, <3>3, <3>4, <3>5 DEF FailureAt
    <3>7. QED
      BY <3>3, <3>6 DEF FailureKept
  <2>7. CASE ~unrecovered'
    BY <2>7 DEF FailureKept
  <2>8. QED
    BY <2>2, <2>5, <2>6, <2>7 DEF CallOutcome
<1>7. QED
  BY <1>3, <1>4, <1>5, <1>6, NextSteps

\* A tool whose last call failed stays among the failing ones.
LEMMA FailingStep ==
  ASSUME TypeInv, FailingKnown, [Next]_vars
  PROVE  FailingKnown'
<1>1. calls \in Seq(CallType) /\ Len(calls) \in Nat /\ DOMAIN calls = 1..Len(calls)
  BY DEF TypeInv, AgentTypeOK
<1>2. CASE UNCHANGED <<calls, failing>>
  BY <1>2 DEF FailingKnown
<1>3. CASE Cancel \/ Start \/ Plan \/ NextIteration \/ ModelCalls \/ Nudge \/ FlowConcludes
           \/ Close \/ UNCHANGED vars
  BY <1>2, <1>3 DEF Cancel, Start, Plan, NextIteration, ModelCalls, Nudge, FlowConcludes, Close,
     vars, taskVars
<1>4. CASE EndingStep
  BY <1>2, <1>4, EndingCounts
<1>5. CASE Prepare
  <2>1. failing' = failing /\ MayCompact
    BY <1>5 DEF Prepare
  <2>2. PICK d \in Nat :
            /\ d <= Len(calls) /\ Len(calls') = Len(calls) - d
            /\ \A i \in DOMAIN calls' : i + d \in DOMAIN calls /\ calls'[i] = calls[i + d]
    BY <2>1, CompactionSuffix
  <2>3. DOMAIN calls' = 1..Len(calls') /\ Len(calls') \in Nat
    BY <1>5, HeadTypes DEF TypeInv, AgentTypeOK
  <2>4. ASSUME NEW i \in DOMAIN calls',
               NEW j \in DOMAIN calls, j > i + d, calls[j].tool = calls'[i].tool,
               Succeeded(calls[j].res)
        PROVE  \E k \in DOMAIN calls' : /\ k > i /\ calls'[k].tool = calls'[i].tool
                                       /\ Succeeded(calls'[k].res)
    <3>1. j - d \in DOMAIN calls' /\ j - d > i /\ (j - d) + d = j
      BY <1>1, <2>2, <2>3, <2>4
    <3>2. calls'[j - d] = calls[j]
      BY <2>2, <3>1
    <3>3. QED
      BY <2>4, <3>1, <3>2
  <2>5. QED
    BY <2>1, <2>2, <2>4 DEF FailingKnown
<1>6. CASE (\E op \in Ops : CallStep(op)) \/ FlowStep
  <2>2. PICK op \in Ops, res \in Results, tool \in Tools : CallOutcome(op, res, tool)
    BY <1>6, AnyCall
  <2>3. /\ Len(calls') = Len(calls) + 1 /\ DOMAIN calls' = 1..Len(calls')
        /\ calls'[Len(calls')].res = res /\ calls'[Len(calls')].tool = tool
        /\ \A j \in DOMAIN calls : j \in DOMAIN calls' /\ calls'[j] = calls[j] /\ j < Len(calls')
        /\ Len(calls') \in DOMAIN calls'
        /\ \A j \in DOMAIN calls' : j \in DOMAIN calls \/ j = Len(calls')
    BY <1>1, <2>2 DEF CallOutcome
  <2>4. \/ res \in {"failed", "blocked", "rejected"} /\ failing' = failing \cup {tool}
        \/ Succeeded(res) /\ failing' = failing \ {tool}
        \/ res \in {"denied", "malformed"} /\ failing' = failing
    BY <2>2 DEF Results, Succeeded, CallOutcome
  <2>5. ASSUME NEW i \in DOMAIN calls, calls[i].res \in {"failed", "blocked", "rejected"}
        PROVE  \/ calls[i].tool \in failing'
               \/ \E j \in DOMAIN calls' : /\ j > i /\ calls'[j].tool = calls[i].tool
                                          /\ Succeeded(calls'[j].res)
    <3>1. CASE \E j \in DOMAIN calls : /\ j > i /\ calls[j].tool = calls[i].tool
                                      /\ Succeeded(calls[j].res)
      BY <2>3, <3>1
    <3>2. CASE calls[i].tool \in failing
      <4>1. CASE Succeeded(res) /\ calls[i].tool = tool
        <5>1. Len(calls') > i
          BY <1>1, <2>3
        <5>2. QED
          BY <2>3, <4>1, <5>1
      <4>2. CASE ~(Succeeded(res) /\ calls[i].tool = tool)
        BY <2>4, <3>2, <4>2
      <4>3. QED
        BY <4>1, <4>2
    <3>3. QED
      BY <2>5, <3>1, <3>2 DEF FailingKnown
  <2>6. res \in {"failed", "blocked", "rejected"} => tool \in failing'
    BY <2>2 DEF CallOutcome
  <2>7. QED
    BY <2>3, <2>5, <2>6 DEF FailingKnown
<1>7. QED
  BY <1>3, <1>4, <1>5, <1>6, NextSteps

---------------------------------------------------------------------------
(* Scripts *)

(* A script begins with nothing done and changes no file.  Behind its step   *)
(* no item of its plan is open, and none ahead of it is skipped; "explain"   *)
(* works on its last two items until it is through.                         *)
Behind(i) == i < step /\ (goal.flow = "explain" => i = 1)

FlowKept ==
    /\ pc = "idle" => calls = <<>>
    /\ pc \in {"idle", "script", "scripted"} => error = "none" /\ verified = "none" /\ ~modified
    /\ pc \in {"script", "scripted"} =>
          /\ Len(todos) = IF goal.flow = "push" THEN 7 ELSE 3
          /\ \A i \in DOMAIN calls : calls[i].res \in {"ok", "failed"}
    /\ pc = "script" => \A i \in DOMAIN todos :
          /\ Behind(i) => ~IsOpen(todos[i])
          /\ todos[i].status = "SKIPPED" => i < step /\ goal.flow # "explain"
    /\ pc = "scripted" => \A i \in DOMAIN todos : ~IsOpen(todos[i])

Finished(item) == item.status \in {"COMPLETED", "SKIPPED"}

\* What a call tells the plan opens no item, skips none, and leaves the finished
\* ones alone.
LEMMA ToldItems ==
  ASSUME TypeInv, NEW res \in {"ok", "failed"}, NEW i \in DOMAIN todos
  PROVE  /\ i \in DOMAIN Told(res)
         /\ Told(res)[i].status \in TodoStatus
         /\ Finished(todos[i]) => Told(res)[i].status = todos[i].status
         /\ ~IsOpen(todos[i]) => ~IsOpen(Told(res)[i])
         /\ Told(res)[i].status = "SKIPPED" => todos[i].status = "SKIPPED"
<1>1. todos \in Seq(TodoItems) /\ todos[i] \in TodoItems
  BY ElementOfSeq DEF TypeInv, AgentTypeOK
<1>2. todos[i].status \in TodoStatus /\ \A s : [todos[i] EXCEPT !.status = s].status = s
  BY <1>1 DEF TodoItems
<1>3. i \in DOMAIN Told(res) /\ Told(res)[i].status \in {todos[i].status, StatusOnResult(todos[i], res # "ok")}
  BY <1>2 DEF Told, ToolResult
<1>4. StatusOnResult(todos[i], res # "ok") \in {todos[i].status, "FAILED", "IN_PROGRESS", "COMPLETED"}
  BY DEF StatusOnResult
<1>5. ~IsOpen(todos[i]) => StatusOnResult(todos[i], res # "ok") \in {todos[i].status, "FAILED", "COMPLETED"}
  BY DEF StatusOnResult, IsOpen
<1>6. Finished(todos[i]) => Told(res)[i] = todos[i]
  BY <1>1 DEF Told, ToolResult, Selected, Score, Finished
<1>7. QED
  BY <1>2, <1>3, <1>4, <1>5, <1>6 DEF IsOpen, TodoStatus

\* What one step of a script does to an item.
ItemInScript(i) ==
    /\ Finished(todos[i]) => todos'[i].status = todos[i].status
    /\ pc' = "script" =>
          /\ Behind(i)' => ~IsOpen(todos'[i])
          /\ todos'[i].status = "SKIPPED" => i < step' /\ goal.flow # "explain"
    /\ pc' = "scripted" => ~IsOpen(todos'[i])

\* A call of a script resolves the items behind its step and reopens none.
LEMMA ScriptItems ==
  ASSUME TypeInv, FlowKept, FlowStep, NEW i \in DOMAIN todos
  PROVE  ItemInScript(i)
<1> USE DEF Playing, Behind, ItemInScript, IsOpen, Finished
<1>1. /\ pc = "script" /\ step \in Nat /\ step > 0 /\ goal' = goal /\ i \in Nat /\ i > 0
      /\ i <= IF goal.flow = "push" THEN 7 ELSE 3
  <2>1. pc = "script" /\ goal' = goal
    BY ScriptCalls DEF FlowRecord
  <2>2. step \in Nat /\ step > 0 /\ todos \in Seq(TodoItems)
    BY <2>1 DEF TypeInv, AgentTypeOK, Control
  <2>3. DOMAIN todos = 1..Len(todos) /\ Len(todos) = IF goal.flow = "push" THEN 7 ELSE 3
    BY <2>1, <2>2 DEF FlowKept
  <2>4. QED
    BY <2>1, <2>2, <2>3
<1>2. /\ Behind(i) => ~IsOpen(todos[i])
      /\ todos[i].status = "SKIPPED" => i < step /\ goal.flow # "explain"
  BY <1>1 DEF FlowKept
<1>3. \A res \in {"ok", "failed"} :
         /\ Told(res) \in Seq(TodoItems) /\ i \in DOMAIN Told(res)
         /\ Finished(todos[i]) => Told(res)[i].status = todos[i].status
         /\ ~IsOpen(todos[i]) => ~IsOpen(Told(res)[i])
         /\ Told(res)[i].status = "SKIPPED" => todos[i].status = "SKIPPED"
  BY ToldItems, ToldPlan DEF Results
<1>4. CASE PushGoesOn
  <2>1. PICK res \in {"ok", "failed"} : todos' = CompleteItem(Told(res), step)
    BY <1>4 DEF PushGoesOn, GoesOn
  <2>2. todos'[i].status = IF i = step THEN "COMPLETED" ELSE Told(res)[i].status
    BY <1>3, <2>1, ItemEffects
  <2>3. /\ step' = step + 1 /\ goal.flow = "push"
        /\ pc' = "scripted" => step = 7
    BY <1>4, PushScriptTools DEF PushGoesOn
  <2>4. QED
    BY <1>1, <1>2, <1>3, <2>2, <2>3
<1>5. CASE PushSkips
  <2>1. pc' = "script" /\ step' = 6 /\ goal.flow = "push" /\ step \in 1..7 /\ ScriptTool = PushScript[step]
    BY <1>5, ScriptTools DEF PushSkips
  <2>2. CASE step = 3 /\ todos' = SkipItem(SkipItem(CompleteItem(Told("ok"), step), 4), 5)
    <3>1. /\ CompleteItem(Told("ok"), step) \in Seq(TodoItems)
          /\ i \in DOMAIN CompleteItem(Told("ok"), step)
          /\ SkipItem(CompleteItem(Told("ok"), step), 4) \in Seq(TodoItems)
          /\ i \in DOMAIN SkipItem(CompleteItem(Told("ok"), step), 4)
      BY <1>3, ItemMoves
    <3>2. CompleteItem(Told("ok"), step)[i].status = IF i = 3 THEN "COMPLETED" ELSE Told("ok")[i].status
      BY <1>3, <2>2, ItemEffects
    <3>3. SkipItem(CompleteItem(Told("ok"), step), 4)[i].status
             = IF i = 4 /\ IsOpen(CompleteItem(Told("ok"), step)[i]) THEN "SKIPPED"
               ELSE CompleteItem(Told("ok"), step)[i].status
      BY <3>1, ItemEffects
    <3>4. todos'[i].status
             = IF i = 5 /\ IsOpen(SkipItem(CompleteItem(Told("ok"), step), 4)[i]) THEN "SKIPPED"
               ELSE SkipItem(CompleteItem(Told("ok"), step), 4)[i].status
      BY <2>2, <3>1, ItemEffects
    <3>5. QED
      BY <1>1, <1>2, <1>3, <2>1, <2>2, <3>2, <3>3, <3>4
  <2>3. CASE step = 5 /\ todos' = SkipItem(Told("ok"), step)
    <3>1. todos'[i].status
             = IF i = 5 /\ IsOpen(Told("ok")[i]) THEN "SKIPPED" ELSE Told("ok")[i].status
      BY <1>3, <2>3, ItemEffects
    <3>2. QED
      BY <1>1, <1>2, <1>3, <2>1, <2>3, <3>1
  <2>4. QED
    BY <1>5, <2>1, <2>2, <2>3, PushScriptTools DEF PushSkips
<1>6. CASE PushStops
  <2>1. PICK res \in {"ok", "failed"} : todos' = FailItem(Told(res), step)
    BY <1>6 DEF PushStops, StopsAt
  <2>2. todos'[i].status
           = IF i = step /\ Told(res)[i].status \notin {"COMPLETED", "SKIPPED"}
             THEN "FAILED" ELSE Told(res)[i].status
    BY <1>3, <2>1, ItemEffects
  <2>3. pc' = "aborted"
    BY <1>6 DEF PushStops
  <2>4. QED
    BY <1>3, <2>2, <2>3
<1>7. CASE TestLists
  <2>1. PICK res \in {"ok", "failed"} : todos' \in {CompleteItem(Told(res), 1), SkipItem(Told(res), 1)}
    BY <1>7 DEF TestLists
  <2>2. \/ todos'[i].status = IF i = 1 THEN "COMPLETED" ELSE Told(res)[i].status
        \/ todos'[i].status = IF i = 1 /\ IsOpen(Told(res)[i]) THEN "SKIPPED" ELSE Told(res)[i].status
    BY <1>3, <2>1, ItemEffects
  <2>3. pc' = "script" /\ step = 1 /\ step' = 2 /\ goal.flow = "test"
    BY <1>7 DEF TestLists
  <2>4. QED
    BY <1>1, <1>2, <1>3, <2>2, <2>3
<1>8. CASE TestRuns
  <2>1. step = 2 /\ goal.flow = "test"
    BY <1>8 DEF TestRuns
  <2>2. CASE todos' = CompleteItem(CompleteItem(Told("ok"), 2), 3) /\ pc' = "scripted"
    <3>1. /\ CompleteItem(Told("ok"), 2) \in Seq(TodoItems)
          /\ i \in DOMAIN CompleteItem(Told("ok"), 2)
      BY <1>3, ItemMoves
    <3>2. CompleteItem(Told("ok"), 2)[i].status = IF i = 2 THEN "COMPLETED" ELSE Told("ok")[i].status
      BY <1>3, ItemEffects
    <3>3. todos'[i].status = IF i = 3 THEN "COMPLETED" ELSE CompleteItem(Told("ok"), 2)[i].status
      BY <2>2, <3>1, ItemEffects
    <3>4. QED
      BY <1>1, <1>2, <1>3, <2>1, <2>2, <3>2, <3>3
  <2>3. CASE todos' = FailItem(Told("failed"), 2) /\ pc' = "aborted"
    <3>1. todos'[i].status
             = IF i = 2 /\ Told("failed")[i].status \notin {"COMPLETED", "SKIPPED"}
               THEN "FAILED" ELSE Told("failed")[i].status
      BY <1>3, <2>3, ItemEffects
    <3>2. QED
      BY <1>3, <2>3, <3>1
  <2>4. QED
    BY <1>8, <2>2, <2>3 DEF TestRuns
<1>9. CASE ExplainReads
  <2>1. goal.flow = "explain" /\ step' = step + 1
    BY <1>9 DEF ExplainReads
  <2> DEFINE planned(res) == IF step = 1 THEN StartItem(CompleteItem(Told(res), 1), 2) ELSE Told(res)
  <2>2. PICK res \in {"ok", "failed"} :
           \/ todos' = planned(res) /\ pc' = pc
           \/ todos' = CompleteItem(CompleteItem(planned(res), 2), 3) /\ pc' = "scripted"
    BY <1>9 DEF ExplainReads
  <2> DEFINE plan == planned(res)
  <2>3. IF step = 1 THEN plan = StartItem(CompleteItem(Told(res), 1), 2) ELSE plan = Told(res)
    OBVIOUS
  <2> HIDE DEF planned, plan
  <2>4. /\ plan \in Seq(TodoItems) /\ i \in DOMAIN plan
        /\ todos[i].status = "COMPLETED" => plan[i].status = "COMPLETED"
        /\ plan[i].status # "SKIPPED"
        /\ i = 1 => ~IsOpen(plan[i])
    <3>1. todos[i].status # "SKIPPED" /\ Told(res)[i].status # "SKIPPED"
      BY <1>2, <1>3, <2>1
    <3>2. CASE step = 1 /\ plan = StartItem(CompleteItem(Told(res), 1), 2)
      <4>1. /\ CompleteItem(Told(res), 1) \in Seq(TodoItems)
            /\ i \in DOMAIN CompleteItem(Told(res), 1)
            /\ plan \in Seq(TodoItems) /\ i \in DOMAIN plan
        BY <1>3, <3>2, ItemMoves
      <4>2. CompleteItem(Told(res), 1)[i].status = IF i = 1 THEN "COMPLETED" ELSE Told(res)[i].status
        BY <1>3, ItemEffects
      <4>3. plan[i].status = IF i = 2 /\ CompleteItem(Told(res), 1)[i].status = "PENDING"
                             THEN "IN_PROGRESS" ELSE CompleteItem(Told(res), 1)[i].status
        BY <3>2, <4>1, ItemEffects
      <4>4. QED
        BY <1>3, <3>1, <4>1, <4>2, <4>3
    <3>3. CASE step # 1 /\ plan = Told(res)
      BY <1>1, <1>2, <1>3, <3>1, <3>3
    <3>4. QED
      BY <2>3, <3>2, <3>3
  <2>5. CASE todos' = plan /\ pc' = pc
    BY <1>1, <1>2, <2>1, <2>4, <2>5
  <2>6. CASE todos' = CompleteItem(CompleteItem(plan, 2), 3) /\ pc' = "scripted"
    <3>1. /\ CompleteItem(plan, 2) \in Seq(TodoItems)
          /\ i \in DOMAIN CompleteItem(plan, 2)
      BY <2>4, ItemMoves
    <3>2. CompleteItem(plan, 2)[i].status = IF i = 2 THEN "COMPLETED" ELSE plan[i].status
      BY <2>4, ItemEffects
    <3>3. todos'[i].status = IF i = 3 THEN "COMPLETED" ELSE CompleteItem(plan, 2)[i].status
      BY <2>6, <3>1, ItemEffects
    <3>4. QED
      BY <1>1, <1>2, <2>1, <2>4, <2>6, <3>2, <3>3
  <2>7. QED
    BY <2>2, <2>5, <2>6 DEF plan
<1>10. QED
  BY <1>4, <1>5, <1>6, <1>7, <1>8, <1>9 DEF FlowStep

\* The items of a workflow stay in step with its script.
LEMMA FlowStepKept ==
  ASSUME TypeInv, FlowKept, [Next]_vars
  PROVE  FlowKept'
<1>1. CASE Cancel \/ UNCHANGED vars
  BY <1>1 DEF FlowKept, Behind, Cancel, vars, taskVars, governorVars
<1>2. CASE Start
  <2>1. /\ calls' = calls /\ calls = <<>> /\ goal' = goal
        /\ UNCHANGED <<error, verified, modified>>
        /\ pc = "idle" /\ pc' \in {"planning", "script"}
        /\ pc' = "script" => todos' = FlowPlan(goal.flow) /\ step' = 1
    BY <1>2 DEF Start, FlowKept, governorVars
  <2>2. /\ FlowPlan(goal.flow) \in Seq(TodoItems)
        /\ Len(FlowPlan(goal.flow)) = IF goal.flow = "push" THEN 7 ELSE 3
        /\ \A i \in DOMAIN FlowPlan(goal.flow) : FlowPlan(goal.flow)[i].status = "PENDING"
    BY FlowPlanType
  <2>3. \A i \in DOMAIN FlowPlan(goal.flow) : ~(i < 1)
    BY <2>2
  <2>4. pc' = "script" => \A i \in DOMAIN todos' : ~Behind(i)' /\ todos'[i].status # "SKIPPED"
    BY <2>1, <2>2, <2>3 DEF Behind
  <2>5. \A i \in DOMAIN calls' : FALSE
    BY <2>1
  <2>6. QED
    BY <2>1, <2>2, <2>4, <2>5 DEF FlowKept
<1>3. CASE FlowStep
  <2>1. PICK res \in {"ok", "failed"} : FlowRecord(res)
    BY <1>3, ScriptCalls
  <2>2. /\ pc = "script" /\ pc' \in {"script", "scripted", "aborted"} /\ goal' = goal
        /\ UNCHANGED <<error, verified, modified>>
        /\ todos' \in Seq(TodoItems) /\ Len(todos') = Len(todos)
    BY <1>3, <2>1, ScriptCalls DEF FlowRecord, governorVars
  <2>3. DOMAIN todos' = DOMAIN todos
    BY <2>2 DEF TypeInv, AgentTypeOK
  <2>4. \A i \in DOMAIN calls' : calls'[i].res \in {"ok", "failed"}
    <3>1. calls' = Append(calls, [op |-> Scripted, tool |-> ScriptTool, res |-> res])
          /\ calls \in Seq(CallType)
      BY <2>1 DEF FlowRecord, TypeInv, AgentTypeOK
    <3>2. \A i \in DOMAIN calls' : (i \in DOMAIN calls /\ calls'[i] = calls[i]) \/ calls'[i].res = res
      BY <3>1
    <3>3. QED
      BY <2>2, <3>2 DEF FlowKept
  <2>5. \A i \in DOMAIN todos : ItemInScript(i)
    BY <1>3, ScriptItems
  <2>6. QED
    BY <2>2, <2>3, <2>4, <2>5 DEF FlowKept, ItemInScript
<1>4. CASE pc' \notin {"idle", "script", "scripted"}
  BY <1>4 DEF FlowKept
<1>5. CASE Plan \/ NextIteration \/ Prepare \/ ModelCalls \/ Nudge \/ EndingStep \/ FlowConcludes
           \/ Close \/ \E op \in Ops : CallStep(op)
  <2>1. EndingStep => pc' = "ended"
    BY EndingCounts
  <2>2. (\E op \in Ops : CallStep(op)) => pc' \in {"batch", "closing"}
    BY CallCounts
  <2>3. CASE Plan \/ NextIteration \/ Prepare \/ ModelCalls \/ Nudge \/ FlowConcludes \/ Close
    BY <1>4, <2>3 DEF Plan, NextIteration, Prepare, ModelCalls, Nudge, FlowConcludes, Close
  <2>4. QED
    BY <1>4, <1>5, <2>1, <2>2, <2>3
<1>6. QED
  BY <1>1, <1>2, <1>3, <1>5, NextSteps

\* A script that came through with nothing known to have failed completes its
\* task: it leaves no work that merely did not happen.
LEMMA ScriptIsDecided ==
  ASSUME TypeInv, FlowKept, FailingKnown, pc = "scripted", failing = {}, NEW said,
         ~HasFailedTodo(ReconcileRunning(todos, Evidence(verified)))
  PROVE  CanComplete(goal.kind, ReconcileRunning(todos, Evidence(verified)), calls, said,
                     tests, verified, error)
<1> DEFINE final == ReconcileRunning(todos, Evidence(verified))
<1>1. /\ todos \in Seq(TodoItems) /\ calls \in Seq(CallType)
      /\ \A i \in DOMAIN todos : ~IsOpen(todos[i])
      /\ \A i \in DOMAIN calls : calls[i].res \in {"ok", "failed"}
      /\ error = "none" /\ verified = "none" /\ Len(todos) > 0
  <2>1. todos \in Seq(TodoItems) /\ calls \in Seq(CallType)
    BY DEF TypeInv, AgentTypeOK
  <2>2. /\ \A i \in DOMAIN todos : ~IsOpen(todos[i])
        /\ \A i \in DOMAIN calls : calls[i].res \in {"ok", "failed"}
        /\ error = "none" /\ verified = "none"
    BY DEF FlowKept
  <2>3. Len(todos) = IF goal.flow = "push" THEN 7 ELSE 3
    BY DEF FlowKept
  <2>4. QED
    BY <2>1, <2>2, <2>3
<1>2. DOMAIN final = DOMAIN todos /\ \A i \in DOMAIN todos : final[i] = todos[i]
  BY <1>1 DEF ReconcileRunning
<1>3. \A i \in DOMAIN final : final[i].status \in {"COMPLETED", "SKIPPED"}
  <2>1. \A i \in DOMAIN todos : todos[i].status \in TodoStatus
    <3>1. \A i \in DOMAIN todos : todos[i] \in TodoItems
      BY <1>1, ElementOfSeq
    <3>2. QED
      BY <3>1 DEF TodoItems
  <2>2. QED
    BY <1>1, <1>2, <2>1 DEF HasFailedTodo, IsOpen, TodoStatus
<1>4. ~UnresolvedFailure(calls)
  <2>1. ASSUME NEW i \in DOMAIN calls, ExecutionFailed(calls[i].res)
        PROVE  \E j \in DOMAIN calls : j > i /\ Succeeded(calls[j].res)
    <3>1. calls[i].res = "failed"
      BY <1>1, <2>1 DEF ExecutionFailed
    <3>2. QED
      BY <3>1 DEF FailingKnown
  <2>2. QED
    BY <2>1 DEF UnresolvedFailure
<1>5. final # <<>>
  BY <1>1, <1>2
<1>6. HasEvidence(goal.kind, final, calls, said, tests)
  BY <1>3, <1>5 DEF HasEvidence
<1>7. QED
  BY <1>1, <1>3, <1>4, <1>6 DEF CanComplete

---------------------------------------------------------------------------
(* Honest endings *)

\* A run that has ended changes nothing of its outcome.
LEMMA EndedStays ==
  ASSUME TypeInv, pc = "ended", [Next]_vars
  PROVE  UNCHANGED <<pc, status, error, todos, calls, unrecovered, modified, dirty, verified>>
<1>1. \A op \in Ops : ~CallStep(op)
  BY CallCounts
<1>2. ~FlowStep
  BY ScriptCalls
<1>3. ~EndingStep
  BY DEF EndingStep, Exhaust, StopCancelled, ModelFails, Answer, CloseStagnant, FlowAborts
<1>4. Cancel \/ UNCHANGED vars
  BY <1>1, <1>2, <1>3, NextSteps DEF Start, Plan, NextIteration, Prepare, ModelCalls, Nudge,
     FlowConcludes, Close
<1>5. QED
  BY <1>4 DEF Cancel, vars, taskVars, governorVars

\* Only an answer, a script and the recovery of a stagnant run complete a task,
\* and only an answer, a script and the end of the iterations leave it PARTIAL.
LEMMA GoodEndings ==
  ASSUME TypeInv, pc # "ended", [Next]_vars, status' \in {"COMPLETED", "PARTIAL"},
         status # "PARTIAL"
  PROVE  \/ Answer \/ FlowConcludes
         \/ status' = "COMPLETED" /\ CloseStagnant
         \/ status' = "PARTIAL" /\ Exhaust
<1>1. status \notin {"COMPLETED", "PARTIAL"}
  BY DEF TypeInv, Control
<1>2. ~(Cancel \/ Start \/ Plan \/ NextIteration \/ Prepare \/ ModelCalls \/ Nudge \/ Close
        \/ UNCHANGED vars)
  BY <1>1 DEF Cancel, Start, Plan, NextIteration, Prepare, ModelCalls, Nudge, Close, vars
<1>3. ~StopCancelled /\ ~ModelFails /\ ~FlowAborts
  BY DEF StopCancelled, ModelFails, FlowAborts, End
<1>4. Exhaust => status' # "COMPLETED"
  BY DEF Exhaust, End
<1>5. CloseStagnant => status' # "PARTIAL"
  BY DEF CloseStagnant, Recover, End
<1>6. \A op \in Ops : ~CallStep(op)
  BY <1>1, CallCounts
<1>7. ~FlowStep
  BY <1>1, ScriptCalls DEF FlowRecord
<1>8. QED
  BY <1>2, <1>3, <1>4, <1>5, <1>6, <1>7, NextSteps DEF EndingStep

\* What the gate lets through is complete.
LEMMA GateIsHonest ==
  ASSUME TypeInv, FailureKept, NEW plan, NEW ver \in Verdicts, NEW said,
         Verify(ver), ~(Checks /\ ver = "no"), todos' = plan, error' = "none",
         UNCHANGED <<modified, unrecovered>>,
         CanComplete(goal.kind, plan, calls, said, tests, ver, error)
  PROVE  HonestCompletion'
<1>1. \A i \in DOMAIN plan : plan[i].status \in {"COMPLETED", "SKIPPED"}
  BY DEF CanComplete
<1>2. ~UnresolvedFailure(calls)
  BY DEF CanComplete
<1>3. ~unrecovered
  BY <1>2 DEF FailureKept, FailureAt, UnresolvedFailure
<1>4. VerifyOnComplete /\ modified => ~dirty' /\ verified' = "yes"
  BY DEF Verify, VerdictsNow, Checks
<1>5. QED
  BY <1>1, <1>3, <1>4 DEF HonestCompletion

\* No step makes a run COMPLETED over a failure not made good or an item left open.
LEMMA CompletionStep ==
  ASSUME TypeInv, FailureKept, FlowKept, HonestCompletion, PartialIsHonest, [Next]_vars
  PROVE  HonestCompletion'
<1>1. CASE status' # "COMPLETED"
  BY <1>1 DEF HonestCompletion
<1>2. CASE status' = "COMPLETED" /\ pc = "ended"
  BY <1>2, EndedStays DEF HonestCompletion
<1>3. CASE status' = "COMPLETED" /\ pc # "ended" /\ Answer
  <2>1. \E plan : \E ver \in Verdicts : \E said : Verify(ver) /\ Conclude(plan, ver, said)
    BY <1>3 DEF Answer, End
  <2>2. PICK plan, ver, said : ver \in Verdicts /\ Verify(ver) /\ Conclude(plan, ver, said)
    BY <2>1
  <2>3. /\ ~(Checks /\ ver = "no") /\ todos' = ReconcileRunning(plan, Evidence(ver))
        /\ CanComplete(goal.kind, todos', calls, said, tests, ver, error)
        /\ error' = error /\ unrecovered' = unrecovered
    BY <1>3, <2>2 DEF Conclude, End
  <2>4. error = "none" /\ modified' = modified
    BY <1>3, <2>3 DEF Answer, governorVars, CanComplete
  <2>5. QED
    BY <2>2, <2>3, <2>4, GateIsHonest
<1>4. CASE status' = "COMPLETED" /\ pc # "ended" /\ CloseStagnant
  <2>1. \E ver \in Verdicts : Recover(ver)
    BY <1>4 DEF CloseStagnant, End
  <2>2. PICK ver \in Verdicts : Recover(ver)
    BY <2>1
  <2>3. /\ ~(Checks /\ ver = "no") /\ Verify(ver)
        /\ CanComplete(goal.kind, todos', calls, answered, tests, ver, error)
        /\ error' = "none" /\ unrecovered' = unrecovered
    BY <1>4, <2>2 DEF Recover, End
  <2>4. modified' = modified
    BY <1>4 DEF CloseStagnant
  <2>5. QED
    BY <2>3, <2>4, GateIsHonest
<1>5. CASE status' = "COMPLETED" /\ pc # "ended" /\ FlowConcludes
  <2> DEFINE final == ReconcileRunning(todos, Evidence(verified))
             pushed == answered \/ goal.flow = "push"
  <2>1. /\ pc = "scripted" /\ status # "COMPLETED"
        /\ error = "none" /\ verified \in Verdicts /\ ~modified /\ dirty \in BOOLEAN
    BY <1>5 DEF FlowConcludes, FlowKept, TypeInv, Control, AgentTypeOK
  <2>2. /\ todos' = final /\ error' = "none"
        /\ CanComplete(goal.kind, final, calls, pushed, tests, verified, error)
        /\ UNCHANGED <<verified, dirty, modified, unrecovered>>
    BY <1>5, <2>1 DEF FlowConcludes, governorVars
  <2>3. ~Checks /\ Verify(verified)
    BY <2>1, <2>2 DEF Checks, Verify, VerdictsNow
  <2>4. QED
    BY <2>1, <2>2, <2>3, GateIsHonest
<1>6. status = "PARTIAL" => pc = "ended"
  BY DEF PartialIsHonest
<1>7. QED
  BY <1>1, <1>2, <1>3, <1>4, <1>5, <1>6, GoodEndings

\* No step makes a run PARTIAL over an item or a tool that failed.
LEMMA PartialStep ==
  ASSUME TypeInv, FlowKept, FailingKnown, PartialIsHonest, [Next]_vars
  PROVE  PartialIsHonest'
<1>1. CASE status' # "PARTIAL"
  BY <1>1 DEF PartialIsHonest
<1>2. CASE status' = "PARTIAL" /\ pc = "ended"
  BY <1>2, EndedStays DEF PartialIsHonest, HasFailedTodo
<1>3. CASE status' = "PARTIAL" /\ pc # "ended"
  <2>1. status # "PARTIAL"
    BY <1>3 DEF PartialIsHonest
  <2>2. ~FlowConcludes
    <3>1. FlowConcludes => /\ pc = "scripted"
                           /\ ~HasFailedTodo(ReconcileRunning(todos, Evidence(verified)))
                           /\ failing = {}
                           /\ ~CanComplete(goal.kind, ReconcileRunning(todos, Evidence(verified)),
                                           calls, answered \/ goal.flow = "push", tests,
                                           verified, error)
      BY <1>3, <2>1 DEF FlowConcludes
    <3>2. QED
      BY <3>1, ScriptIsDecided
  <2>3. failing = {} /\ ~HasFailedTodo(todos') /\ calls' = calls /\ pc' = "ended"
    <3>1. CASE Exhaust
      BY <1>3, <3>1 DEF Exhaust, End
    <3>2. CASE Answer
      BY <1>3, <3>2 DEF Answer, Conclude, End
    <3>3. QED
      BY <1>3, <2>1, <2>2, <3>1, <3>2, GoodEndings
  <2>4. QED
    BY <2>3 DEF FailingKnown, PartialIsHonest, HasFailedTodo
<1>4. QED
  BY <1>1, <1>2, <1>3

Honest == FailureKept /\ FailingKnown /\ FlowKept /\ HonestCompletion /\ PartialIsHonest

\* The invariant behind both: outcomes are what the history bears out.
LEMMA HonestyHolds == Spec => []Honest
<1>1. Init => Honest
  BY DEF Init, Honest, FailureKept, FailingKnown, FlowKept, HonestCompletion, PartialIsHonest
<1>2. TypeInv /\ LimitInv /\ Honest /\ [Next]_vars => Honest'
  BY FailureStep, FailingStep, FlowStepKept, CompletionStep, PartialStep DEF Honest
<1>3. QED
  BY <1>1, <1>2, LimitsHold, PTL DEF Spec

\* A COMPLETED task is complete: its plan is resolved, its last failure made
\* good, its last change verified.
THEOREM AgentCompletionIsHonest == Spec => []HonestCompletion
<1>1. Honest => HonestCompletion
  BY DEF Honest
<1>2. QED
  BY <1>1, HonestyHolds, PTL

\* Nothing in a PARTIAL task is known to have failed.
THEOREM AgentPartialIsHonest == Spec => []PartialIsHonest
<1>1. Honest => PartialIsHonest
  BY DEF Honest
<1>2. QED
  BY <1>1, HonestyHolds, PTL

---------------------------------------------------------------------------
(* Finished items *)

\* Only the failure of the run touches a finished item, and no skipped one.
LEMMA FinishedKept ==
  ASSUME NEW plan \in Seq(TodoItems), NEW i \in DOMAIN plan, Finished(plan[i])
  PROVE  /\ \A tool, failed : ToolResult(ToolStarted(plan, tool), tool, failed)[i] = plan[i]
         /\ \A b : SkipOpen(plan, b)[i] = plan[i]
         /\ \A ev : ReconcileRunning(plan, ev)[i] = plan[i]
         /\ \A ev : \/ ReconcileFailed(plan, ev)[i] = plan[i]
                    \/ /\ plan[i].status = "COMPLETED"
                       /\ ReconcileFailed(plan, ev)[i].status = "FAILED"
                       /\ ev.verified # "yes" /\ ev.tests # "yes"
<1>1. plan[i] \in TodoItems
  BY ElementOfSeq
<1>2. \A tool : i \in DOMAIN ToolStarted(plan, tool) /\ ToolStarted(plan, tool)[i] = plan[i]
  BY DEF ToolStarted, Finished
<1>3. \A tool, failed : ToolResult(ToolStarted(plan, tool), tool, failed)[i] = plan[i]
  BY <1>2 DEF ToolResult, Selected, Score, Finished
<1>4. \A b : SkipOpen(plan, b)[i] = plan[i]
  BY DEF SkipOpen, IsOpen, Finished
<1>5. \A ev : ReconcileRunning(plan, ev)[i] = plan[i]
  BY DEF ReconcileRunning, IsOpen, Finished
<1>6. ASSUME NEW ev
      PROVE  \/ ReconcileFailed(plan, ev)[i] = plan[i]
             \/ /\ plan[i].status = "COMPLETED"
                /\ ReconcileFailed(plan, ev)[i].status = "FAILED"
                /\ ev.verified # "yes" /\ ev.tests # "yes"
  BY <1>1 DEF ReconcileFailed, IsOpen, Finished, TodoItems
<1>7. QED
  BY <1>3, <1>4, <1>5, <1>6

ItemKept(i) ==
    /\ todos[i].status = "SKIPPED" => todos'[i].status = "SKIPPED"
    /\ todos[i].status = "COMPLETED" =>
          \/ todos'[i].status = "COMPLETED"
          \/ /\ todos'[i].status = "FAILED" /\ status' \in {"FAILED", "PAUSED"}
             /\ verified' # "yes" /\ tests' # "yes"

\* A finished item is undone only in a run that ends badly without proof.
THEOREM AgentTodosNotReopened == Spec => TodosNotReopened
<1>1. ASSUME TypeInv, FlowKept, [Next]_vars, NEW i \in DOMAIN todos, Finished(todos[i])
      PROVE  ItemKept(i)
  <2>1. todos \in Seq(TodoItems)
    BY <1>1 DEF TypeInv, AgentTypeOK
  <2>2. CASE todos'[i] = todos[i]
    BY <2>2 DEF ItemKept
  <2>3. CASE Start
    BY <1>1, <2>3 DEF Start, TypeInv, Control
  <2>4. CASE Cancel \/ NextIteration \/ Prepare \/ ModelCalls \/ Nudge \/ Exhaust \/ StopCancelled
             \/ FlowAborts \/ Close \/ UNCHANGED vars
    BY <2>2, <2>4 DEF Cancel, NextIteration, Prepare, ModelCalls, Nudge, Exhaust, StopCancelled,
       FlowAborts, Close, vars, taskVars
  <2>5. CASE \E op \in Ops : CallStep(op)
    <3>1. PICK op \in Ops : CallStep(op)
      BY <2>5
    <3>2. CASE Malformed(op)
      BY <2>2, <3>2 DEF Malformed
    <3>3. CASE ~Malformed(op)
      <4>1. PICK res \in Results : Record(op, res)
        BY <1>1, <3>1, <3>3, GovernorTypes DEF CallStep
      <4>2. todos' = ToolResult(ToolStarted(todos, ToolOf(op)), ToolOf(op), ExecutionFailed(res))
        BY <4>1 DEF Record
      <4>3. QED
        BY <1>1, <2>1, <2>2, <4>2, FinishedKept
    <3>4. QED
      BY <3>2, <3>3
  <2>6. CASE ModelFails
    <3>1. /\ todos' = ReconcileFailed(todos, Evidence(verified))
          /\ status' \in {"FAILED", "PAUSED"} /\ verified' = verified /\ tests' = tests
      BY <2>6 DEF ModelFails, End
    <3>2. Evidence(verified).verified = verified /\ Evidence(verified).tests = tests
      BY DEF Evidence
    <3>3. QED
      BY <1>1, <2>1, <2>2, <3>1, <3>2, FinishedKept DEF ItemKept
  <2>7. CASE CloseStagnant
    <3>1. todos' = todos \/ \E ver : todos' = ReconcileRunning(todos, Evidence(ver))
      BY <2>7 DEF CloseStagnant, Recover
    <3>2. QED
      BY <1>1, <2>1, <2>2, <3>1, FinishedKept
  <2>8. CASE Answer
    <3> DEFINE plan == SkipOpen(todos, ~goal.canWork \/ goal.readOnly)
    <3>2. plan \in Seq(TodoItems) /\ DOMAIN plan = DOMAIN todos /\ plan[i] = todos[i]
      <4>1. goal.canWork \in BOOLEAN /\ goal.readOnly \in BOOLEAN
        BY <1>1, AgentAssumption DEF TypeInv, AgentTypeOK, GoalType
      <4>2. (~goal.canWork \/ goal.readOnly) \in BOOLEAN
        BY <4>1
      <4>3. plan \in Seq(TodoItems) /\ DOMAIN plan = DOMAIN todos
        BY <2>1, <4>2, PlanKept DEF SkipOpen
      <4>4. plan[i] = todos[i]
        BY <1>1, <2>1, FinishedKept
      <4>5. QED
        BY <4>3, <4>4
    <3>3. \/ todos' = plan
          \/ \E ver \in Verdicts : \E said : Verify(ver) /\ Conclude(plan, ver, said)
      BY <2>8 DEF Answer
    <3>4. ASSUME NEW ver \in Verdicts, NEW said, Verify(ver), Conclude(plan, ver, said)
          PROVE  ItemKept(i)
      <4>1. \/ todos' = ReconcileRunning(plan, Evidence(ver))
            \/ /\ todos' = ReconcileFailed(plan, Evidence(ver)) /\ status' = "FAILED"
               /\ verified' = ver /\ tests' = tests
        BY <3>4 DEF Conclude, End, Verify
      <4>2. Evidence(ver).verified = ver /\ Evidence(ver).tests = tests
        BY DEF Evidence
      <4>3. i \in DOMAIN plan /\ Finished(plan[i])
        BY <1>1, <3>2
      <4>4. CASE todos' = ReconcileRunning(plan, Evidence(ver))
        BY <2>2, <3>2, <4>3, <4>4, FinishedKept
      <4>5. CASE /\ todos' = ReconcileFailed(plan, Evidence(ver)) /\ status' = "FAILED"
                 /\ verified' = ver /\ tests' = tests
        BY <2>2, <3>2, <4>2, <4>3, <4>5, FinishedKept DEF ItemKept
      <4>6. QED
        BY <4>1, <4>4, <4>5
    <3>5. QED
      BY <2>2, <3>2, <3>3, <3>4
  <2>9. CASE Plan
    <3>1. NewPlan(goal.plan) \in Seq(TodoItems) /\ <<>> \in Seq(TodoItems)
      BY <1>1, AgentAssumption, NewPlanType DEF TypeInv, AgentTypeOK, GoalType
    <3>2. PICK plan \in Seq(TodoItems) : todos' = todos \o plan
      BY <2>9, <3>1 DEF Plan
    <3>3. todos'[i] = todos[i]
      BY <1>1, <2>1, <3>2
    <3>4. QED
      BY <2>2, <3>3
  <2>10. CASE FlowStep
    BY <1>1, <2>10, ScriptItems DEF ItemInScript, ItemKept
  <2>11. CASE FlowConcludes
    <3>1. todos' = ReconcileRunning(todos, Evidence(verified))
      BY <2>11 DEF FlowConcludes
    <3>2. QED
      BY <1>1, <2>1, <2>2, <3>1, FinishedKept
  <2>12. QED
    BY <1>1, <2>3, <2>4, <2>5, <2>6, <2>7, <2>8, <2>9, <2>10, <2>11, NextSteps DEF EndingStep
<1>2. TypeInv /\ FlowKept /\ [Next]_vars =>
         [\A i \in DOMAIN todos :
             /\ todos[i].status = "SKIPPED" => todos'[i].status = "SKIPPED"
             /\ todos[i].status = "COMPLETED" =>
                   \/ todos'[i].status = "COMPLETED"
                   \/ /\ todos'[i].status = "FAILED" /\ status' \in {"FAILED", "PAUSED"}
                      /\ verified' # "yes" /\ tests' # "yes"]_vars
  BY <1>1 DEF ItemKept, Finished
<1>3. Honest => FlowKept
  BY DEF Honest
<1>4. QED
  BY <1>2, <1>3, LimitsHold, HonestyHolds, PTL DEF Spec, TodosNotReopened
---------------------------------------------------------------------------
(* Retries *)

(* The failures of an operation in a stretch i..j of a history, and what     *)
(* makes up for them: a change of a file, or a success of its own.          *)
Failures(s, op, i, j) ==
    {k \in DOMAIN s \cap (i..j) : s[k].op = op /\ s[k].res = "failed"}
Remedied(s, op, i, j) ==
    \E k \in i..j : s[k].res = "ok" /\ (s[k].tool = "edit" \/ s[k].op = op)

(* The failures that nothing has made up for since are counted, and no count *)
(* passes its limit, as an operation that has reached it does not run.      *)
CountsKept ==
    \A op \in Asked :
        /\ failures[op] <= RepeatBlock
        /\ \A i \in DOMAIN calls :
              \/ Remedied(calls, op, i, Len(calls))
              \/ Cardinality(Failures(calls, op, i, Len(calls))) <= failures[op]

(* So no stretch of the history without a remedy has more failures.          *)
StretchesKept ==
    \A op \in Asked : \A i, j \in DOMAIN calls :
        Remedied(calls, op, i, j) \/ Cardinality(Failures(calls, op, i, j)) <= RepeatBlock

RetryInv == CountsKept /\ StretchesKept

\* There are finitely many failures in a stretch.
LEMMA FailuresCounted ==
  ASSUME NEW s, NEW op, NEW i \in Int, NEW j \in Int
  PROVE  /\ IsFiniteSet(Failures(s, op, i, j))
         /\ Cardinality(Failures(s, op, i, j)) \in Nat
<1>1. IsFiniteSet(i..j)
  BY FS_Interval
<1>2. IsFiniteSet(Failures(s, op, i, j))
  <2>1. Failures(s, op, i, j) \in SUBSET (i..j)
    BY DEF Failures
  <2>2. QED
    BY <1>1, <2>1, FS_Subset
<1>3. QED
  BY <1>2, FS_CardinalityType

\* t is what is left of s without its first d elements.
IsTail(t, s, d) == Len(t) = Len(s) - d /\ \A k \in DOMAIN t : t[k] = s[k + d]

\* A compaction moves the calls that it keeps, and with them their failures.
LEMMA CompactionMoves ==
  ASSUME NEW s \in Seq(CallType), NEW t \in Seq(CallType),
         NEW d \in Nat, IsTail(t, s, d),
         NEW op, NEW i \in DOMAIN t, NEW j \in DOMAIN t
  PROVE  /\ Remedied(s, op, i + d, j + d) => Remedied(t, op, i, j)
         /\ Cardinality(Failures(t, op, i, j)) = Cardinality(Failures(s, op, i + d, j + d))
<1> DEFINE S == Failures(s, op, i + d, j + d)
           T == Failures(t, op, i, j)
           f == [k \in S |-> k - d]
<1>1. /\ DOMAIN s = 1..Len(s) /\ Len(s) \in Nat
      /\ DOMAIN t = 1..Len(t) /\ Len(t) \in Nat
      /\ Len(t) = Len(s) - d /\ \A k \in DOMAIN t : t[k] = s[k + d]
  BY DEF IsTail
<1>2. \A k \in (i + d)..(j + d) : k - d \in i..j /\ k - d \in DOMAIN t /\ (k - d) + d = k
  BY <1>1
<1>3. \A k \in i..j : k \in DOMAIN t /\ k + d \in DOMAIN s /\ k + d \in (i + d)..(j + d)
  BY <1>1
<1>4. \A k \in (i + d)..(j + d) : t[k - d] = s[k]
  BY <1>1, <1>2
<1>5. Remedied(s, op, i + d, j + d) => Remedied(t, op, i, j)
  BY <1>2, <1>4 DEF Remedied
<1>6. \A k \in S : k \in Int /\ k - d \in T
  BY <1>1, <1>2, <1>4 DEF Failures
<1>7. \A k \in T : k \in Int /\ k + d \in S
  BY <1>1, <1>3 DEF Failures
<1>8. f \in Bijection(S, T)
  <2>1. f \in [S -> T]
    BY <1>6
  <2>2. \A x, y \in S : f[x] = f[y] => x = y
    <3>1. \A x, y \in S : x - d = y - d => x = y
      BY <1>6
    <3>2. QED
      BY <3>1
  <2>3. \A y \in T : \E x \in S : f[x] = y
    <3>1. \A y \in T : y + d \in S /\ (y + d) - d = y
      BY <1>7
    <3>2. QED
      BY <3>1
  <2>4. DOMAIN f = S
    OBVIOUS
  <2> HIDE DEF S, T, f
  <2>5. QED
    BY <2>1, <2>2, <2>3, <2>4, Zenon DEF Bijection, Injection, Surjection, IsInjective
<1>9. IsFiniteSet(S)
  BY <1>1, FailuresCounted
<1>10. Cardinality(T) = Cardinality(S)
  <2> HIDE DEF S, T, f
  <2>1. ExistsBijection(S, T)
    BY <1>8 DEF ExistsBijection
  <2>2. QED
    BY <1>9, <2>1, FS_Bijection
<1>11. QED
  BY <1>5, <1>10

\* A new call leaves the stretches before it as they were.
LEMMA StretchBefore ==
  ASSUME NEW s \in Seq(CallType), NEW c \in CallType,
         NEW op, NEW i \in DOMAIN s, NEW j \in DOMAIN s
  PROVE  /\ Failures(Append(s, c), op, i, j) = Failures(s, op, i, j)
         /\ Remedied(s, op, i, j) => Remedied(Append(s, c), op, i, j)
<1> DEFINE t == Append(s, c)
<1>1. \A k \in i..j : k \in DOMAIN s /\ k \in DOMAIN t /\ t[k] = s[k]
  OBVIOUS
<1> HIDE DEF t
<1>2. Failures(t, op, i, j) = Failures(s, op, i, j) /\ (Remedied(s, op, i, j) => Remedied(t, op, i, j))
  BY <1>1 DEF Failures, Remedied
<1>3. QED
  BY <1>2 DEF t

\* A new call goes on with the stretches that reach the end of the history: it
\* adds a failure to those of its operation if it failed, and none to others.
LEMMA StretchGrows ==
  ASSUME NEW s \in Seq(CallType), NEW c \in CallType,
         NEW op, NEW i \in DOMAIN Append(s, c)
  PROVE  LET t == Append(s, c)
         IN  /\ i \in DOMAIN s /\ Remedied(s, op, i, Len(s)) => Remedied(t, op, i, Len(t))
             /\ c.res = "ok" /\ (c.tool = "edit" \/ c.op = op) => Remedied(t, op, i, Len(t))
             /\ i \notin DOMAIN s => Failures(s, op, i, Len(s)) = {}
             /\ Cardinality(Failures(t, op, i, Len(t)))
                   = Cardinality(Failures(s, op, i, Len(s)))
                        + (IF c.op = op /\ c.res = "failed" THEN 1 ELSE 0)
<1> DEFINE t == Append(s, c)
           n == Len(s)
<1>1. /\ n \in Nat /\ Len(t) = n + 1 /\ DOMAIN s = 1..n /\ DOMAIN t = 1..(n + 1)
      /\ t[n + 1] = c /\ \A k \in 1..n : t[k] = s[k]
  OBVIOUS
<1> HIDE DEF t, n
<1>2. /\ i \in 1..(n + 1)
      /\ \A k : k \in i..(n + 1) <=> k \in i..n \/ k = n + 1
      /\ n + 1 \notin i..n /\ \A k \in i..n : k \in 1..n
  BY <1>1 DEF t
<1>3. i \in 1..n /\ Remedied(s, op, i, n) => Remedied(t, op, i, n + 1)
  BY <1>1, <1>2 DEF Remedied
<1>4. c.res = "ok" /\ (c.tool = "edit" \/ c.op = op) => Remedied(t, op, i, n + 1)
  BY <1>1, <1>2 DEF Remedied
<1>5. i \notin 1..n => Failures(s, op, i, n) = {}
  BY <1>1, <1>2 DEF Failures
<1>6. \A k : k \in Failures(t, op, i, n + 1) <=>
               \/ k \in Failures(s, op, i, n)
               \/ k = n + 1 /\ c.op = op /\ c.res = "failed"
  BY <1>1, <1>2 DEF Failures
<1>7. n + 1 \notin Failures(s, op, i, n)
  BY <1>2 DEF Failures
<1>8. IsFiniteSet(Failures(s, op, i, n)) /\ Cardinality(Failures(s, op, i, n)) \in Nat
  <2>1. i \in Int /\ n \in Int
    BY <1>1, <1>2
  <2>2. QED
    BY <2>1, FailuresCounted
<1>9. Cardinality(Failures(t, op, i, n + 1))
         = Cardinality(Failures(s, op, i, n)) + (IF c.op = op /\ c.res = "failed" THEN 1 ELSE 0)
  <2>1. CASE c.op = op /\ c.res = "failed"
    <3>1. Failures(t, op, i, n + 1) = Failures(s, op, i, n) \cup {n + 1}
      BY <1>6, <2>1
    <3>2. Cardinality(Failures(t, op, i, n + 1)) = Cardinality(Failures(s, op, i, n)) + 1
      BY <1>7, <1>8, <3>1, FS_AddElement
    <3>3. QED
      BY <2>1, <3>2
  <2>2. CASE ~(c.op = op /\ c.res = "failed")
    <3>1. Failures(t, op, i, n + 1) = Failures(s, op, i, n)
      BY <1>6, <2>2
    <3>2. QED
      BY <1>8, <2>2, <3>1
  <2>3. QED
    BY <2>1, <2>2
<1>10. QED
  BY <1>1, <1>3, <1>4, <1>5, <1>9 DEF t, n
\* What a call does to the counts: a failure is counted, for an operation that
\* has not reached the limit; a success clears its own count, or all of them;
\* no other call, and none of a script, touches one.
CallOnCounts(c) ==
    /\ calls' = Append(calls, c)
    /\ \/ failures' = failures /\ (c.res = "failed" => c.op \notin Asked)
       \/ /\ c.res = "failed" /\ c.op \in Ops /\ failures[c.op] < RepeatBlock
          /\ failures' = [failures EXCEPT ![c.op] = @ + 1]
       \/ /\ c.res = "ok"
          /\ \A o \in Ops : \/ failures'[o] = failures[o]
                            \/ failures'[o] = 0 /\ (c.tool = "edit" \/ c.op = o)

\* A failed call is counted for its operation; a success clears counts, and adds to none.
LEMMA CallsCounted ==
  ASSUME TypeInv, NEW op \in Ops, CallStep(op)
  PROVE  \E c \in CallType : CallOnCounts(c)
<1>1. failures \in [Ops -> Nat]
  BY DEF TypeInv, AgentTypeOK
<1>2. \A res \in Results : [op |-> op, tool |-> ToolOf(op), res |-> res] \in CallType
  BY ToolOfIsTool DEF CallType
<1>3. \A r \in {"ok", "cached", "failed", "blocked", "rejected", "denied", "malformed"} : r \in Results
  BY DEF Results
<1>4. CASE Malformed(op)
  <2>1. [op |-> op, tool |-> "unknown", res |-> "malformed"] \in CallType
    BY <1>3 DEF CallType, Tools
  <2>2. QED
    BY <1>4, <2>1 DEF Malformed, CallOnCounts, governorVars
<1>5. CASE Reject(op) \/ Deny(op) \/ Block(op) \/ Reuse(op)
  <2>1. PICK res \in {"cached", "blocked", "rejected", "denied"} : Record(op, res) /\ failures' = failures
    BY <1>5 DEF Reject, Deny, Block, Reuse, governorVars
  <2>2. [op |-> op, tool |-> ToolOf(op), res |-> res] \in CallType
    BY <1>2, <1>3
  <2>3. calls' = Append(calls, [op |-> op, tool |-> ToolOf(op), res |-> res])
    BY <2>1 DEF Record
  <2>4. QED
    BY <2>1, <2>2, <2>3 DEF CallOnCounts
<1>6. CASE Succeed(op)
  <2> DEFINE c == [op |-> op, tool |-> ToolOf(op), res |-> "ok"]
  <2>1. c \in CallType /\ c.res = "ok" /\ c.tool = ToolOf(op) /\ c.op = op
    BY <1>2, <1>3
  <2>2. calls' = Append(calls, c)
    BY <1>6 DEF Succeed, Record
  <2>3. op \in Edits => ToolOf(op) = "edit"
    BY AgentAssumption DEF ToolOf
  <2>4. \A o \in Ops : \/ failures'[o] = failures[o]
                       \/ failures'[o] = 0 /\ (ToolOf(op) = "edit" \/ op = o)
    BY <1>1, <1>6, <2>3 DEF Succeed
  <2>5. CallOnCounts(c)
    BY <2>1, <2>2, <2>4 DEF CallOnCounts
  <2>6. QED
    BY <2>1, <2>5
<1>7. CASE Fail(op)
  <2> DEFINE c == [op |-> op, tool |-> ToolOf(op), res |-> "failed"]
  <2>1. c \in CallType /\ c.res = "failed" /\ c.op = op
    BY <1>2, <1>3
  <2>2. calls' = Append(calls, c)
    BY <1>7 DEF Fail, Record
  <2>3. failures[op] < RepeatBlock /\ failures' = [failures EXCEPT ![op] = @ + 1]
    BY <1>7 DEF Fail, Runs
  <2>4. CallOnCounts(c)
    BY <2>1, <2>2, <2>3 DEF CallOnCounts
  <2>5. QED
    BY <2>1, <2>4
<1>8. QED
  BY <1>4, <1>5, <1>6, <1>7 DEF CallStep

\* A call of a script enters the history and no count.
LEMMA ScriptNotCounted ==
  ASSUME TypeInv, FlowStep
  PROVE  \E c \in CallType : CallOnCounts(c)
<1>1. PICK res \in {"ok", "failed"} : FlowRecord(res)
  BY ScriptCalls
<1>2. ScriptTool \in Tools /\ res \in Results /\ Scripted \in Ops /\ Scripted \notin Asked
  BY ScriptCalls, ScriptTools, AgentAssumption DEF Results, Ops
<1> DEFINE c == [op |-> Scripted, tool |-> ScriptTool, res |-> res]
<1>3. c \in CallType /\ c.op = Scripted
  BY <1>2 DEF CallType
<1>4. calls' = Append(calls, c) /\ failures' = failures
  BY <1>1 DEF FlowRecord, governorVars
<1>5. CallOnCounts(c)
  BY <1>2, <1>3, <1>4 DEF CallOnCounts
<1>6. QED
  BY <1>3, <1>5

\* The counts follow the history of calls.
LEMMA CountedCall ==
  ASSUME TypeInv, RetryInv, NEW c \in CallType, CallOnCounts(c), failures' \in [Ops -> Nat]
  PROVE  RetryInv'
<1>1. /\ calls \in Seq(CallType) /\ failures \in [Ops -> Nat]
      /\ \A op \in Asked : op \in Ops /\ failures[op] \in Nat /\ failures'[op] \in Nat
      /\ RepeatBlock \in Nat
  BY Limits DEF TypeInv, AgentTypeOK, Ops
<1> DEFINE t == Append(calls, c)
<1>2. /\ calls' = t /\ Len(t) = Len(calls) + 1 /\ Len(calls) \in Nat
      /\ DOMAIN calls = 1..Len(calls) /\ DOMAIN t = 1..(Len(calls) + 1)
  BY <1>1 DEF CallOnCounts
<1>3. ASSUME NEW op \in Asked
      PROVE  /\ failures'[op] <= RepeatBlock
             /\ \A i \in DOMAIN t : \/ Remedied(t, op, i, Len(t))
                                    \/ Cardinality(Failures(t, op, i, Len(t))) <= failures'[op]
  <2>1. /\ failures[op] <= RepeatBlock
        /\ \A i \in DOMAIN calls :
              \/ Remedied(calls, op, i, Len(calls))
              \/ Cardinality(Failures(calls, op, i, Len(calls))) <= failures[op]
    BY <1>3 DEF RetryInv, CountsKept
  <2>2. \/ /\ failures'[op] = failures[op]
           /\ ~(c.op = op /\ c.res = "failed")
        \/ /\ failures'[op] = failures[op] + 1 /\ failures[op] < RepeatBlock
           /\ c.op = op /\ c.res = "failed"
        \/ c.res = "ok" /\ failures'[op] = 0 /\ (c.tool = "edit" \/ c.op = op)
    BY <1>1, <1>3 DEF CallOnCounts
  <2>3. ASSUME NEW i \in DOMAIN t, ~Remedied(t, op, i, Len(t))
        PROVE  Cardinality(Failures(t, op, i, Len(t))) <= failures'[op]
    <3> DEFINE k == Cardinality(Failures(calls, op, i, Len(calls)))
    <3>1. k \in Nat /\ k <= failures[op]
      <4>1. i \in Int /\ Len(calls) \in Int
        BY <1>2
      <4>2. CASE i \in DOMAIN calls
        BY <1>1, <2>1, <2>3, <4>1, <4>2, StretchGrows, FailuresCounted
      <4>3. CASE i \notin DOMAIN calls
        <5>1. k = 0
          BY <1>1, <4>3, StretchGrows, FS_EmptySet
        <5>2. QED
          BY <1>1, <5>1
      <4>4. QED
        BY <4>2, <4>3
    <3>2. ~(c.res = "ok" /\ (c.tool = "edit" \/ c.op = op))
      BY <1>1, <2>3, StretchGrows
    <3>3. Cardinality(Failures(t, op, i, Len(t)))
             = k + (IF c.op = op /\ c.res = "failed" THEN 1 ELSE 0)
      BY <1>1, StretchGrows
    <3> HIDE DEF k
    <3>4. QED
      BY <1>1, <2>2, <3>1, <3>2, <3>3
  <2>4. failures'[op] <= RepeatBlock
    BY <1>1, <2>1, <2>2
  <2>5. QED
    BY <2>3, <2>4
<1>4. CountsKept'
  BY <1>2, <1>3 DEF CountsKept
<1>5. ASSUME NEW op \in Asked, NEW i \in DOMAIN t, NEW j \in DOMAIN t
      PROVE  Remedied(t, op, i, j) \/ Cardinality(Failures(t, op, i, j)) <= RepeatBlock
  <2>1. i \in Int /\ j \in Int
    BY <1>2
  <2>2. CASE j = Len(t)
    <3>1. Cardinality(Failures(t, op, i, j)) \in Nat
      BY <2>1, FailuresCounted
    <3>2. QED
      BY <1>1, <1>3, <2>2, <3>1
  <2>3. CASE j # Len(t) /\ i = Len(t)
    <3>1. i..j = {}
      BY <1>2, <2>3
    <3>2. Failures(t, op, i, j) = {}
      BY <3>1 DEF Failures
    <3>3. QED
      BY <1>1, <3>2, FS_EmptySet
  <2>4. CASE j # Len(t) /\ i # Len(t)
    <3>1. i \in DOMAIN calls /\ j \in DOMAIN calls
      BY <1>2, <2>4
    <3>2. Remedied(calls, op, i, j) \/ Cardinality(Failures(calls, op, i, j)) <= RepeatBlock
      BY <1>5, <3>1 DEF RetryInv, StretchesKept
    <3>3. QED
      BY <1>1, <3>1, <3>2, StretchBefore
  <2>5. QED
    BY <2>2, <2>3, <2>4
<1>6. StretchesKept'
  BY <1>2, <1>5 DEF StretchesKept
<1>7. QED
  BY <1>4, <1>6 DEF RetryInv

\* Compaction cuts the history to a suffix and leaves the counts, which stay true.
LEMMA CountedCompaction ==
  ASSUME TypeInv, TypeInv', RetryInv, MayCompact, failures' = failures
  PROVE  RetryInv'
<1>1. calls \in Seq(CallType) /\ calls' \in Seq(CallType)
  BY DEF TypeInv, AgentTypeOK
<1>2. PICK d \in Nat :
          /\ Len(calls') = Len(calls) - d
          /\ \A i \in DOMAIN calls' : i + d \in DOMAIN calls /\ calls'[i] = calls[i + d]
  BY CompactionSuffix
<1>3. ASSUME NEW op \in Asked, NEW i \in DOMAIN calls', NEW j \in DOMAIN calls'
      PROVE  /\ i + d \in DOMAIN calls /\ j + d \in DOMAIN calls
             /\ Remedied(calls, op, i + d, j + d) => Remedied(calls', op, i, j)
             /\ Cardinality(Failures(calls', op, i, j)) = Cardinality(Failures(calls, op, i + d, j + d))
  <2>1. IsTail(calls', calls, d)
    BY <1>2 DEF IsTail
  <2>2. i + d \in DOMAIN calls /\ j + d \in DOMAIN calls
    BY <1>2
  <2>3. QED
    BY <1>1, <2>1, <2>2, CompactionMoves
<1>4. \A i \in DOMAIN calls' : Len(calls') \in DOMAIN calls' /\ Len(calls') + d = Len(calls)
  BY <1>1, <1>2
<1>5. CountsKept'
  BY <1>3, <1>4 DEF RetryInv, CountsKept
<1>6. StretchesKept'
  BY <1>3 DEF RetryInv, StretchesKept
<1>7. QED
  BY <1>5, <1>6 DEF RetryInv

\* So every step keeps the history within the counts.
LEMMA RetryStep ==
  ASSUME TypeInv, TypeInv', RetryInv, [Next]_vars
  PROVE  RetryInv'
<1>1. CASE UNCHANGED <<calls, failures>>
  BY <1>1 DEF RetryInv, CountsKept, StretchesKept
<1>2. CASE Cancel \/ Start \/ Plan \/ NextIteration \/ ModelCalls \/ Nudge \/ FlowConcludes
           \/ Close \/ UNCHANGED vars
  BY <1>1, <1>2 DEF Cancel, Start, Plan, NextIteration, ModelCalls, Nudge, FlowConcludes, Close,
     vars, taskVars, governorVars
<1>3. CASE EndingStep
  BY <1>1, <1>3, EndingCounts
<1>4. CASE Prepare
  BY <1>4, CountedCompaction DEF Prepare, governorVars
<1>5. CASE (\E op \in Ops : CallStep(op)) \/ FlowStep
  <2>1. PICK c \in CallType : CallOnCounts(c)
    BY <1>5, CallsCounted, ScriptNotCounted
  <2>2. failures' \in [Ops -> Nat]
    BY DEF TypeInv, AgentTypeOK
  <2>3. QED
    BY <2>1, <2>2, CountedCall
<1>6. QED
  BY <1>2, <1>3, <1>4, <1>5, NextSteps

\* An operation that failed as often as it may does not fail again before a file
\* is changed or it has succeeded.
THEOREM AgentNoBlindRetry == Spec => []NoBlindRetry
<1>1. Init => RetryInv
  <2>1. ASSUME Init PROVE calls = <<>> /\ \A op \in Asked : failures[op] = 0
    BY <2>1 DEF Init, Ops
  <2>2. QED
    BY <2>1, Limits DEF RetryInv, CountsKept, StretchesKept
<1>2. TypeInv /\ RetryInv => NoBlindRetry
  <2>1. ASSUME TypeInv, RetryInv, NEW op \in Asked, NEW i \in FailedAt(op), NEW j \in FailedAt(op),
               Cardinality(FailedAt(op) \cap (i..j)) > RepeatBlock
        PROVE  \E k \in i..j : /\ calls[k].res = "ok"
                               /\ (calls[k].tool = "edit" \/ calls[k].op = op)
    <3>1. FailedAt(op) \cap (i..j) = Failures(calls, op, i, j)
      BY DEF FailedAt, Failures
    <3>2. i \in DOMAIN calls /\ j \in DOMAIN calls
      BY DEF FailedAt
    <3>3. Remedied(calls, op, i, j) \/ Cardinality(Failures(calls, op, i, j)) <= RepeatBlock
      BY <2>1, <3>2 DEF RetryInv, StretchesKept
    <3>4. Cardinality(Failures(calls, op, i, j)) \in Nat
      <4>1. i \in Int /\ j \in Int
        BY <2>1, <3>2 DEF TypeInv, AgentTypeOK
      <4>2. QED
        BY <4>1, FailuresCounted
    <3>5. CASE Remedied(calls, op, i, j)
      BY <3>5 DEF Remedied
    <3>6. CASE Cardinality(Failures(calls, op, i, j)) <= RepeatBlock
      <4>1. ~(Cardinality(Failures(calls, op, i, j)) > RepeatBlock)
        BY <3>4, <3>6, Limits
      <4>2. QED
        BY <2>1, <3>1, <4>1
    <3>7. QED
      BY <3>3, <3>5, <3>6
  <2>2. QED
    BY <2>1 DEF NoBlindRetry
<1>3. QED
  BY <1>1, <1>2, RetryStep, LimitsHold, PTL DEF Spec
---------------------------------------------------------------------------
(* The end of the run                                                        *)

(* The calls that the script of a workflow has still to make, at most, and   *)
(* four steps for what follows the last.                                     *)
ScriptLeft ==
    LET n == CASE goal.flow = "push" -> Len(PushScript) + 5 - step
               [] goal.flow = "test" -> 7 - step
               [] OTHER              -> FlowReads + 6 - step
    IN IF n > 4 THEN n ELSE 4

(* The steps of the loop until the end or the head of the next iteration.    *)
HereLeft ==
    CASE pc = "ended"    -> 0
      [] pc = "aborted"  -> 1
      [] pc = "boundary" -> 1
      [] pc = "closing"  -> 2
      [] pc = "batch"    -> 2 + batch
      [] pc = "calling"  -> 3 + MaxBatch
      [] pc = "prepare"  -> 4 + MaxBatch
      [] pc = "planning" -> 2
      [] pc = "scripted" -> 3
      [] pc = "script"   -> ScriptLeft
      [] pc = "idle"     -> 6 + Len(PushScript) + FlowReads

(* Those of the iterations that are left when i have begun.                  *)
RoundsLeft(i) ==
    (4 + MaxBatch) * (IF i < MaxIterations THEN MaxIterations - i ELSE 0)

StepsLeft == HereLeft + RoundsLeft(iterations)

(* Every step of the run is a step towards its end.  A cancellation is none, *)
(* it only waits to be seen.                                                 *)
WindsDown ==
    StepsLeft' < StepsLeft \/ (StepsLeft' = StepsLeft /\ cancelled' # cancelled)

\* The script of a push has seven calls.
LEMMA PushLength == Len(PushScript) = 7
BY DEF PushScript

\* The iterations that are left: a number, less with each that begins.
LEMMA RoundsFall ==
  ASSUME NEW i \in Nat
  PROVE  /\ RoundsLeft(i) \in Nat
         /\ \A j \in Nat : i <= j => RoundsLeft(j) <= RoundsLeft(i)
         /\ i < MaxIterations => RoundsLeft(i) = RoundsLeft(i + 1) + 4 + MaxBatch
<1> DEFINE a == 4 + MaxBatch
           left(k) == IF k < MaxIterations THEN MaxIterations - k ELSE 0
<1>1. a \in Nat /\ \A k \in Nat : left(k) \in Nat
  BY Limits
<1>2. \A x, y \in Nat : /\ a * x \in Nat
                        /\ y <= x => a * y <= a * x
                        /\ a * (x + 1) = a * x + a
  <2> HIDE DEF a
  <2>1. SUFFICES ASSUME NEW x \in Nat, NEW y \in Nat
                 PROVE  /\ a * x \in Nat
                        /\ y <= x => a * y <= a * x
                        /\ a * (x + 1) = a * x + a
    OBVIOUS
  <2>2. ASSUME y <= x PROVE a * y <= a * x
    <3>1. PICK d \in Nat : x = y + d
      BY <2>2
    <3>2. a * x = a * y + a * d /\ a * d \in Nat /\ a * y \in Nat
      BY <1>1, <3>1
    <3>3. QED
      BY <3>2
  <2>3. QED
    BY <1>1, <2>2
<1>3. \A j \in Nat : i <= j => left(j) <= left(i)
  BY Limits
<1>4. i < MaxIterations => left(i) = left(i + 1) + 1
  BY Limits
<1>5. \A k \in Nat : RoundsLeft(k) = a * left(k)
  BY DEF RoundsLeft
<1>6. a * left(i) \in Nat /\ \A j \in Nat : i <= j => a * left(j) <= a * left(i)
  <2> HIDE DEF a, left
  <2>1. QED
    BY <1>1, <1>2, <1>3
<1>7. i < MaxIterations => a * left(i) = a * left(i + 1) + a
  <2> HIDE DEF a, left
  <2>1. i + 1 \in Nat
    OBVIOUS
  <2>2. QED
    BY <1>1, <1>2, <1>4, <2>1
<1>8. i < MaxIterations => RoundsLeft(i) = RoundsLeft(i + 1) + a
  <2> HIDE DEF a, left
  <2>1. QED
    BY <1>5, <1>7
<1>9. RoundsLeft(i) \in Nat /\ \A j \in Nat : i <= j => RoundsLeft(j) <= RoundsLeft(i)
  <2> HIDE DEF a, left
  <2>1. QED
    BY <1>5, <1>6
<1>10. RoundsLeft(i + 1) \in Nat
  <2> HIDE DEF a, left
  <2>1. i + 1 \in Nat
    OBVIOUS
  <2>2. QED
    BY <1>1, <1>2, <1>5, <2>1
<1>11. QED
  BY <1>8, <1>9, <1>10, Limits

\* What is left of a script is a number too, with room for what follows it.
LEMMA ScriptIsNumber == step \in Nat => ScriptLeft \in Nat /\ ScriptLeft >= 4
<1> SUFFICES ASSUME step \in Nat PROVE ScriptLeft \in Nat /\ ScriptLeft >= 4
  OBVIOUS
<1> DEFINE n == CASE goal.flow = "push" -> Len(PushScript) + 5 - step
                  [] goal.flow = "test" -> 7 - step
                  [] OTHER              -> FlowReads + 6 - step
<1>1. n \in Int
  <2>1. CASE goal.flow = "push"
    BY <2>1, PushLength
  <2>2. CASE goal.flow = "test"
    BY <2>2
  <2>3. CASE goal.flow \notin {"push", "test"}
    <3>1. n = FlowReads + 6 - step
      BY <2>3
    <3>2. QED
      BY <3>1, Limits
  <2>4. QED
    BY <2>1, <2>2, <2>3
<1>2. ScriptLeft = IF n > 4 THEN n ELSE 4
  BY DEF ScriptLeft
<1> HIDE DEF n
<1>3. QED
  BY <1>1, <1>2

\* ... and so is what is left of an iteration.
LEMMA HereIsNumber == TypeInv => HereLeft \in Nat
<1> SUFFICES ASSUME TypeInv PROVE HereLeft \in Nat
  OBVIOUS
<1>1. ScriptLeft \in Nat
  BY ScriptIsNumber DEF TypeInv, AgentTypeOK
<1>2. pc \in Points /\ batch \in Nat
  BY Limits DEF TypeInv, AgentTypeOK
<1>3. QED
  BY <1>1, <1>2, Limits, PushLength DEF HereLeft, Points

\* A call of a script: the script comes nearer its end.
LEMMA ScriptFalls ==
  ASSUME TypeInv, FlowStep
  PROVE  HereLeft' < HereLeft /\ iterations' = iterations + 1
<1>1. iterations' = iterations + 1 /\ goal' = goal /\ pc = "script"
  BY DEF FlowStep, PushGoesOn, PushSkips, PushStops, TestLists, TestRuns, ExplainReads, FlowRecord,
         Playing
<1>2. step \in Nat \ {0} /\ ScriptLeft \in Nat /\ ScriptLeft >= 4
  BY <1>1, ScriptIsNumber DEF TypeInv, AgentTypeOK, Control
<1>3. HereLeft = ScriptLeft
  BY <1>1 DEF HereLeft
<1>4. pc' \in {"scripted", "aborted"} => HereLeft' \in {1, 3}
  BY DEF HereLeft
<1>5. pc' = "script" => HereLeft' = ScriptLeft'
  BY DEF HereLeft
<1>6. CASE pc' \in {"scripted", "aborted"}
  BY <1>1, <1>2, <1>3, <1>4, <1>6
<1>7. CASE pc' = "script"
  <2>1. ScriptLeft' < ScriptLeft
    <3>1. CASE PushGoesOn
      <4>1. goal.flow = "push" /\ step' = step + 1 /\ step <= 7
        BY <1>1, <3>1, PushLength DEF PushGoesOn, Playing, TypeInv, Control
      <4>2. QED
        BY <1>1, <1>2, <4>1, PushLength DEF ScriptLeft
    <3>2. CASE PushSkips
      <4>1. goal.flow = "push" /\ step' = 6 /\ step <= 7
            /\ PushScript[step] \in {"git_identity", "git_commit"}
        BY <1>1, <3>2, PushLength DEF PushSkips, Playing, ScriptTool, TypeInv, Control
      <4>2. step \in {3, 5}
        BY <1>2, <4>1 DEF PushScript
      <4>3. QED
        BY <1>1, <4>1, <4>2, PushLength DEF ScriptLeft
    <3>3. CASE TestLists
      <4>1. goal.flow = "test" /\ step = 1 /\ step' = 2
        BY <3>3 DEF TestLists, Playing
      <4>2. QED
        BY <1>1, <4>1 DEF ScriptLeft
    <3>4. CASE ExplainReads
      <4>1. goal.flow = "explain" /\ step' = step + 1 /\ step <= FlowReads
        BY <1>7, <3>4 DEF ExplainReads, Playing
      <4>2. QED
        BY <1>1, <1>2, <4>1, Limits DEF ScriptLeft
    <3>5. CASE PushStops \/ TestRuns
      BY <1>7, <3>5 DEF PushStops, TestRuns
    <3>6. QED
      BY <3>1, <3>2, <3>3, <3>4, <3>5 DEF FlowStep
  <2>2. QED
    BY <1>1, <1>3, <1>5, <1>7, <2>1
<1>8. pc' \in {"scripted", "aborted", "script"}
  BY <1>1 DEF FlowStep, PushGoesOn, PushSkips, PushStops, TestLists, TestRuns, ExplainReads
<1>9. QED
  BY <1>6, <1>7, <1>8

\* A call of an answer: one less is left, or the limit drops the rest.
LEMMA CallFalls ==
  ASSUME TypeInv, NEW op \in Ops, CallStep(op)
  PROVE  HereLeft' < HereLeft /\ iterations' = iterations
<1>1. pc = "batch" /\ iterations' = iterations
      /\ batch' \in {0, batch - 1} /\ pc' = (IF batch' = 0 THEN "closing" ELSE "batch")
  BY DEF CallStep, Malformed, Reject, Deny, Block, Reuse, Succeed, Fail, Runs, Allowed, Checked, Record
<1>2. batch \in Nat \ {0}
  BY <1>1, Limits DEF TypeInv, AgentTypeOK, Control
<1>3. QED
  BY <1>1, <1>2 DEF HereLeft

\* Every other step but the begin of an iteration.
LEMMA HereFalls ==
  ASSUME TypeInv, LoopStep, ~NextIteration
  PROVE  HereLeft' < HereLeft /\ iterations' \in Nat /\ iterations <= iterations'
<1>1. iterations \in Nat /\ batch \in Nat
  BY Limits DEF TypeInv, AgentTypeOK
<1>2. CASE Start
  <2>1. pc = "idle" /\ iterations' = iterations /\ goal' = goal
        /\ \/ pc' = "planning"
           \/ pc' = "script" /\ step' = 1
    BY <1>2 DEF Start
  <2>2. HereLeft = 6 + 7 + FlowReads
    BY <2>1, PushLength DEF HereLeft
  <2>3. CASE pc' = "planning"
    BY <1>1, <2>1, <2>2, <2>3, Limits DEF HereLeft
  <2>4. CASE pc' = "script" /\ step' = 1
    <3>1. ScriptLeft' \in {11, 6, FlowReads + 5}
      <4>1. CASE goal.flow = "push"
        BY <2>1, <2>4, <4>1, PushLength DEF ScriptLeft
      <4>2. CASE goal.flow = "test"
        BY <2>1, <2>4, <4>2 DEF ScriptLeft
      <4>3. CASE goal.flow \notin {"push", "test"}
        BY <2>1, <2>4, <4>3, Limits DEF ScriptLeft
      <4>4. QED
        BY <4>1, <4>2, <4>3
    <3>2. HereLeft' = ScriptLeft'
      BY <2>4 DEF HereLeft
    <3>3. QED
      BY <1>1, <2>1, <2>2, <3>1, <3>2, Limits
  <2>5. QED
    BY <2>1, <2>3, <2>4
<1>3. CASE FlowStep
  BY <1>1, <1>3, ScriptFalls
<1>4. CASE \E op \in Ops : CallStep(op)
  BY <1>1, <1>4, CallFalls
<1>5. CASE Plan \/ FlowConcludes
  BY <1>1, <1>5 DEF Plan, FlowConcludes, HereLeft
<1>6. CASE EndingStep
  <2>1. pc \in Points \ {"ended"} /\ pc' = "ended" /\ iterations' = iterations
    BY <1>6 DEF EndingStep, Exhaust, StopCancelled, ModelFails, Answer, Conclude, CloseStagnant, Recover,
       FlowAborts, End, Points
  <2>2. HereLeft' = 0
    BY <2>1 DEF HereLeft
  <2>3. HereLeft # 0
    <3>1. pc \in {"boundary", "calling", "closing", "aborted"}
      BY <1>6 DEF EndingStep, Exhaust, StopCancelled, ModelFails, Answer, CloseStagnant, FlowAborts
    <3>2. QED
      BY <3>1, Limits DEF HereLeft
  <2>4. QED
    BY <1>1, <2>1, <2>2, <2>3, HereIsNumber
<1>7. CASE Prepare
  BY <1>1, <1>7, Limits DEF Prepare, HereLeft
<1>8. CASE ModelCalls
  BY <1>1, <1>8, Limits DEF ModelCalls, HereLeft
<1>9. CASE Nudge
  BY <1>1, <1>9, Limits DEF Nudge, HereLeft
<1>10. CASE Close
  BY <1>1, <1>10 DEF Close, HereLeft
<1>11. QED
  BY <1>2, <1>3, <1>4, <1>5, <1>6, <1>7, <1>8, <1>9, <1>10, Zenon
  DEF LoopStep, ToolCall, CallStep, EndingStep

\* The safe half of "every run ends" (RunEnds, which TLC checks): a number that
\* each step of the loop lowers, whatever the model, the tools and the user do.
\* Nudges, refusals, blocked and repeated calls cannot keep a run going.
THEOREM AgentWindsDown == Spec => [](StepsLeft \in Nat) /\ [][WindsDown]_vars
<1>1. ASSUME TypeInv PROVE StepsLeft \in Nat
  <2>1. HereLeft \in Nat /\ iterations \in Nat
    BY <1>1, HereIsNumber DEF TypeInv, AgentTypeOK
  <2>2. RoundsLeft(iterations) \in Nat
    BY <2>1, RoundsFall
  <2>3. QED
    BY <2>1, <2>2 DEF StepsLeft
<1>2. ASSUME TypeInv, TypeInv', [Next]_vars
      PROVE  [WindsDown]_vars
  <2>1. /\ iterations \in Nat /\ HereLeft \in Nat /\ HereLeft' \in Nat
        /\ iterations' \in Nat
    <3>1. (TypeInv => HereLeft \in Nat)'
      BY HereIsNumber, PTL
    <3>2. QED
      BY <1>2, <3>1, HereIsNumber DEF TypeInv, AgentTypeOK
  <2>2. RoundsLeft(iterations) \in Nat /\ RoundsLeft(iterations') \in Nat
    BY <2>1, RoundsFall
  <2>3. CASE LoopStep /\ ~NextIteration
    <3>1. HereLeft' < HereLeft /\ iterations <= iterations'
      BY <1>2, <2>3, HereFalls
    <3>2. RoundsLeft(iterations') <= RoundsLeft(iterations)
      BY <2>1, <3>1, RoundsFall
    <3>3. QED
      BY <2>1, <2>2, <3>1, <3>2 DEF WindsDown, StepsLeft
  <2>4. CASE NextIteration
    <3>1. /\ pc = "boundary" /\ iterations < MaxIterations
          /\ iterations' = iterations + 1 /\ pc' = "prepare"
      BY <2>4 DEF NextIteration
    <3>2. HereLeft = 1 /\ HereLeft' = 4 + MaxBatch
      BY <3>1 DEF HereLeft
    <3>3. RoundsLeft(iterations) = RoundsLeft(iterations') + 4 + MaxBatch
      BY <2>1, <3>1, RoundsFall
    <3>4. QED
      BY <2>2, <3>2, <3>3, Limits DEF WindsDown, StepsLeft
  <2>5. CASE Cancel
    <3>1. UNCHANGED <<pc, iterations, step, goal, batch>> /\ cancelled' # cancelled
      BY <2>5 DEF Cancel, taskVars
    <3>2. HereLeft' = HereLeft
      BY <3>1 DEF HereLeft, ScriptLeft
    <3>3. QED
      BY <3>1, <3>2 DEF WindsDown, StepsLeft
  <2>6. QED
    BY <1>2, <2>3, <2>4, <2>5 DEF Next
<1>3. QED
  BY <1>1, <1>2, LimitsHold, PTL DEF Spec
=============================================================================
