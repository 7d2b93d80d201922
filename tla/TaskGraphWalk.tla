--------------------------- MODULE TaskGraphWalk ---------------------------
(***************************************************************************)
(* The recursive walks of TaskGraph (agents/domain.py) call by call: depth *)
(* first, with the recursion as a stack of the calls under way, changing   *)
(* the graph in place on the way down.  A behaviour picks a graph with its *)
(* statuses and runs one operation on it, so that the invariants compare   *)
(* each walk with its order-free definition in TaskGraph.  The order of    *)
(* the dict and of the lists of dependencies is not fixed: a loop takes    *)
(* its tasks in any order.                                                 *)
(***************************************************************************)
EXTENDS TaskGraph, Sequences

CONSTANTS
    Planned,     \* the tasks of the graph
    Debug,       \* the first task of a recovery sequence
    Retest,      \* the second one
    Edges,       \* the pairs <<d, t>> that may be dependencies (t on d)
    Statuses     \* the statuses the planned tasks start with

ASSUME WalkAssumption ==
    /\ IsFiniteSet(Planned)
    /\ Debug \notin Planned /\ Retest \notin Planned /\ Debug # Retest
    /\ Edges \subseteq Planned \X Planned
    /\ Statuses \subseteq TaskStatus

VARIABLES
    status, deps,       \* the graph, changed in place
    status0, deps0,     \* the graph at the call
    op, subject,        \* the operation and the task it is called on
    left,               \* the tasks the operation's own loop has not taken yet
    stack,              \* the recursive calls under way, the innermost last
    colour,             \* of the tasks, in _has_cycle and topological_sort
    cyclic, sorted      \* their results

graph0    == <<status0, deps0>>
searchVars == <<colour, cyclic, sorted>>
vars      == <<status, deps, graph0, op, subject, left, stack, searchVars>>

Ids == Planned \cup {Debug, Retest}

(* A call on task t whose loop has still to take the tasks of todo.          *)
Call(t, todo) == [task |-> t, todo |-> todo]
Innermost     == stack[Len(stack)]
Taken(d)      == [stack EXCEPT ![Len(stack)].todo = @ \ {d}]
Returned      == SubSeq(stack, 1, Len(stack) - 1)

(* The innermost call takes d in its loop.                                   *)
Takes(d)  == stack # <<>> /\ d \in Innermost.todo
(* ... or has taken all.                                                     *)
LoopEnds  == stack # <<>> /\ Innermost.todo = {}

Cascading == op \in {"failed", "cancelled"}
Searching == op \in {"validate", "sort"}

(* The operation has returned.                                               *)
Done == op # "none" /\ stack = <<>> /\ left = {}

Init ==
    /\ \E E \in SUBSET Edges, start \in [Planned -> Statuses] :
        /\ deps = [t \in Ids |-> {d \in Planned : <<d, t>> \in E}]
        /\ status = [t \in Ids |-> IF t \in Planned THEN start[t] ELSE "absent"]
    /\ status0 = status /\ deps0 = deps
    /\ op = "none" /\ subject \in Planned
    /\ left = {} /\ stack = <<>>
    /\ colour = [t \in Planned |-> "white"]
    /\ cyclic = FALSE /\ sorted = <<>>

-----------------------------------------------------------------------------
\* update_task_status with each status that cascades, on any task.
CallUpdate(s) ==
    /\ op = "none"
    /\ op' = s
    /\ status' = [status EXCEPT ![subject] = s]
    /\ stack' = <<Call(subject, Dependents(status, deps, subject))>>
    /\ UNCHANGED <<deps, graph0, subject, left, searchVars>>

\* The status that _propagate_status hands down.
Spread == IF op = "failed" THEN "blocked" ELSE "cancelled"

\* Mutant: the cascade stops at the direct dependents.
PropagateTo_OneLevel(d) ==
    /\ Cascading /\ Takes(d)
    /\ stack' = Taken(d)
    /\ status' = [status EXCEPT ![d] = IF @ \in TerminalStatus THEN @ ELSE Spread]
    /\ UNCHANGED <<deps, graph0, op, subject, left, searchVars>>

\* One turn of the loop of _propagate_status.
PropagateTo(d) ==
    /\ Cascading /\ Takes(d)
    /\ IF status[d] \notin TerminalStatus \cup {Spread}
       THEN /\ status' = [status EXCEPT ![d] = Spread]
            /\ stack' = Append(Taken(d), Call(d, Dependents(status, deps, d)))
       ELSE stack' = Taken(d) /\ UNCHANGED status
    /\ UNCHANGED <<deps, graph0, op, subject, left, searchVars>>

-----------------------------------------------------------------------------
\* insert_recovery_sequence, called on a failed task, up to its loop.
CallInsert ==
    /\ op = "none" /\ status[subject] = "failed"
    /\ op' = "insert"
    /\ status' = [status EXCEPT ![Debug] = "created", ![Retest] = "created"]
    /\ deps' = [deps EXCEPT ![Debug] = deps[subject], ![Retest] = @ \cup {Debug}]
    /\ left' = Dependents(status', deps', subject) \ {Debug, Retest}
    /\ UNCHANGED <<graph0, subject, stack, searchVars>>

\* _unblock_dependents(d), called from the calls of s, with the dependencies dp.
UnblockFrom(s, dp, d) ==
    IF status[d] \in Resettable
    THEN /\ status' = [status EXCEPT ![d] = "created"]
         /\ stack' = Append(s, Call(d, Dependents(status, dp, d)))
    ELSE stack' = s /\ UNCHANGED status

\* Mutant: a dependent of the failed task loses it and gains nothing.
Rewire_NoRetest(d) ==
    /\ op = "insert" /\ stack = <<>> /\ d \in left
    /\ left' = left \ {d}
    /\ deps' = [deps EXCEPT ![d] = @ \ {subject}]
    /\ UnblockFrom(stack, deps', d)
    /\ UNCHANGED <<graph0, op, subject, searchVars>>

\* One turn of the loop of insert_recovery_sequence: a dependent of the failed
\* task is rewired and unblocked before the next is.
Rewire(d) ==
    /\ op = "insert" /\ stack = <<>> /\ d \in left
    /\ left' = left \ {d}
    /\ deps' = [deps EXCEPT ![d] = (@ \ {subject}) \cup {Retest}]
    /\ UnblockFrom(stack, deps', d)
    /\ UNCHANGED <<graph0, op, subject, searchVars>>

\* One turn of the loop of _unblock_dependents.
UnblockNext(d) ==
    /\ op = "insert" /\ Takes(d)
    /\ UnblockFrom(Taken(d), deps, d)
    /\ UNCHANGED <<deps, graph0, op, subject, left, searchVars>>

\* A call of _propagate_status or of _unblock_dependents returns.
WalkReturns ==
    /\ ~Searching /\ LoopEnds
    /\ stack' = Returned
    /\ UNCHANGED <<status, deps, graph0, op, subject, left, searchVars>>

-----------------------------------------------------------------------------
\* validate (_has_cycle) and topological_sort, of a plan nobody has begun.
CallSearch(o) ==
    /\ op = "none" /\ \A t \in Planned : status[t] = "created"
    /\ op' = o
    /\ left' = Planned
    /\ UNCHANGED <<status, deps, graph0, subject, stack, searchVars>>

\* visit(t), called from the calls of s.
Visit(s, t) ==
    /\ colour' = [colour EXCEPT ![t] = "grey"]
    /\ stack' = Append(s, Call(t, deps[t]))

\* One turn of the loop over all tasks.
VisitRoot(t) ==
    /\ Searching /\ stack = <<>> /\ t \in left
    /\ left' = left \ {t}
    /\ IF colour[t] = "white" THEN Visit(stack, t) ELSE UNCHANGED <<stack, colour>>
    /\ UNCHANGED <<status, deps, graph0, op, subject, cyclic, sorted>>

\* One turn of the loop over the dependencies, at a task not seen yet ...
VisitWhite(d) ==
    /\ Searching /\ Takes(d) /\ colour[d] = "white"
    /\ Visit(Taken(d), d)
    /\ UNCHANGED <<status, deps, graph0, op, subject, left, cyclic, sorted>>

\* Mutant: a task seen before is taken for one under way.
MeetGrey_Seen(d) ==
    /\ op = "validate" /\ Takes(d) /\ colour[d] # "white"
    /\ cyclic' = TRUE
    /\ stack' = <<>> /\ left' = {}
    /\ UNCHANGED <<status, deps, graph0, op, subject, colour, sorted>>

\* ... at one whose visit is under way, which ends _has_cycle with all its calls ...
MeetGrey(d) ==
    /\ op = "validate" /\ Takes(d) /\ colour[d] = "grey"
    /\ cyclic' = TRUE
    /\ stack' = <<>> /\ left' = {}
    /\ UNCHANGED <<status, deps, graph0, op, subject, colour, sorted>>

\* ... and at one that has been visited; topological_sort passes by a grey one too.
PassBy(d) ==
    /\ Searching /\ Takes(d)
    /\ colour[d] \in IF op = "sort" THEN {"grey", "black"} ELSE {"black"}
    /\ stack' = Taken(d)
    /\ UNCHANGED <<status, deps, graph0, op, subject, left, searchVars>>

\* visit returns; topological_sort appends the task.
VisitReturns ==
    /\ Searching /\ LoopEnds
    /\ colour' = [colour EXCEPT ![Innermost.task] = "black"]
    /\ sorted' = IF op = "sort" THEN Append(sorted, Innermost.task) ELSE sorted
    /\ stack' = Returned
    /\ UNCHANGED <<status, deps, graph0, op, subject, left, cyclic>>

Next ==
    \/ \E s \in {"failed", "cancelled"} : CallUpdate(s)
    \/ CallInsert
    \/ \E o \in {"validate", "sort"} : CallSearch(o)
    \/ \E d \in Ids : PropagateTo(d) \/ Rewire(d) \/ UnblockNext(d)
    \/ \E t \in Planned : VisitRoot(t) \/ VisitWhite(t) \/ MeetGrey(t) \/ PassBy(t)
    \/ WalkReturns
    \/ VisitReturns

Spec == Init /\ [][Next]_vars

-----------------------------------------------------------------------------
\* The cascade of update_task_status changes what TaskGraph!UpdateStatus says,
\* whatever the order of the dict and also when the graph has a cycle: no
\* dependent is missed, and nothing else is changed (domain.py _propagate_status).
CascadeIsReach ==
    Cascading /\ Done =>
        /\ status = UpdateStatus(status0, deps0, subject, op)
        /\ deps = deps0

\* Rewiring and unblocking the dependents one after the other, with walks that
\* see a graph half rewired, has the effect of doing it all at once
\* (domain.py insert_recovery_sequence).
InsertIsRewiring ==
    op = "insert" /\ Done =>
        /\ deps = RewiredDeps(status0, deps0, subject, Debug, Retest)
        /\ status = RecoveredStatus(status0, deps0, subject, Debug, Retest)

(* Some tasks each wait for another of them: on a finite graph, a cycle.     *)
Circular(dp) ==
    \E S \in SUBSET Planned : S # {} /\ \A t \in S : dp[t] \cap S # {}

\* _has_cycle answers TRUE exactly when there is a cycle; topological_sort
\* returns every task once and, when there is none, after all its dependencies.
SortIsTopological ==
    /\ op = "validate" /\ Done => cyclic = Circular(deps0)
    /\ op = "sort" /\ Done =>
        /\ \A t \in Planned : \E i \in DOMAIN sorted : sorted[i] = t
        /\ \A i, j \in DOMAIN sorted :
            /\ sorted[i] \in Planned
            /\ sorted[i] = sorted[j] => i = j
            /\ sorted[i] \in deps0[sorted[j]] => i < j \/ Circular(deps0)
=============================================================================
